---------------------------- MODULE MCLifecycle ----------------------------
(* Lifecycle for TLC.  Build, memory and ui, which the commands treat       *)
(* independently of each other, are given or withheld together.            *)
EXTENDS Lifecycle

TwoModels == <<"eve-reasoning", "eve-reranker">>
OneVoice == {"eve-wakeword"}

Machines == {"garnetmoon", "legion-go"}

FewUps == {o \in UpOptions :
             o.profile \in Machines /\ o.memory = o.ui /\ o.build = o.ui}
FewDowns == {o \in DownOptions : o.profile \in Machines /\ o.memory = o.ui}
Restarts == {Code, Orchestrator, Memory}
=============================================================================
