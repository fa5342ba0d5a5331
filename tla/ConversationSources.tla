------------------------ MODULE ConversationSources ------------------------
(***************************************************************************)
(* The numbered sources under the answer of a conversation run, and what   *)
(* the answer's citation numbers refer to.  formatInternetEvidence numbers *)
(* the sources of each search from 1; finishConversationAgent prints one   *)
(* list over all searches, without repetitions, and numbers it again.      *)
(***************************************************************************)
EXTENDS ConversationAgent, SequencesExt

(* appendInternetSources over the run's observations.                      *)
AddSource(list, source) ==
  IF Contains(list, source) THEN list ELSE Append(list, source)

PrintedSources ==
  FoldLeft(AddSource, <<>>,
    FlattenSeq([i \in DOMAIN observations |-> observations[i].sources]))

Answered == outcome = "answer" /\ cite # 0 /\ NeedsInternet

(* What some search showed the model under this number.                    *)
Shown(number) ==
  {observations[i].sources[number] :
    i \in {j \in DOMAIN observations : number \in DOMAIN observations[j].sources}}

(* The number an accepted answer cites is in the list printed below it and *)
(* leads to a source the model was shown under it. (The guard's demand in  *)
(* runConversationAgent, against appendInternetSources.)                   *)
CitationLeadsToSource ==
  Answered => cite \in DOMAIN PrintedSources /\ PrintedSources[cite] \in Shown(cite)

=============================================================================
