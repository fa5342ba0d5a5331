------------------------ MODULE MCConversationAgent ------------------------
(* Instances of ConversationAgent and ConversationSources for TLC.         *)
EXTENDS ConversationSources, TLC

CONSTANTS search1, search2, other1, write1, start1, source1, source2, ev1

TwoSearches == {search1, search2}
OneOther == {other1}
OneWriter == {write1}
OneStart == {start1}
GatedWriter == {write1}
WriterAndStart == {write1, start1}
OneList == {<<source1>>}
TwoLists == {<<source1>>, <<source2, source1>>}
OneEvidence == {ev1}
=============================================================================
