---------------------------- MODULE ChatContext ----------------------------
(***************************************************************************)
(* The active thread of a conversation (src/src/orchestrator/chatctx/       *)
(* chatctx.go): the recent turns that belong with the latest message.  Its  *)
(* user texts are the evidence a tool call is held against.                 *)
(*                                                                         *)
(* A message is [role, text, asks]; asks tells whether it ends in a         *)
(* question mark.                                                           *)
(***************************************************************************)
EXTENDS Text

CONSTANTS MaxMessages,      \* contextSelectionMessages
          MaxTurns,         \* activeContextTurns
          MaxPrompt         \* tokens of a text that fit in maxPromptChars

ASSUME ContextIsBounded == {MaxMessages, MaxTurns, MaxPrompt} \subseteq Nat \ {0}

(* Words of fewer than three letters and the stopwords of the code. *)
Stopwords ==
    {"", "what", "what is", "is", "my", "the", "and", "to", "in", "at", "of", "for", "it", "now",
     "today", "tomorrow", "time", "date", "help", "me", "+", "-", "*", "/", "(", ")"}
FollowUps == {"what about", "also", "then"}
Requests == {"what", "what is", "explain", "write a", "help", "now"}

(* extractAnchors and isStrongAnchor: an anchor with a digit or a slash is  *)
(* strong.  A measure is one token, as when it is written "70kg".           *)
Anchors(text) == {text[i] : i \in {j \in DOMAIN text : text[j].w \notin Stopwords}}
Strong(t) == t.n # << >> \/ t.w \in DOMAIN Slashed

(* isBriefFollowUp and looksLikeAnswer *)
Brief(text) ==
    \/ text[1].w \in FollowUps
    \/ /\ \A t \in Anchors(text) : ~Strong(t)
       /\ Len(text) <= 6 /\ Cardinality(Anchors(text)) <= 2

LooksLikeAnswer(text) == Len(text) <= 8 /\ text[1].w \notin Requests

(* shouldStartNewThread.  A turn is a user message and what follows it, and *)
(* is named by the position of the user message; so the message before      *)
(* position i is the last one of the turn before, which may have asked.     *)
StartsThread(messages, thread, i) ==
    LET text    == messages[i].text
        known   == UNION {Anchors(messages[j].text) : j \in thread}
        overlap == Cardinality(Anchors(text) \cap known)
        new     == Anchors(text) \ known
        strong  == {t \in new : Strong(t)}
    IN  /\ ~Brief(text)
        /\ ~(messages[i - 1].asks /\ LooksLikeAnswer(text))
        /\ \/ Cardinality(strong) >= 1 /\ overlap = 0
           \/ Cardinality(strong) >= 2 /\ overlap <= 1
           \/ Cardinality(new) >= 3 /\ overlap = 0

(* Build: of the turns in the tail of the transcript, the active thread,    *)
(* and of that the last turns.  begins[i] is the turn where the thread of   *)
(* the first i messages begins, 0 when they have no turn.                   *)
Build(messages) ==
    LET recent == {i \in DOMAIN messages : messages[i].role = "user" /\ i > Len(messages) - MaxMessages}
        begins[i \in 0 .. Len(messages)] ==
          LET before == begins[i - 1]
          IN  IF i = 0 THEN 0
              ELSE IF i \notin recent THEN before
              ELSE IF before = 0 \/ StartsThread(messages, recent \cap before .. i - 1, i) THEN i
              ELSE before
        thread == {i \in recent : i >= begins[Len(messages)]}
    IN  {i \in thread : Cardinality({j \in thread : j > i}) < MaxTurns}

(* The user texts of formatTurns, each cut off by compactText. *)
UserEvidence(messages) ==
    LET cut(text) == IF Len(text) <= MaxPrompt THEN text ELSE SubSeq(text, 1, MaxPrompt)
    IN  {cut(messages[i].text) : i \in Build(messages)}
=============================================================================
