------------------------------- MODULE OneReply -------------------------------
(***************************************************************************)
(* What a component that takes questions promises those who ask: a         *)
(* question is refused at once or kept, what is kept may be answered       *)
(* alone or with others, and nobody is answered who did not ask, twice, or *)
(* asked again.  WiFiManager implements it for the calls of its page, the  *)
(* pairing agent for the requests of BlueZ that it takes.                  *)
(***************************************************************************)
EXTENDS Naturals

CONSTANT Asks       \* the questions there may be

VARIABLES waiting,  \* those asked and kept
          answers   \* how many answers each has got

replyVars == <<waiting, answers>>

OneReplyInit == waiting = {} /\ answers = [a \in Asks |-> 0]

IsNew(a) == a \notin waiting /\ answers[a] = 0

Keep(a) ==
    /\ IsNew(a)
    /\ waiting' = waiting \cup {a}
    /\ UNCHANGED answers

Refuse(a) ==
    /\ IsNew(a)
    /\ answers' = [answers EXCEPT ![a] = 1]
    /\ UNCHANGED waiting

AnswerAll(asked) ==
    /\ asked \subseteq waiting
    /\ waiting' = waiting \ asked
    /\ answers' = [a \in Asks |-> IF a \in asked THEN 1 ELSE answers[a]]

OneReplyNext ==
    \/ \E a \in Asks : Keep(a) \/ Refuse(a)
    \/ \E asked \in SUBSET Asks : AnswerAll(asked)

OneReplySpec == OneReplyInit /\ [][OneReplyNext]_replyVars
=============================================================================
