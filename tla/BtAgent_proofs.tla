--------------------------- MODULE BtAgent_proofs ---------------------------
(***************************************************************************)
(* Proofs about BtAgent for any number of requests and prompts.  The       *)
(* inductive invariant says that a tag, wherever it is under way, is older *)
(* than m_tag and means one request for good, and that a request is kept   *)
(* in m_delayedReplies exactly as long as BlueZ was sent nothing for it.   *)
(* The requests that are not rejected then refine OneReply.                *)
(***************************************************************************)
EXTENDS BtAgent, FiniteSetTheorems, SequenceTheorems, TLAPS

\* Where tag t is still kept, it is kept for request r; and t is not given again.
Means(t, r) == t < m_tag /\ \A d \in delayed : d.tag = t => d.request = r

TagsMean ==
    /\ \A p \in shown : Means(p.tag, p.for)
    /\ \A i \in 1..Len(prompts) : Means(prompts[i].tag, prompts[i].for)
    /\ \A i \in 1..Len(answers) : Means(answers[i].tag, answers[i].for)

KeptOnce == \A d, e \in delayed : d.tag = e.tag \/ d.request = e.request => d = e

\* A request still kept; one that was answered by the page; one that was rejected.
Unanswered(r) == replies[r] = <<>> /\ \E d \in delayed : d.request = r
Answered(r)   == Len(replies[r]) = 1 /\ ~Rejected(r) /\ \A d \in delayed : d.request # r
TurnedDown(r) == Len(replies[r]) = 2 /\ Rejected(r) /\ \A d \in delayed : d.request # r

RepliesOnce ==
    /\ \A r \in 1..Len(requests) : Unanswered(r) \/ Answered(r) \/ TurnedDown(r)
    /\ \A r \in RequestIds : r > Len(requests) => replies[r] = <<>>

AgentInv ==
    /\ AgentTypeOK
    /\ m_tag <= Len(requests) + 1
    /\ TagsMean
    /\ KeptOnce
    /\ RepliesOnce
    /\ AnswersOwnRequest

-----------------------------------------------------------------------------

LEMMA InitAgent == ASSUME AgentInit PROVE AgentInv
<1>1. /\ requests = <<>> /\ m_tag = 1 /\ delayed = {} /\ prompts = <<>> /\ shown = {} /\ answers = <<>>
      /\ given = {} /\ available \in BOOLEAN /\ replies = [r \in RequestIds |-> <<>>]
  BY DEF AgentInit
<1>2. Len(requests) = 0 /\ Len(prompts) = 0 /\ Len(answers) = 0
  BY <1>1
<1>3. AgentTypeOK
  <2>1. requests \in Seq(Kinds) /\ prompts \in Seq(Prompts) /\ answers \in Seq(Answers)
    BY <1>1
  <2>2. m_tag \in Tags
    BY <1>1, AgentAssumption DEF Tags
  <2>3. replies \in [RequestIds -> Seq(Replies)]
    BY <1>1
  <2> QED
    BY <1>1, <1>2, <2>1, <2>2, <2>3, AgentAssumption DEF AgentTypeOK
<1>4. RepliesOnce
  BY <1>1, <1>2 DEF RepliesOnce
<1> QED
  BY <1>1, <1>2, <1>3, <1>4 DEF AgentInv, TagsMean, KeptOnce, AnswersOwnRequest

\* A new element is the last one.
LEMMA Appended ==
    ASSUME NEW S, NEW q \in Seq(S), NEW x \in S
    PROVE  /\ Append(q, x) \in Seq(S) /\ Len(Append(q, x)) = Len(q) + 1 /\ Len(q) \in Nat
           /\ Append(q, x)[Len(q) + 1] = x
           /\ \A i \in 1..Len(q) : Append(q, x)[i] = q[i]
           /\ \A i \in 1..Len(Append(q, x)) : i \in 1..Len(q) \/ i = Len(q) + 1
OBVIOUS

LEMMA Taken ==
    ASSUME NEW S, NEW q \in Seq(S), q # <<>>
    PROVE  /\ Tail(q) \in Seq(S) /\ Head(q) \in S /\ Head(q) = q[1] /\ 1 \in 1..Len(q)
           /\ Len(Tail(q)) = Len(q) - 1 /\ Len(q) \in Nat
           /\ \A i \in 1..Len(Tail(q)) : Tail(q)[i] = q[i + 1] /\ i + 1 \in 1..Len(q)
BY HeadTailProperties, EmptySeq, LenProperties

\* Tags are numbers, wherever they are under way.
LEMMA TagsTyped ==
    ASSUME AgentTypeOK
    PROVE  /\ \A q \in shown : q.tag \in Nat
           /\ \A i \in 1..Len(prompts) : prompts[i].tag \in Nat
           /\ \A i \in 1..Len(answers) : answers[i].tag \in Nat
<1>1. \A t \in Tags : t \in Nat
  BY AgentAssumption DEF Tags
<1>2. \A q \in shown : q \in Prompts
  BY DEF AgentTypeOK
<1>3. ASSUME NEW i \in 1..Len(prompts) PROVE prompts[i] \in Prompts
  BY DEF AgentTypeOK
<1>4. ASSUME NEW i \in 1..Len(answers) PROVE answers[i] \in Answers
  BY DEF AgentTypeOK
<1> QED
  BY <1>1, <1>2, <1>3, <1>4 DEF Prompts, Answers

-----------------------------------------------------------------------------
(* Requests of BlueZ. *)

LEMMA AcceptKeeps == ASSUME AgentInv, NEW kind \in Kinds, AcceptRequest(kind) PROVE AgentInv'
<1> DEFINE n == Len(requests) + 1
<1> DEFINE new == [tag |-> m_tag, request |-> n]
<1> DEFINE p == [tag |-> m_tag, for |-> n]
<1>1. /\ AgentTypeOK /\ m_tag <= Len(requests) + 1 /\ TagsMean /\ KeptOnce /\ RepliesOnce
      /\ AnswersOwnRequest
  BY DEF AgentInv
<1>2. /\ requests \in Seq(Kinds) /\ m_tag \in Tags /\ prompts \in Seq(Prompts)
      /\ delayed \subseteq [tag : 1..m_tag - 1, request : 1..Len(requests)]
  BY <1>1 DEF AgentTypeOK
<1>3. /\ Len(requests) < MaxRequests /\ requests' = Append(requests, kind) /\ Len(prompts) < MaxPosted
      /\ m_tag' = m_tag + 1 /\ UNCHANGED <<replies, shown, answers, available, given>>
  BY DEF AcceptRequest, NewRequest, NextTag
<1>4. requests' \in Seq(Kinds) /\ Len(requests') = n /\ Len(requests) \in Nat
  BY <1>2, <1>3, Appended
<1>5. m_tag \in Nat /\ m_tag >= 1 /\ n \in RequestIds /\ m_tag \in Tags /\ m_tag' \in Tags
  BY <1>1, <1>2, <1>3, <1>4, AgentAssumption DEF Tags, RequestIds
<1>6. \A d \in delayed : d.tag < m_tag /\ d.request < n
  BY <1>2, <1>4, <1>5
<1>7. delayed' = delayed \cup {new} /\ prompts' = Append(prompts, p)
  BY <1>4, <1>5, <1>6 DEF AcceptRequest
<1>8. p \in Prompts
  BY <1>5 DEF Prompts
<1>9. new.tag = m_tag /\ new.request = n /\ p.tag = m_tag /\ p.for = n
  OBVIOUS
<1> HIDE DEF p
<1>10. /\ prompts' \in Seq(Prompts) /\ Len(prompts') = Len(prompts) + 1
       /\ \A i \in 1..Len(prompts') : (i \in 1..Len(prompts) /\ prompts'[i] = prompts[i]) \/ prompts'[i] = p
  BY <1>2, <1>7, <1>8, Appended
<1>11. AgentTypeOK'
  <2>1. delayed' \subseteq [tag : 1..m_tag' - 1, request : 1..Len(requests')]
    BY <1>2, <1>3, <1>4, <1>5, <1>7
  <2>2. Len(requests') <= MaxRequests /\ Len(prompts') <= MaxPosted
    BY <1>3, <1>4, <1>10, <1>2, AgentAssumption
  <2> QED
    BY <1>1, <1>3, <1>4, <1>5, <1>10, <2>1, <2>2 DEF AgentTypeOK
<1>12. \A r : \A t \in Nat : Means(t, r) => t < m_tag' /\ \A d \in delayed' : d.tag = t => d.request = r
  BY <1>3, <1>5, <1>7, <1>9 DEF Means
<1>13. TagsMean'
  <2>1. ASSUME NEW i \in 1..Len(prompts')
        PROVE  /\ prompts'[i].tag < m_tag'
               /\ \A d \in delayed' : d.tag = prompts'[i].tag => d.request = prompts'[i].for
    <3>1. CASE i \in 1..Len(prompts) /\ prompts'[i] = prompts[i]
      BY <1>1, <1>12, <3>1, TagsTyped DEF TagsMean
    <3>2. CASE prompts'[i] = p
      BY <1>3, <1>5, <1>6, <1>7, <1>9, <3>2
    <3> QED
      BY <1>10, <3>1, <3>2
  <2>2. \A q \in shown :
          q.tag < m_tag' /\ \A d \in delayed' : d.tag = q.tag => d.request = q.for
    BY <1>1, <1>12, TagsTyped DEF TagsMean
  <2>3. \A i \in 1..Len(answers) :
          /\ answers[i].tag < m_tag'
          /\ \A d \in delayed' : d.tag = answers[i].tag => d.request = answers[i].for
    BY <1>1, <1>12, TagsTyped DEF TagsMean
  <2> QED
    BY <1>3, <2>1, <2>2, <2>3 DEF TagsMean, Means
<1>14. KeptOnce'
  <2>1. ASSUME NEW d \in delayed', NEW e \in delayed', d.tag = e.tag \/ d.request = e.request
        PROVE  d = e
    <3>1. CASE d \in delayed /\ e \in delayed
      BY <1>1, <2>1, <3>1 DEF KeptOnce
    <3>2. CASE d = new /\ e = new
      BY <3>2
    <3>3. CASE d \in delayed /\ e = new
      BY <1>4, <1>5, <1>6, <1>9, <2>1, <3>3
    <3>4. CASE d = new /\ e \in delayed
      BY <1>4, <1>5, <1>6, <1>9, <2>1, <3>4
    <3> QED
      BY <1>7, <3>1, <3>2, <3>3, <3>4
  <2> QED
    BY <2>1 DEF KeptOnce
<1>15. RepliesOnce'
  <2>1. \A r \in 1..Len(requests') : Unanswered(r)' \/ Answered(r)' \/ TurnedDown(r)'
    <3>1. ASSUME NEW r \in 1..Len(requests)
          PROVE  Unanswered(r)' \/ Answered(r)' \/ TurnedDown(r)'
      <4>1. r # n
        BY <1>4
      <4>2. (\E d \in delayed' : d.request = r) <=> (\E d \in delayed : d.request = r)
        BY <1>7, <1>9, <4>1
      <4>3. Unanswered(r) \/ Answered(r) \/ TurnedDown(r)
        BY <1>1 DEF RepliesOnce
      <4> QED
        BY <1>3, <4>2, <4>3, Zenon DEF Unanswered, Answered, TurnedDown, Rejected
    <3>2. ASSUME NEW r, r = n PROVE Unanswered(r)'
      <4>1. replies[r] = <<>>
        BY <1>1, <1>4, <1>5, <3>2 DEF RepliesOnce
      <4> QED
        BY <1>3, <1>7, <1>9, <3>2, <4>1 DEF Unanswered
    <3>3. \A r \in 1..Len(requests') : r \in 1..Len(requests) \/ r = n
      BY <1>4
    <3> QED
      BY <3>1, <3>2, <3>3
  <2>2. \A r \in RequestIds : r > Len(requests') => replies'[r] = <<>>
    BY <1>1, <1>3, <1>4 DEF RepliesOnce, RequestIds
  <2> QED
    BY <2>1, <2>2 DEF RepliesOnce
<1>16. m_tag' <= Len(requests') + 1
  BY <1>1, <1>3, <1>4, <1>5
<1>17. AnswersOwnRequest'
  BY <1>1, <1>3 DEF AnswersOwnRequest
<1> QED
  BY <1>11, <1>13, <1>14, <1>15, <1>16, <1>17 DEF AgentInv

\* What is seen of one reply, and of two.
LEMMA RepliesSeen ==
    ASSUME NEW first, NEW second
    PROVE  /\ Len(<<first>>) = 1 /\ Head(<<first>>) = first /\ <<first>> # <<>>
           /\ Len(<<first, second>>) = 2 /\ Head(<<first, second>>) = first
           /\ <<first, second>> # <<>>
<1>1. /\ Len(<<first>>) = 1 /\ <<first>>[1] = first
      /\ Len(<<first, second>>) = 2 /\ <<first, second>>[1] = first
  OBVIOUS
<1>2. \A s \in Seq({first, second}) : Len(s) > 0 => s # <<>> /\ Head(s) = s[1]
  OBVIOUS
<1>3. <<first>> \in Seq({first, second}) /\ <<first, second>> \in Seq({first, second})
  OBVIOUS
<1> QED
  BY <1>1, <1>2, <1>3

\* What BlueZ is sent for a request of an unknown device.
LEMMA TwoReplies ==
    ASSUME NEW kind \in Kinds
    PROVE  /\ <<"Rejected", Returned(kind)>> \in Seq(Replies)
           /\ <<>> \o <<"Rejected", Returned(kind)>> = <<"Rejected", Returned(kind)>>
<1>1. Returned(kind) \in Replies /\ "Rejected" \in Replies
  BY DEF Returned, Replies
<1> QED
  BY <1>1

LEMMA RejectKeeps == ASSUME AgentInv, NEW kind \in Kinds, RejectRequest(kind) PROVE AgentInv'
<1> DEFINE n == Len(requests) + 1
<1>1. /\ AgentTypeOK /\ m_tag <= Len(requests) + 1 /\ TagsMean /\ KeptOnce /\ RepliesOnce
      /\ AnswersOwnRequest
  BY DEF AgentInv
<1>2. /\ Len(requests) < MaxRequests /\ requests' = Append(requests, kind)
      /\ UNCHANGED <<m_tag, delayed, prompts, shown, answers, available, given>>
  BY DEF RejectRequest, NewRequest
<1>3. /\ requests \in Seq(Kinds) /\ m_tag \in Tags /\ replies \in [RequestIds -> Seq(Replies)]
      /\ delayed \subseteq [tag : 1..m_tag - 1, request : 1..Len(requests)]
  BY <1>1 DEF AgentTypeOK
<1>4. requests' \in Seq(Kinds) /\ Len(requests') = n /\ Len(requests) \in Nat
  BY <1>2, <1>3, Appended
<1>5. n \in RequestIds /\ n \notin 1..Len(requests) /\ m_tag \in Nat
  BY <1>2, <1>3, <1>4, AgentAssumption DEF RequestIds, Tags
<1>6. replies' = [replies EXCEPT ![n] = @ \o <<"Rejected", Returned(kind)>>]
  BY <1>4 DEF RejectRequest
<1>7. /\ replies'[n] = replies[n] \o <<"Rejected", Returned(kind)>> /\ replies[n] = <<>>
      /\ \A r \in RequestIds : r # n => replies'[r] = replies[r]
  BY <1>1, <1>3, <1>4, <1>5, <1>6 DEF RepliesOnce
<1>8. replies'[n] = <<"Rejected", Returned(kind)>> /\ replies'[n] \in Seq(Replies)
  BY <1>7, TwoReplies
<1>9. ASSUME NEW r, r = n PROVE Len(replies'[r]) = 2 /\ Rejected(r)'
  <2>1. replies'[r] = <<"Rejected", Returned(kind)>>
    BY <1>8, <1>9
  <2>2. Len(replies'[r]) = 2 /\ replies'[r] # <<>> /\ Head(replies'[r]) = "Rejected"
    BY <2>1, RepliesSeen, Zenon
  <2> QED
    BY <2>2 DEF Rejected
<1>10. replies' \in [RequestIds -> Seq(Replies)]
  BY <1>3, <1>5, <1>6, <1>7, <1>8
<1>11. AgentTypeOK'
  <2>1. delayed \subseteq [tag : 1..m_tag - 1, request : 1..Len(requests')]
    BY <1>3, <1>4
  <2>2. Len(requests') <= MaxRequests
    BY <1>2, <1>4, AgentAssumption
  <2> QED
    BY <1>1, <1>2, <1>4, <1>10, <2>1, <2>2 DEF AgentTypeOK
<1>12. RepliesOnce'
  <2>1. ASSUME NEW r \in 1..Len(requests)
        PROVE  Unanswered(r)' \/ Answered(r)' \/ TurnedDown(r)'
    <3>1. r # n /\ r \in RequestIds
      BY <1>2, <1>4, AgentAssumption DEF RequestIds
    <3>2. replies'[r] = replies[r] /\ delayed' = delayed
      BY <1>2, <1>7, <3>1
    <3>3. Unanswered(r) \/ Answered(r) \/ TurnedDown(r)
      BY <1>1 DEF RepliesOnce
    <3> QED
      BY <3>2, <3>3, Zenon DEF Unanswered, Answered, TurnedDown, Rejected
  <2>2. ASSUME NEW r, r = n PROVE TurnedDown(r)'
    <3>1. Len(replies'[r]) = 2 /\ Rejected(r)'
      BY <1>9, <2>2
    <3>2. \A d \in delayed : d.request # r
      BY <1>3, <1>4, <2>2
    <3> QED
      BY <1>2, <3>1, <3>2 DEF TurnedDown
  <2>3. \A r \in 1..Len(requests') : r \in 1..Len(requests) \/ r = n
    BY <1>4
  <2>4. ASSUME NEW r \in RequestIds, r > Len(requests') PROVE replies'[r] = <<>>
    <3>1. r # n /\ r > Len(requests)
      BY <1>4, <2>4 DEF RequestIds
    <3> QED
      BY <1>1, <1>7, <3>1 DEF RepliesOnce
  <2> QED
    BY <1>2, <2>1, <2>2, <2>3, <2>4 DEF RepliesOnce
<1>13. m_tag' <= Len(requests') + 1
  BY <1>1, <1>2, <1>4, <1>5
<1>14. TagsMean' /\ KeptOnce' /\ AnswersOwnRequest'
  BY <1>1, <1>2 DEF TagsMean, Means, KeptOnce, AnswersOwnRequest
<1> QED
  BY <1>11, <1>12, <1>13, <1>14 DEF AgentInv

-----------------------------------------------------------------------------
(* The page, and the technology. *)

\* What leaves the requests and the kept replies alone.
LEMMA OutsideKeeps ==
    ASSUME AgentInv, UNCHANGED <<requests, replies, m_tag, delayed, given>>, AgentTypeOK', TagsMean'
    PROVE  AgentInv'
BY DEF AgentInv, KeptOnce, RepliesOnce, Unanswered, Answered, TurnedDown, Rejected, AnswersOwnRequest

LEMMA PromptKeeps == ASSUME AgentInv, Prompt PROVE AgentInv'
<1>1. AgentTypeOK /\ TagsMean
  BY DEF AgentInv
<1>2. /\ prompts # <<>> /\ prompts' = Tail(prompts) /\ shown' \in {shown, shown \cup {Head(prompts)}}
      /\ UNCHANGED <<requests, replies, m_tag, delayed, answers, available, given>>
  BY DEF Prompt
<1>3. prompts \in Seq(Prompts) /\ Len(prompts) <= MaxPosted /\ MaxPosted \in Nat
  BY <1>1, AgentAssumption DEF AgentTypeOK
<1>4. /\ prompts' \in Seq(Prompts) /\ Head(prompts) \in Prompts /\ Head(prompts) = prompts[1]
      /\ 1 \in 1..Len(prompts) /\ Len(prompts') = Len(prompts) - 1 /\ Len(prompts) \in Nat
      /\ \A i \in 1..Len(prompts') : prompts'[i] = prompts[i + 1] /\ i + 1 \in 1..Len(prompts)
  BY <1>2, <1>3, Taken
<1>5. AgentTypeOK'
  BY <1>1, <1>2, <1>3, <1>4 DEF AgentTypeOK
<1>6. TagsMean'
  BY <1>1, <1>2, <1>4 DEF TagsMean, Means
<1> QED
  BY <1>2, <1>5, <1>6, OutsideKeeps

LEMMA AnswerPromptKeeps == ASSUME AgentInv, AnswerPrompt PROVE AgentInv'
<1>1. AgentTypeOK /\ TagsMean
  BY DEF AgentInv
<1>2. Len(answers) < MaxPosted /\ UNCHANGED <<requests, replies, m_tag, delayed, prompts, available, given>>
  BY DEF AnswerPrompt
<1>3. PICK p \in shown, agrees \in BOOLEAN :
        /\ answers' = Append(answers, [tag |-> p.tag, for |-> p.for, agrees |-> agrees])
        /\ shown' \in {shown, shown \ {p}}
  BY DEF AnswerPrompt
<1> DEFINE a == [tag |-> p.tag, for |-> p.for, agrees |-> agrees]
<1>4. p \in Prompts
  BY <1>1 DEF AgentTypeOK
<1>5. a \in Answers /\ a.tag = p.tag /\ a.for = p.for /\ answers' = Append(answers, a)
  BY <1>3, <1>4 DEF Prompts, Answers
<1>6. answers \in Seq(Answers) /\ MaxPosted \in Nat
  BY <1>1, AgentAssumption DEF AgentTypeOK
<1> HIDE DEF a
<1>7. /\ answers' \in Seq(Answers) /\ Len(answers') = Len(answers) + 1 /\ Len(answers) \in Nat
      /\ \A i \in 1..Len(answers') : (i \in 1..Len(answers) /\ answers'[i] = answers[i]) \/ answers'[i] = a
  BY <1>5, <1>6, Appended
<1>8. AgentTypeOK'
  <2>1. Len(answers') <= MaxPosted
    BY <1>2, <1>6, <1>7
  <2> QED
    BY <1>1, <1>2, <1>3, <1>7, <2>1 DEF AgentTypeOK
<1>9. TagsMean'
  BY <1>1, <1>2, <1>3, <1>5, <1>7 DEF TagsMean, Means
<1> QED
  BY <1>2, <1>8, <1>9, OutsideKeeps

LEMMA ReloadPageKeeps == ASSUME AgentInv, ReloadPage PROVE AgentInv'
<1>1. AgentTypeOK /\ TagsMean
  BY DEF AgentInv
<1>2. /\ shown' = {} /\ prompts' \in {prompts, <<>>}
      /\ UNCHANGED <<requests, replies, m_tag, delayed, answers, available, given>>
  BY DEF ReloadPage
<1>3. CASE prompts' = prompts
  <2>1. AgentTypeOK' /\ TagsMean'
    BY <1>1, <1>2, <1>3 DEF AgentTypeOK, TagsMean, Means
  <2> QED
    BY <1>2, <2>1, OutsideKeeps
<1>4. CASE prompts' = <<>>
  <2>1. prompts' \in Seq(Prompts) /\ Len(prompts') = 0
    BY <1>4
  <2>2. AgentTypeOK' /\ TagsMean'
    BY <1>1, <1>2, <2>1, AgentAssumption DEF AgentTypeOK, TagsMean, Means
  <2> QED
    BY <1>2, <2>2, OutsideKeeps
<1> QED
  BY <1>2, <1>3, <1>4

LEMMA TechnologyKeeps == ASSUME AgentInv, TechnologyChanges \/ UNCHANGED agentVars PROVE AgentInv'
<1>1. AgentTypeOK /\ TagsMean
  BY DEF AgentInv
<1>2. /\ available' \in BOOLEAN
      /\ UNCHANGED <<requests, replies, m_tag, delayed, prompts, shown, answers, given>>
  BY <1>1 DEF TechnologyChanges, agentVars, AgentTypeOK
<1>3. AgentTypeOK' /\ TagsMean'
  BY <1>1, <1>2 DEF AgentTypeOK, TagsMean, Means
<1> QED
  BY <1>2, <1>3, OutsideKeeps

-----------------------------------------------------------------------------
(* Answers. *)

\* The reply kept under the tag is the only one for its request.
LEMMA HandleAnswerKeeps == ASSUME AgentInv, HandleAnswer PROVE AgentInv'
<1> DEFINE a == Head(answers)
<1>1. /\ AgentTypeOK /\ m_tag <= Len(requests) + 1 /\ TagsMean /\ KeptOnce /\ RepliesOnce
      /\ AnswersOwnRequest
  BY DEF AgentInv
<1>2. /\ answers # <<>> /\ answers' = Tail(answers)
      /\ UNCHANGED <<requests, m_tag, prompts, shown, available>>
  BY DEF HandleAnswer
<1>3. /\ answers \in Seq(Answers) /\ Len(answers) <= MaxPosted /\ MaxPosted \in Nat
      /\ replies \in [RequestIds -> Seq(Replies)] /\ requests \in Seq(Kinds)
      /\ delayed \subseteq [tag : 1..m_tag - 1, request : 1..Len(requests)]
  BY <1>1, AgentAssumption DEF AgentTypeOK
<1>4. /\ answers' \in Seq(Answers) /\ a \in Answers /\ a = answers[1]
      /\ 1 \in 1..Len(answers) /\ Len(answers') = Len(answers) - 1 /\ Len(answers) \in Nat
      /\ \A i \in 1..Len(answers') : answers'[i] = answers[i + 1] /\ i + 1 \in 1..Len(answers)
  BY <1>2, <1>3, Taken
<1>5. CASE UNCHANGED <<replies, delayed, given>>
  <2>1. AgentTypeOK'
    BY <1>1, <1>2, <1>3, <1>4, <1>5 DEF AgentTypeOK
  <2>2. TagsMean'
    BY <1>1, <1>2, <1>4, <1>5 DEF TagsMean, Means
  <2> QED
    BY <1>2, <1>5, <2>1, <2>2, OutsideKeeps
<1>6. ASSUME NEW d \in delayed, d.tag = a.tag,
             replies' = [replies EXCEPT ![d.request] = Append(@, ReplyTo(requests[d.request], a.agrees))],
             delayed' = {e \in delayed : e.tag # a.tag},
             given' = given \cup {[prompted |-> a.for, reached |-> d.request]}
      PROVE  AgentInv'
  <2> DEFINE q == d.request
  <2>1. q \in 1..Len(requests) /\ Len(requests) \in Nat /\ Len(requests) <= MaxRequests
    BY <1>1, <1>3, <1>6 DEF AgentTypeOK
  <2>2. q \in RequestIds /\ MaxRequests \in Nat
    BY <2>1, AgentAssumption DEF RequestIds
  <2>3. ReplyTo(requests[q], a.agrees) \in Replies \ {"Rejected"}
    BY DEF ReplyTo, Replies
  <2>4. replies[q] = <<>>
    BY <1>1, <1>6, <2>1 DEF RepliesOnce, Unanswered, Answered, TurnedDown
  <2>5. /\ replies'[q] = Append(replies[q], ReplyTo(requests[q], a.agrees))
        /\ \A r \in RequestIds : r # q => replies'[r] = replies[r]
    BY <1>3, <1>6, <2>2
  <2>6. replies'[q] \in Seq(Replies) /\ Len(replies'[q]) = 1 /\ ~Rejected(q)'
    <3>1. replies'[q] = <<ReplyTo(requests[q], a.agrees)>>
      BY <2>4, <2>5
    <3> QED
      BY <2>3, <3>1 DEF Rejected
  <2>7. replies' \in [RequestIds -> Seq(Replies)]
    BY <1>3, <1>6, <2>2, <2>5, <2>6
  <2>8. \A e \in delayed' : e \in delayed /\ e.request # q
    BY <1>1, <1>6 DEF KeptOnce
  <2>9. \A e \in delayed : e.request # q => e \in delayed'
    BY <1>1, <1>6 DEF KeptOnce
  <2>10. a.for = q
    BY <1>1, <1>4, <1>6 DEF TagsMean, Means
  <2>11. AgentTypeOK'
    <3>1. given' \subseteq [prompted : RequestIds, reached : RequestIds]
      BY <1>1, <1>6, <2>2, <2>10 DEF AgentTypeOK
    <3>2. delayed' \subseteq [tag : 1..m_tag - 1, request : 1..Len(requests)]
      BY <1>3, <1>6
    <3> QED
      BY <1>1, <1>2, <1>3, <1>4, <2>7, <3>1, <3>2 DEF AgentTypeOK
  <2>12. TagsMean'
    BY <1>1, <1>2, <1>4, <2>8 DEF TagsMean, Means
  <2>13. KeptOnce'
    BY <1>1, <2>8 DEF KeptOnce
  <2>14. RepliesOnce'
    <3>1. ASSUME NEW r \in 1..Len(requests)
          PROVE  Unanswered(r)' \/ Answered(r)' \/ TurnedDown(r)'
      <4>1. CASE r = q
        BY <2>6, <2>8, <4>1 DEF Answered
      <4>2. CASE r # q
        <5>1. r \in RequestIds
          BY <2>1, <2>2 DEF RequestIds
        <5>2. replies'[r] = replies[r]
          BY <2>5, <4>2, <5>1
        <5>3. Unanswered(r) \/ Answered(r) \/ TurnedDown(r)
          BY <1>1 DEF RepliesOnce
        <5>4. (\E e \in delayed' : e.request = r) <=> (\E e \in delayed : e.request = r)
          BY <2>8, <2>9, <4>2
        <5> QED
          BY <5>2, <5>3, <5>4, Zenon DEF Unanswered, Answered, TurnedDown, Rejected
      <4> QED
        BY <4>1, <4>2
    <3>2. ASSUME NEW r \in RequestIds, r > Len(requests) PROVE replies'[r] = <<>>
      <4>1. r # q
        BY <2>1, <3>2 DEF RequestIds
      <4> QED
        BY <1>1, <2>5, <3>2, <4>1 DEF RepliesOnce
    <3> QED
      BY <1>2, <3>1, <3>2 DEF RepliesOnce
  <2>15. AnswersOwnRequest'
    BY <1>1, <1>6, <2>10 DEF AnswersOwnRequest
  <2> QED
    BY <1>1, <1>2, <2>11, <2>12, <2>13, <2>14, <2>15 DEF AgentInv
<1> QED
  <2>1. \/ UNCHANGED <<replies, delayed, given>>
        \/ \E d \in {e \in delayed : e.tag = a.tag} :
             /\ replies' = [replies EXCEPT ![d.request] = Append(@, ReplyTo(requests[d.request], a.agrees))]
             /\ delayed' = {e \in delayed : e.tag # a.tag}
             /\ given' = given \cup {[prompted |-> a.for, reached |-> d.request]}
    BY DEF HandleAnswer, Forget
  <2> HIDE DEF a
  <2> QED
    BY <1>5, <1>6, <2>1

LEMMA AgentInvHolds == AgentSpec => []AgentInv
<1>1. AgentInit => AgentInv
  BY InitAgent
<1>2. AgentInv /\ [AgentNext]_agentVars => AgentInv'
  <2> SUFFICES ASSUME AgentInv, [AgentNext]_agentVars PROVE AgentInv'
    OBVIOUS
  <2>1. ASSUME NEW kind \in Kinds, AcceptRequest(kind) PROVE AgentInv'
    BY <2>1, AcceptKeeps
  <2>2. ASSUME NEW kind \in Kinds, RejectRequest(kind) PROVE AgentInv'
    BY <2>2, RejectKeeps
  <2>3. CASE Prompt
    BY <2>3, PromptKeeps
  <2>4. CASE AnswerPrompt
    BY <2>4, AnswerPromptKeeps
  <2>5. CASE ReloadPage
    BY <2>5, ReloadPageKeeps
  <2>6. CASE HandleAnswer
    BY <2>6, HandleAnswerKeeps
  <2>7. CASE TechnologyChanges \/ UNCHANGED agentVars
    BY <2>7, TechnologyKeeps
  <2> QED
    BY <2>1, <2>2, <2>3, <2>4, <2>5, <2>6, <2>7 DEF AgentNext
<1> QED
  BY <1>1, <1>2, PTL DEF AgentSpec

-----------------------------------------------------------------------------
(* The requests as questions: every step of the agent is one of OneReply, or  *)
(* leaves what BlueZ waits for and was sent alone.                            *)

RequestsMapped == [Asked!OneReplyNext]_(Asked!replyVars)

LEMMA RequestsLeftAlone ==
    ASSUME UNCHANGED <<replies, delayed>>
    PROVE  RequestsMapped
BY DEF RequestsMapped, Asked!replyVars, RequestsWaiting, RepliesToTaken, Rejected

\* The next request is kept under no tag and was sent nothing.
LEMMA NextRequestIsNew ==
    ASSUME AgentInv, NEW kind \in Kinds, NewRequest(kind)
    PROVE  /\ Len(requests') = Len(requests) + 1 /\ Len(requests) + 1 \in RequestIds
           /\ Len(requests) + 1 \notin RequestsWaiting /\ replies[Len(requests) + 1] = <<>>
<1> DEFINE n == Len(requests) + 1
<1>1. AgentTypeOK /\ RepliesOnce
  BY DEF AgentInv
<1>2. /\ requests \in Seq(Kinds) /\ Len(requests) < MaxRequests /\ requests' = Append(requests, kind)
      /\ delayed \subseteq [tag : 1..m_tag - 1, request : 1..Len(requests)]
  BY <1>1 DEF AgentTypeOK, NewRequest
<1>3. Len(requests') = n /\ Len(requests) \in Nat
  BY <1>2, Appended
<1>4. n \in RequestIds /\ n > Len(requests)
  BY <1>2, <1>3, AgentAssumption DEF RequestIds
<1>5. \A d \in delayed : d.request # n
  BY <1>2, <1>3
<1>6. n \notin RequestsWaiting
  BY <1>5 DEF RequestsWaiting
<1>7. replies[n] = <<>>
  BY <1>1, <1>4 DEF RepliesOnce
<1> QED
  BY <1>3, <1>4, <1>6, <1>7

LEMMA AcceptMaps == ASSUME AgentInv, NEW kind \in Kinds, AcceptRequest(kind) PROVE RequestsMapped
<1>1. PICK n \in RequestIds : n = Len(requests')
  BY NextRequestIsNew DEF AcceptRequest
<1>2. n \notin RequestsWaiting /\ replies[n] = <<>> /\ UNCHANGED replies
  BY <1>1, NextRequestIsNew DEF AcceptRequest
<1>3. delayed' = {d \in delayed : d.tag # m_tag} \cup {[tag |-> m_tag, request |-> n]}
  BY <1>1 DEF AcceptRequest
<1>4. \A d \in delayed : d.tag # m_tag
  <2>1. /\ delayed \subseteq [tag : 1..m_tag - 1, request : 1..Len(requests)]
        /\ m_tag \in Nat
    BY AgentAssumption DEF AgentInv, AgentTypeOK, Tags
  <2> QED
    BY <2>1
<1>5. delayed' = delayed \cup {[tag |-> m_tag, request |-> n]}
  BY <1>3, <1>4
<1>6. RequestsWaiting' = RequestsWaiting \cup {n}
  <2>1. PICK new : new = [tag |-> m_tag, request |-> n]
    OBVIOUS
  <2>2. delayed' = delayed \cup {new} /\ new.request = n
    BY <1>5, <2>1
  <2>3. \A r : r \in RequestsWaiting' <=> r \in RequestsWaiting \/ r = n
    BY <2>2 DEF RequestsWaiting
  <2> QED
    BY <2>3
<1>7. RepliesToTaken[n] = 0 /\ RepliesToTaken' = RepliesToTaken
  BY <1>2 DEF RepliesToTaken, Rejected
<1>8. Asked!Keep(n)
  BY <1>2, <1>6, <1>7 DEF Asked!Keep, Asked!IsNew
<1> QED
  BY <1>8 DEF RequestsMapped, Asked!OneReplyNext

\* Nothing BlueZ waits for: what the two replies to it count for is nothing.
LEMMA RejectMaps == ASSUME AgentInv, NEW kind \in Kinds, RejectRequest(kind) PROVE RequestsMapped
<1>1. PICK n \in RequestIds : n = Len(requests')
  BY NextRequestIsNew DEF RejectRequest
<1>2. n \notin RequestsWaiting /\ replies[n] = <<>> /\ UNCHANGED delayed
  BY <1>1, NextRequestIsNew DEF RejectRequest
<1>3. replies' = [replies EXCEPT ![n] = @ \o <<"Rejected", Returned(kind)>>]
  BY <1>1 DEF RejectRequest
<1>4. replies \in [RequestIds -> Seq(Replies)]
  BY DEF AgentInv, AgentTypeOK
<1>5. /\ replies'[n] = <<"Rejected", Returned(kind)>>
      /\ \A r \in RequestIds : r # n => replies'[r] = replies[r]
  BY <1>2, <1>3, <1>4, TwoReplies
<1>6. Rejected(n)' /\ ~Rejected(n)
  BY <1>2, <1>5 DEF Rejected
<1>7. ASSUME NEW r \in RequestIds PROVE RepliesToTaken'[r] = RepliesToTaken[r]
  BY <1>2, <1>5, <1>6 DEF RepliesToTaken, Rejected
<1>8. RepliesToTaken' = RepliesToTaken /\ RequestsWaiting' = RequestsWaiting
  BY <1>2, <1>7 DEF RepliesToTaken, RequestsWaiting
<1> QED
  BY <1>8 DEF RequestsMapped, Asked!replyVars

\* The answer that finds a tag is the first to its request, which is then
\* kept no longer.
LEMMA AnswerMaps ==
    ASSUME AgentInv, NEW d \in delayed, NEW sent \in Replies \ {"Rejected"},
           replies' = [replies EXCEPT ![d.request] = Append(@, sent)],
           delayed' = {e \in delayed : e.tag # d.tag}
    PROVE  RequestsMapped
<1>1. PICK q : q = d.request
  OBVIOUS
<1>2. /\ AgentTypeOK /\ KeptOnce /\ RepliesOnce
      /\ replies \in [RequestIds -> Seq(Replies)]
      /\ delayed \subseteq [tag : 1..m_tag - 1, request : 1..Len(requests)]
      /\ Len(requests) \in Nat /\ Len(requests) <= MaxRequests
  BY DEF AgentInv, AgentTypeOK
<1>3. q \in 1..Len(requests) /\ q \in RequestIds
  BY <1>1, <1>2, AgentAssumption DEF RequestIds
<1>4. replies[q] = <<>>
  BY <1>1, <1>2, <1>3 DEF RepliesOnce, Unanswered, Answered, TurnedDown
<1>5. /\ replies'[q] = Append(replies[q], sent)
      /\ \A r \in RequestIds \ {q} : replies'[r] = replies[r]
  BY <1>1, <1>2, <1>3
<1>6. Len(replies'[q]) = 1 /\ ~Rejected(q)'
  <2>1. replies'[q] = <<sent>> /\ sent # "Rejected"
    BY <1>4, <1>5
  <2>2. Len(replies'[q]) = 1 /\ Head(replies'[q]) # "Rejected"
    BY <2>1, RepliesSeen, Zenon
  <2> QED
    BY <2>2 DEF Rejected
<1>7. RequestsWaiting' = RequestsWaiting \ {q} /\ q \in RequestsWaiting
  <2>1. \A e \in delayed : e.tag # d.tag <=> e.request # q
    BY <1>1, <1>2 DEF KeptOnce
  <2> QED
    BY <1>1, <2>1 DEF RequestsWaiting
<1>8. RepliesToTaken' = [r \in RequestIds |-> IF r \in {q} THEN 1 ELSE RepliesToTaken[r]]
  BY <1>5, <1>6 DEF RepliesToTaken, Rejected
<1>9. Asked!AnswerAll({q})
  BY <1>7, <1>8 DEF Asked!AnswerAll
<1> QED
  BY <1>3, <1>9 DEF RequestsMapped, Asked!OneReplyNext

LEMMA RequestsMap == ASSUME AgentInv, [AgentNext]_agentVars PROVE RequestsMapped
<1>1. ASSUME NEW kind \in Kinds, AcceptRequest(kind) \/ RejectRequest(kind) PROVE RequestsMapped
  BY <1>1, AcceptMaps, RejectMaps
<1>2. CASE HandleAnswer
  <2> DEFINE a == Head(answers)
  <2>1. \/ UNCHANGED <<replies, delayed>>
        \/ \E d \in {e \in delayed : e.tag = a.tag} :
             /\ replies' = [replies EXCEPT ![d.request] = Append(@, ReplyTo(requests[d.request], a.agrees))]
             /\ delayed' = {e \in delayed : e.tag # a.tag}
    BY <1>2 DEF HandleAnswer, Forget
  <2>2. \A kind, agrees : ReplyTo(kind, agrees) \in Replies \ {"Rejected"}
    BY DEF ReplyTo, Replies
  <2> HIDE DEF a
  <2>3. ASSUME NEW d \in {e \in delayed : e.tag = a.tag},
               replies' = [replies EXCEPT ![d.request] = Append(@, ReplyTo(requests[d.request], a.agrees))],
               delayed' = {e \in delayed : e.tag # a.tag}
        PROVE  RequestsMapped
    BY <2>2, <2>3, AnswerMaps
  <2> QED
    BY <2>1, <2>3, RequestsLeftAlone
<1>3. CASE Prompt \/ AnswerPrompt \/ ReloadPage \/ TechnologyChanges \/ UNCHANGED agentVars
  <2>1. UNCHANGED <<replies, delayed>>
    BY <1>3 DEF Prompt, AnswerPrompt, ReloadPage, TechnologyChanges, agentVars
  <2> QED
    BY <2>1, RequestsLeftAlone
<1> QED
  BY <1>1, <1>2, <1>3 DEF AgentNext

-----------------------------------------------------------------------------
(* Theorems. *)

\* Types: in particular no tag is kept that was not given yet.
THEOREM AgentTypeCorrect == AgentSpec => []AgentTypeOK
<1>1. AgentInv => AgentTypeOK
  BY DEF AgentInv
<1> QED
  BY <1>1, AgentInvHolds, PTL

\* An answer of the page reaches the request its prompt was shown for.
THEOREM AnswerReachesRequest == AgentSpec => []AnswersOwnRequest
<1>1. AgentInv => AnswersOwnRequest
  BY DEF AgentInv
<1> QED
  BY <1>1, AgentInvHolds, PTL

\* A request is kept once until it is answered, and answered once; one that is
\* rejected is never kept, and gets the two replies of its rejection.
THEOREM RequestAnsweredOnce == AgentSpec => []EachRequestOnce
<1>1. AgentInv => EachRequestOnce
  <2> SUFFICES ASSUME AgentInv, NEW r \in 1..Len(requests)
               PROVE  IF Rejected(r)
                      THEN {d \in delayed : d.request = r} = {} /\ Len(replies[r]) = 2
                      ELSE Len(replies[r]) + Cardinality({d \in delayed : d.request = r}) = 1
    BY DEF EachRequestOnce
  <2>1. KeptOnce /\ (Unanswered(r) \/ Answered(r) \/ TurnedDown(r))
    BY DEF AgentInv, RepliesOnce
  <2>2. CASE Answered(r)
    <3>1. {d \in delayed : d.request = r} = {} /\ Len(replies[r]) = 1 /\ ~Rejected(r)
      BY <2>2 DEF Answered
    <3>2. Cardinality({d \in delayed : d.request = r}) = 0
      BY <3>1, FS_EmptySet
    <3> QED
      BY <3>1, <3>2
  <2>3. CASE Unanswered(r)
    <3>1. PICK d \in delayed : d.request = r
      BY <2>3 DEF Unanswered
    <3>2. {e \in delayed : e.request = r} = {d}
      BY <2>1, <3>1 DEF KeptOnce
    <3>3. Cardinality({e \in delayed : e.request = r}) = 1
      BY <3>2, FS_Singleton
    <3>4. Len(replies[r]) = 0 /\ ~Rejected(r)
      BY <2>3 DEF Unanswered, Rejected
    <3> QED
      BY <3>3, <3>4
  <2>4. CASE TurnedDown(r)
    BY <2>4 DEF TurnedDown
  <2> QED
    BY <2>1, <2>2, <2>3, <2>4
<1> QED
  BY <1>1, AgentInvHolds, PTL

\* Of the requests it takes BlueZ is sent a reply to each it has made, and only
\* one: for these the agent is a OneReply.
THEOREM RequestsRefineOneReply == AgentSpec => RequestsPromise
<1>1. AgentInit => Asked!OneReplyInit
  <2> SUFFICES ASSUME AgentInit PROVE Asked!OneReplyInit
    OBVIOUS
  <2>1. RequestsWaiting = {}
    BY DEF AgentInit, RequestsWaiting
  <2>2. \A r \in RequestIds : replies[r] = <<>>
    BY DEF AgentInit
  <2>3. ASSUME NEW r \in RequestIds PROVE RepliesToTaken[r] = 0
    BY <2>2 DEF RepliesToTaken, Rejected
  <2>4. RepliesToTaken = [r \in RequestIds |-> 0]
    BY <2>3 DEF RepliesToTaken
  <2> QED
    BY <2>1, <2>4 DEF Asked!OneReplyInit
<1>2. AgentInv /\ [AgentNext]_agentVars => [Asked!OneReplyNext]_(Asked!replyVars)
  BY RequestsMap DEF RequestsMapped
<1> QED
  BY <1>1, <1>2, AgentInvHolds, PTL DEF AgentSpec, RequestsPromise, Asked!OneReplySpec
=============================================================================
