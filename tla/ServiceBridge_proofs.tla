------------------------ MODULE ServiceBridge_proofs ------------------------
(***************************************************************************)
(* Proofs about ServiceBridge for any bridges, loads and calls.  That an   *)
(* answer strays only after a reload or a refused call rests on an order:  *)
(* calls are handled in the order of the pages that made them, so that the *)
(* number a bridge has is never older than the call it answers for.        *)
(***************************************************************************)
EXTENDS ServiceBridge, SequenceTheorems, TLAPS

Msgs == [op : {"LS2Call", "LS2Cancel"}, bridge : Bridges, call : Calls \cup {NoCall}]
Emits == [to : Calls, asker : Calls]

\* The calls under way are those of this page or an earlier one, in order.
UpInOrder ==
    /\ \A i \in 1..Len(up) : up[i].op = "LS2Call" => up[i].call \in Calls /\ up[i].call.page <= page
    /\ \A i, j \in 1..Len(up) :
         i < j /\ up[i].op = "LS2Call" /\ up[j].op = "LS2Call" => up[i].call.page <= up[j].call.page

\* The number of a bridge is not newer than the page and the calls under way.
OwnersInOrder ==
    \A b \in Bridges :
      /\ bridges[b].owner.page <= page
      /\ \A i \in 1..Len(up) : up[i].op = "LS2Call" => bridges[b].owner.page <= up[i].call.page

\* An answer is addressed to its call, or to a later one that was refused.
Addressed(to, asker) == asker.page <= to.page /\ (to = asker \/ to \in failed)

LiveOwned ==
    \A l \in live : bridges[l.bridge].owner \in Calls /\ Addressed(bridges[l.bridge].owner, l.asker)

DownOwned ==
    \A i \in 1..Len(down) : Addressed(down[i].to, down[i].asker) /\ down[i].to.page <= page

BridgeInv ==
    /\ TypeOK
    /\ UpInOrder
    /\ OwnersInOrder
    /\ LiveOwned
    /\ DownOwned
    /\ SupersededIsSilent
    /\ AnswersStayApart

-----------------------------------------------------------------------------

LEMMA CallTyped ==
    ASSUME NEW c \in Calls PROVE c.page \in 1..MaxPages /\ c.id \in 1..MaxCalls
BY DEF Calls

LEMMA InitBridge == ASSUME Init PROVE BridgeInv
<1>1. page = 1 /\ callId = 0 /\ up = <<>> /\ live = {} /\ down = <<>> /\ failed = {} /\ delivered = {}
  BY DEF Init
<1>2. bridges = [b \in Bridges |-> [owner |-> NoCall, current |-> NoCall]] /\ alive = TRUE
  BY DEF Init
<1>3. Len(up) = 0 /\ Len(down) = 0
  BY <1>1
<1>4. TypeOK
  <2>1. page \in 1..MaxPages /\ callId \in 0..MaxCalls
    BY <1>1, BoundsAssumption
  <2>2. up \in Seq(Msgs) /\ down \in Seq(Emits)
    BY <1>1
  <2> QED
    BY <1>1, <1>2, <2>1, <2>2 DEF TypeOK, Msgs, Emits
<1>5. OwnersInOrder
  <2>1. \A b \in Bridges : bridges[b].owner.page = 0
    BY <1>2 DEF NoCall
  <2>2. 1..Len(up) = {}
    BY <1>3
  <2>3. 0 <= page
    BY <1>1
  <2>4. ASSUME NEW b \in Bridges PROVE bridges[b].owner.page <= page
    BY <2>1, <2>3
  <2> QED
    BY <2>2, <2>4 DEF OwnersInOrder
<1> QED
  BY <1>1, <1>3, <1>4, <1>5
  DEF BridgeInv, UpInOrder, LiveOwned, DownOwned, SupersededIsSilent, AnswersStayApart

-----------------------------------------------------------------------------
(* The page. *)

\* A message is added at the end of up.
LEMMA InvokeFacts ==
    ASSUME TypeOK, NEW op \in {"LS2Call", "LS2Cancel"}, NEW b \in Bridges,
           NEW call \in Calls \cup {NoCall}, Invoke(op, b, call)
    PROVE  /\ up' \in Seq(Msgs)
           /\ Len(up') = Len(up) + 1 /\ Len(up) \in Nat
           /\ \A i \in 1..Len(up) : up'[i] = up[i]
           /\ up'[Len(up) + 1] = [op |-> op, bridge |-> b, call |-> call]
<1> DEFINE m == [op |-> op, bridge |-> b, call |-> call]
<1>1. up \in Seq(Msgs) /\ m \in Msgs /\ up' = Append(up, m)
  BY DEF TypeOK, Msgs, Invoke
<1> HIDE DEF m, Msgs
<1> QED
  <2>1. Append(up, m) \in Seq(Msgs) /\ Len(Append(up, m)) = Len(up) + 1 /\ Len(up) \in Nat
        /\ (\A i \in 1..Len(up) : Append(up, m)[i] = up[i]) /\ Append(up, m)[Len(up) + 1] = m
    BY <1>1
  <2> QED
    BY <1>1, <2>1 DEF m, Msgs

\* Nothing but callId and the end of up changes: no order is disturbed.
LEMMA InvokeKeeps ==
    ASSUME BridgeInv, NEW op \in {"LS2Call", "LS2Cancel"}, NEW b \in Bridges,
           NEW call \in Calls \cup {NoCall}, Invoke(op, b, call),
           op = "LS2Call" => call \in Calls /\ call.page = page,
           callId' \in 0..MaxCalls,
           UNCHANGED <<page, bridges, live, down, alive, failed, delivered>>
    PROVE  BridgeInv'
<1>1. TypeOK /\ UpInOrder /\ OwnersInOrder
  BY DEF BridgeInv
<1>2. /\ up' \in Seq(Msgs)
      /\ Len(up') = Len(up) + 1 /\ Len(up) \in Nat
      /\ \A i \in 1..Len(up) : up'[i] = up[i]
      /\ up'[Len(up) + 1] = [op |-> op, bridge |-> b, call |-> call]
  BY <1>1, InvokeFacts
<1>3. \A i \in 1..Len(up') : i \in 1..Len(up) \/ i = Len(up) + 1
  BY <1>2
<1>4. TypeOK'
  BY <1>1, <1>2 DEF TypeOK, Msgs
<1>5. page \in Int
  BY <1>1 DEF TypeOK
<1>6. UpInOrder'
  <2>1. \A i \in 1..Len(up') : up'[i].op = "LS2Call" => up'[i].call \in Calls /\ up'[i].call.page <= page
    BY <1>1, <1>2, <1>3, <1>5 DEF UpInOrder
  <2>2. ASSUME NEW i \in 1..Len(up'), NEW j \in 1..Len(up'), i < j,
               up'[i].op = "LS2Call", up'[j].op = "LS2Call"
        PROVE  up'[i].call.page <= up'[j].call.page
    <3>1. i \in 1..Len(up)
      BY <1>2, <2>2
    <3>2. CASE j \in 1..Len(up)
      BY <1>1, <1>2, <2>2, <3>1, <3>2 DEF UpInOrder
    <3>3. CASE j = Len(up) + 1
      BY <1>1, <1>2, <2>2, <3>1, <3>3 DEF UpInOrder
    <3> QED
      BY <1>3, <3>2, <3>3
  <2> QED
    BY <2>1, <2>2 DEF UpInOrder
<1>7. OwnersInOrder'
  <2> SUFFICES ASSUME NEW c \in Bridges
               PROVE  /\ bridges[c].owner.page <= page
                      /\ \A i \in 1..Len(up') :
                           up'[i].op = "LS2Call" => bridges[c].owner.page <= up'[i].call.page
    BY DEF OwnersInOrder
  <2>1. bridges[c].owner.page <= page
    BY <1>1 DEF OwnersInOrder
  <2>2. ASSUME NEW i \in 1..Len(up'), up'[i].op = "LS2Call"
        PROVE  bridges[c].owner.page <= up'[i].call.page
    <3>1. CASE i \in 1..Len(up)
      BY <1>1, <1>2, <2>2, <3>1 DEF OwnersInOrder
    <3>2. CASE i = Len(up) + 1
      BY <1>2, <2>1, <2>2, <3>2
    <3> QED
      BY <1>3, <3>1, <3>2
  <2> QED
    BY <2>1, <2>2
<1>8. LiveOwned' /\ DownOwned' /\ SupersededIsSilent' /\ AnswersStayApart'
  BY DEF BridgeInv, LiveOwned, DownOwned, SupersededIsSilent, AnswersStayApart, Addressed
<1> QED
  BY <1>4, <1>6, <1>7, <1>8 DEF BridgeInv

LEMMA CallKeeps == ASSUME BridgeInv, NEW b \in Bridges, Call(b) PROVE BridgeInv'
<1> DEFINE c == [page |-> page, id |-> callId + 1]
<1>1. page \in 1..MaxPages /\ callId \in 0..MaxCalls /\ callId < MaxCalls /\ callId' = callId + 1
  BY DEF BridgeInv, TypeOK, Call
<1>2. c \in Calls /\ callId' \in 0..MaxCalls
  BY <1>1, BoundsAssumption DEF Calls
<1>3. Invoke("LS2Call", b, c) /\ UNCHANGED <<page, bridges, live, down, alive, failed, delivered>>
  BY DEF Call, NextCallId
<1>4. c.page = page
  OBVIOUS
<1> HIDE DEF c
<1> QED
  BY <1>2, <1>3, <1>4, InvokeKeeps

LEMMA CancelKeeps == ASSUME BridgeInv, NEW b \in Bridges, Cancel(b) PROVE BridgeInv'
<1>1. callId' \in 0..MaxCalls
  BY DEF BridgeInv, TypeOK, Cancel
<1>2. Invoke("LS2Cancel", b, NoCall) /\ UNCHANGED <<page, bridges, live, down, alive, failed, delivered>>
  BY DEF Cancel
<1> QED
  BY <1>1, <1>2, InvokeKeeps

\* Taking the first message of a queue shifts the others.
LEMMA Shift ==
    ASSUME NEW S, NEW q \in Seq(S), q # <<>>
    PROVE  /\ Tail(q) \in Seq(S) /\ Head(q) \in S /\ Head(q) = q[1] /\ 1 \in 1..Len(q)
           /\ Len(Tail(q)) = Len(q) - 1 /\ Len(q) \in Nat
           /\ \A i \in 1..Len(Tail(q)) : Tail(q)[i] = q[i + 1] /\ i + 1 \in 1..Len(q)
BY HeadTailProperties, EmptySeq, LenProperties

LEMMA DeliverKeeps == ASSUME BridgeInv, Deliver PROVE BridgeInv'
<1> DEFINE m == Head(down)
<1> DEFINE to == [page |-> page, id |-> m.to.id]
<1>1. /\ TypeOK /\ UpInOrder /\ OwnersInOrder /\ LiveOwned /\ DownOwned
      /\ SupersededIsSilent /\ AnswersStayApart
  BY DEF BridgeInv
<1>2. down # <<>> /\ down' = Tail(down) /\ UNCHANGED <<page, callId, up, bridges, live, alive, failed>>
  BY DEF Deliver
<1>3. delivered' = delivered \/ (m.to.id <= callId /\ delivered' = delivered \cup {[to |-> to, asker |-> m.asker]})
  BY DEF Deliver
<1>4. down \in Seq(Emits)
  BY <1>1 DEF TypeOK, Emits
<1>5. /\ Tail(down) \in Seq(Emits) /\ m \in Emits /\ m = down[1] /\ 1 \in 1..Len(down)
      /\ \A i \in 1..Len(Tail(down)) : Tail(down)[i] = down[i + 1] /\ i + 1 \in 1..Len(down)
  BY <1>2, <1>4, Shift
<1>6. m.to \in Calls /\ m.asker \in Calls /\ page \in 1..MaxPages
  BY <1>1, <1>5 DEF Emits, TypeOK
<1>7. to \in Calls
  BY <1>6 DEF Calls
<1>8. TypeOK'
  <2>1. delivered' \subseteq Emits
    BY <1>1, <1>3, <1>6, <1>7 DEF TypeOK, Emits
  <2>2. down' \in Seq(Emits)
    BY <1>2, <1>5
  <2> QED
    BY <1>1, <1>2, <2>1, <2>2 DEF TypeOK, Emits
<1>9. DownOwned'
  BY <1>1, <1>2, <1>5 DEF DownOwned, Addressed
<1>10. AnswersStayApart'
  <2>1. Addressed(m.to, m.asker) /\ m.to.page <= page
    BY <1>1, <1>5 DEF DownOwned
  <2>2. to # m.asker => to.page # m.asker.page \/ to \in failed
    <3>1. CASE m.to.page = page
      <4>1. to = m.to
        BY <1>6, <3>1 DEF Calls
      <4> QED
        BY <2>1, <4>1 DEF Addressed
    <3>2. CASE m.to.page < page
      <4>1. m.asker.page <= m.to.page /\ m.asker.page \in Int /\ m.to.page \in Int /\ page \in Int
        BY <1>6, <2>1, CallTyped DEF Addressed
      <4>2. m.asker.page # page
        BY <3>2, <4>1
      <4> QED
        BY <4>2
    <3>3. m.to.page \in Int /\ page \in Int
      BY <1>6, CallTyped
    <3> QED
      BY <2>1, <3>1, <3>2, <3>3
  <2>3. \A d \in delivered' : d \in delivered \/ (d.to = to /\ d.asker = m.asker)
    BY <1>3
  <2>4. ASSUME NEW d \in delivered'
        PROVE  d.to # d.asker => d.to.page # d.asker.page \/ d.to \in failed
    BY <1>1, <2>2, <2>3 DEF AnswersStayApart
  <2> QED
    BY <1>2, <2>4 DEF AnswersStayApart
<1>11. UpInOrder' /\ OwnersInOrder' /\ LiveOwned' /\ SupersededIsSilent'
  BY <1>1, <1>2 DEF UpInOrder, OwnersInOrder, LiveOwned, SupersededIsSilent, Addressed
<1> QED
  BY <1>8, <1>9, <1>10, <1>11 DEF BridgeInv

\* The new page is newer than every call and every answer under way.
LEMMA ReloadKeeps == ASSUME BridgeInv, Reload PROVE BridgeInv'
<1>1. /\ TypeOK /\ UpInOrder /\ OwnersInOrder /\ LiveOwned /\ DownOwned
      /\ SupersededIsSilent /\ AnswersStayApart
  BY DEF BridgeInv
<1>2. /\ page < MaxPages /\ page' = page + 1 /\ callId' = 0 /\ down' \in {down, <<>>}
      /\ UNCHANGED <<up, bridges, live, alive, failed, delivered>>
  BY DEF Reload
<1>3. page \in Int /\ page' \in 1..MaxPages /\ page <= page'
  BY <1>1, <1>2, BoundsAssumption DEF TypeOK
<1>4. TypeOK'
  <2>1. down \in Seq(Emits) /\ <<>> \in Seq(Emits)
    BY <1>1 DEF TypeOK, Emits
  <2>2. down' \in Seq(Emits)
    BY <1>2, <2>1
  <2>3. callId' \in 0..MaxCalls
    BY <1>2, BoundsAssumption
  <2> QED
    BY <1>1, <1>2, <1>3, <2>2, <2>3 DEF TypeOK, Emits
<1>5. UpInOrder'
  <2>1. ASSUME NEW i \in 1..Len(up), up[i].op = "LS2Call"
        PROVE  up[i].call \in Calls /\ up[i].call.page <= page'
    <3>1. up[i].call \in Calls /\ up[i].call.page <= page
      BY <1>1, <2>1 DEF UpInOrder
    <3>2. up[i].call.page \in Int
      BY <3>1, CallTyped
    <3> QED
      BY <1>3, <3>1, <3>2
  <2> QED
    BY <1>1, <1>2, <2>1 DEF UpInOrder
<1>6. \A b \in Bridges : bridges[b].owner.page \in Int
  <2>1. \A b \in Bridges : bridges[b].owner \in Calls \cup {NoCall}
    BY <1>1 DEF TypeOK
  <2>2. NoCall.page \in Int
    BY DEF NoCall
  <2>3. \A c \in Calls : c.page \in Int
    BY CallTyped
  <2> QED
    BY <2>1, <2>2, <2>3
<1>7. OwnersInOrder'
  <2>1. \A b \in Bridges : bridges[b].owner.page <= page'
    BY <1>1, <1>3, <1>6 DEF OwnersInOrder
  <2> QED
    BY <1>1, <1>2, <2>1 DEF OwnersInOrder
<1>8. DownOwned'
  <2>1. CASE down' = down
    <3>1. ASSUME NEW i \in 1..Len(down)
          PROVE  Addressed(down[i].to, down[i].asker) /\ down[i].to.page <= page'
      <4>1. Addressed(down[i].to, down[i].asker) /\ down[i].to.page <= page
        BY <1>1, <3>1 DEF DownOwned
      <4>2. down \in Seq(Emits)
        BY <1>1 DEF TypeOK, Emits
      <4>3. down[i] \in Emits
        BY <3>1, <4>2
      <4>4. down[i].to.page \in Int
        BY <4>3, CallTyped DEF Emits
      <4> QED
        BY <1>3, <4>1, <4>4
    <3> QED
      BY <1>2, <2>1, <3>1 DEF DownOwned, Addressed
  <2>2. CASE down' = <<>>
    BY <2>2 DEF DownOwned
  <2> QED
    BY <1>2, <2>1, <2>2
<1>9. LiveOwned' /\ SupersededIsSilent' /\ AnswersStayApart'
  BY <1>1, <1>2 DEF LiveOwned, SupersededIsSilent, AnswersStayApart, Addressed
<1> QED
  BY <1>4, <1>5, <1>7, <1>8, <1>9 DEF BridgeInv

-----------------------------------------------------------------------------
(* The daemon. *)

\* Without its first message up is still in order.
LEMMA UpTaken ==
    ASSUME BridgeInv, up # <<>>, up' = Tail(up), page' = page
    PROVE  /\ up' \in Seq(Msgs) /\ UpInOrder'
           /\ \A i \in 1..Len(up') : up'[i] = up[i + 1] /\ i + 1 \in 1..Len(up) /\ i + 1 > 1
           /\ Head(up) \in Msgs /\ Head(up) = up[1] /\ 1 \in 1..Len(up)
<1>1. TypeOK /\ UpInOrder
  BY DEF BridgeInv
<1>2. up \in Seq(Msgs)
  BY <1>1 DEF TypeOK, Msgs
<1>3. /\ Tail(up) \in Seq(Msgs) /\ Head(up) \in Msgs /\ Head(up) = up[1] /\ 1 \in 1..Len(up)
      /\ \A i \in 1..Len(Tail(up)) : Tail(up)[i] = up[i + 1] /\ i + 1 \in 1..Len(up)
  BY <1>2, Shift
<1>4. \A i \in 1..Len(up') : up'[i] = up[i + 1] /\ i + 1 \in 1..Len(up)
  BY <1>3
<1>5. UpInOrder'
  <2>1. \A i \in 1..Len(up') : up'[i].op = "LS2Call" => up'[i].call \in Calls /\ up'[i].call.page <= page
    BY <1>1, <1>4 DEF UpInOrder
  <2>2. ASSUME NEW i \in 1..Len(up'), NEW j \in 1..Len(up'), i < j,
               up'[i].op = "LS2Call", up'[j].op = "LS2Call"
        PROVE  up'[i].call.page <= up'[j].call.page
    <3>1. i + 1 < j + 1
      BY <2>2
    <3>2. /\ i + 1 \in 1..Len(up) /\ j + 1 \in 1..Len(up)
          /\ up[i + 1].op = "LS2Call" /\ up[j + 1].op = "LS2Call"
      BY <1>4, <2>2
    <3>3. up[i + 1].call.page <= up[j + 1].call.page
      BY <1>1, <3>1, <3>2 DEF UpInOrder
    <3> QED
      BY <1>4, <3>3
  <2> QED
    BY <2>1, <2>2 DEF UpInOrder
<1> QED
  BY <1>3, <1>4, <1>5

LEMMA LS2CallKeeps == ASSUME BridgeInv, LS2Call PROVE BridgeInv'
<1> DEFINE b == Head(up).bridge
<1> DEFINE c == Head(up).call
<1>1. /\ TypeOK /\ UpInOrder /\ OwnersInOrder /\ LiveOwned /\ DownOwned
      /\ SupersededIsSilent /\ AnswersStayApart
  BY DEF BridgeInv
<1>2. /\ up # <<>> /\ Head(up).op = "LS2Call" /\ up' = Tail(up)
      /\ UNCHANGED <<page, callId, down, alive, delivered>>
  BY DEF LS2Call
<1>3. /\ up' \in Seq(Msgs) /\ UpInOrder'
      /\ \A i \in 1..Len(up') : up'[i] = up[i + 1] /\ i + 1 \in 1..Len(up) /\ i + 1 > 1
      /\ Head(up) \in Msgs /\ Head(up) = up[1] /\ 1 \in 1..Len(up)
  BY <1>2, UpTaken
<1>4. b \in Bridges /\ c \in Calls /\ c.page <= page /\ bridges[b].owner.page <= c.page
  BY <1>1, <1>2, <1>3 DEF UpInOrder, OwnersInOrder, Msgs
<1>5. ASSUME NEW i \in 1..Len(up'), up'[i].op = "LS2Call" PROVE c.page <= up'[i].call.page
  BY <1>1, <1>2, <1>3, <1>5 DEF UpInOrder
<1>6. \/ /\ bridges' = [[bridges EXCEPT ![b].owner = c] EXCEPT ![b].current = c]
         /\ live' = {l \in live : l.bridge # b} \cup {[bridge |-> b, asker |-> c]}
         /\ failed' = failed
      \/ /\ bridges' = [bridges EXCEPT ![b].owner = c]
         /\ live' = live
         /\ failed' = failed \cup {c}
  BY DEF LS2Call, TakesNumber, WithoutCallOf
<1> DEFINE B == [owner : Calls \cup {NoCall}, current : Calls \cup {NoCall}]
<1>7. bridges \in [Bridges -> B] /\ live \subseteq [bridge : Bridges, asker : Calls] /\ failed \subseteq Calls
  BY <1>1 DEF TypeOK
<1> HIDE DEF b, c
<1>8. /\ bridges' \in [Bridges -> B]
      /\ bridges'[b].owner = c
      /\ \A e \in Bridges : e # b => bridges'[e] = bridges[e]
  BY <1>4, <1>6, <1>7
<1>9. failed \subseteq failed' /\ failed' \subseteq Calls
  BY <1>4, <1>6, <1>7
<1>10. TypeOK'
  <2>1. live' \subseteq [bridge : Bridges, asker : Calls]
    BY <1>4, <1>6, <1>7
  <2> QED
    BY <1>1, <1>2, <1>3, <1>8, <1>9, <2>1 DEF TypeOK, Msgs
<1>11. OwnersInOrder'
  <2>1. ASSUME NEW e \in Bridges, e # b
        PROVE  /\ bridges'[e].owner.page <= page
               /\ \A i \in 1..Len(up') : up'[i].op = "LS2Call" => bridges'[e].owner.page <= up'[i].call.page
    BY <1>1, <1>3, <1>8, <2>1 DEF OwnersInOrder
  <2>2. /\ bridges'[b].owner.page <= page
        /\ \A i \in 1..Len(up') : up'[i].op = "LS2Call" => bridges'[b].owner.page <= up'[i].call.page
    BY <1>4, <1>5, <1>8
  <2> QED
    BY <1>2, <2>1, <2>2 DEF OwnersInOrder
<1>12. LiveOwned' /\ SupersededIsSilent'
  <2>1. CASE /\ bridges' = [[bridges EXCEPT ![b].owner = c] EXCEPT ![b].current = c]
             /\ live' = {l \in live : l.bridge # b} \cup {[bridge |-> b, asker |-> c]}
             /\ failed' = failed
    <3>1. bridges'[b].current = c
      BY <1>4, <1>7, <2>1
    <3>2. c.page <= c.page
      BY <1>4, CallTyped
    <3>3. ASSUME NEW l \in live'
          PROVE  /\ bridges'[l.bridge].owner \in Calls
                 /\ l.asker.page <= bridges'[l.bridge].owner.page
                 /\ bridges'[l.bridge].owner = l.asker \/ bridges'[l.bridge].owner \in failed'
                 /\ l.asker = bridges'[l.bridge].current
      <4>1. CASE l \in live /\ l.bridge # b
        BY <1>1, <1>7, <1>8, <2>1, <4>1 DEF LiveOwned, Addressed, SupersededIsSilent
      <4>2. CASE l.bridge = b /\ l.asker = c
        BY <1>4, <1>8, <3>1, <3>2, <4>2
      <4> QED
        BY <2>1, <4>1, <4>2
    <3> QED
      BY <3>3 DEF LiveOwned, Addressed, SupersededIsSilent
  <2>2. CASE /\ bridges' = [bridges EXCEPT ![b].owner = c]
             /\ live' = live
             /\ failed' = failed \cup {c}
    <3>1. bridges'[b].current = bridges[b].current
      BY <1>4, <1>7, <2>2
    <3>2. ASSUME NEW l \in live
          PROVE  /\ bridges'[l.bridge].owner \in Calls
                 /\ l.asker.page <= bridges'[l.bridge].owner.page
                 /\ bridges'[l.bridge].owner = l.asker \/ bridges'[l.bridge].owner \in failed'
                 /\ l.asker = bridges'[l.bridge].current
      <4>1. CASE l.bridge # b
        BY <1>1, <1>7, <1>8, <2>2, <4>1 DEF LiveOwned, Addressed, SupersededIsSilent
      <4>2. CASE l.bridge = b
        <5>1. bridges[b].owner \in Calls /\ l.asker.page <= bridges[b].owner.page /\ l.asker \in Calls
          BY <1>1, <1>7, <4>2 DEF LiveOwned, Addressed
        <5>2. l.asker.page \in Int /\ bridges[b].owner.page \in Int /\ c.page \in Int
          BY <1>4, <5>1, CallTyped
        <5>3. l.asker.page <= c.page
          BY <1>4, <5>1, <5>2
        <5>4. l.asker = bridges[b].current
          BY <1>1, <4>2 DEF SupersededIsSilent
        <5> QED
          BY <1>4, <1>8, <2>2, <3>1, <4>2, <5>3, <5>4
      <4> QED
        BY <4>1, <4>2
    <3> QED
      BY <2>2, <3>2 DEF LiveOwned, Addressed, SupersededIsSilent
  <2> QED
    BY <1>6, <2>1, <2>2
<1>13. DownOwned' /\ AnswersStayApart'
  BY <1>1, <1>2, <1>9 DEF DownOwned, AnswersStayApart, Addressed
<1> QED
  BY <1>3, <1>10, <1>11, <1>12, <1>13 DEF BridgeInv

LEMMA LS2CancelKeeps == ASSUME BridgeInv, LS2Cancel PROVE BridgeInv'
<1>1. /\ TypeOK /\ UpInOrder /\ OwnersInOrder /\ LiveOwned /\ DownOwned
      /\ SupersededIsSilent /\ AnswersStayApart
  BY DEF BridgeInv
<1>2. /\ up # <<>> /\ up' = Tail(up) /\ live' \subseteq live /\ alive' \in BOOLEAN
      /\ UNCHANGED <<page, callId, bridges, down, failed, delivered>>
  BY <1>1 DEF LS2Cancel, WithoutCallOf, TypeOK
<1>3. /\ up' \in Seq(Msgs) /\ UpInOrder'
      /\ \A i \in 1..Len(up') : up'[i] = up[i + 1] /\ i + 1 \in 1..Len(up) /\ i + 1 > 1
  BY <1>2, UpTaken
<1>4. TypeOK'
  BY <1>1, <1>2, <1>3 DEF TypeOK, Msgs
<1>5. OwnersInOrder'
  BY <1>1, <1>2, <1>3 DEF OwnersInOrder
<1>6. LiveOwned' /\ DownOwned' /\ SupersededIsSilent' /\ AnswersStayApart'
  BY <1>1, <1>2 DEF LiveOwned, DownOwned, SupersededIsSilent, AnswersStayApart, Addressed
<1> QED
  BY <1>3, <1>4, <1>5, <1>6 DEF BridgeInv

LEMMA ReplyKeeps == ASSUME BridgeInv, Reply PROVE BridgeInv'
<1>1. /\ TypeOK /\ UpInOrder /\ OwnersInOrder /\ LiveOwned /\ DownOwned
      /\ SupersededIsSilent /\ AnswersStayApart
  BY DEF BridgeInv
<1>2. UNCHANGED <<page, callId, up, bridges, live, alive, failed, delivered>>
  BY DEF Reply
<1>3. PICK l \in live : down' = Append(down, [to |-> bridges[l.bridge].owner, asker |-> l.asker])
  BY DEF Reply
<1> DEFINE m == [to |-> bridges[l.bridge].owner, asker |-> l.asker]
<1>4. l.bridge \in Bridges /\ l.asker \in Calls
  BY <1>1 DEF TypeOK
<1>5. /\ m \in Emits /\ m.to.page <= page /\ m.asker.page <= m.to.page
      /\ m.to = m.asker \/ m.to \in failed
  BY <1>1, <1>4 DEF LiveOwned, Addressed, OwnersInOrder, Emits
<1>6. down \in Seq(Emits) /\ down' = Append(down, m)
  BY <1>1, <1>3 DEF TypeOK, Emits
<1> HIDE DEF m
<1>7. /\ down' \in Seq(Emits)
      /\ \A i \in 1..Len(down') : (i \in 1..Len(down) /\ down'[i] = down[i]) \/ down'[i] = m
  BY <1>5, <1>6
<1>8. TypeOK'
  BY <1>1, <1>2, <1>7 DEF TypeOK, Emits
<1>9. DownOwned'
  BY <1>1, <1>2, <1>5, <1>7 DEF DownOwned, Addressed
<1>10. UpInOrder' /\ OwnersInOrder' /\ LiveOwned' /\ SupersededIsSilent' /\ AnswersStayApart'
  BY <1>1, <1>2 DEF UpInOrder, OwnersInOrder, LiveOwned, SupersededIsSilent, AnswersStayApart, Addressed
<1> QED
  BY <1>8, <1>9, <1>10 DEF BridgeInv

LEMMA StutterKeeps == ASSUME BridgeInv, UNCHANGED vars PROVE BridgeInv'
BY DEF BridgeInv, vars, TypeOK, UpInOrder, OwnersInOrder, LiveOwned, DownOwned,
       SupersededIsSilent, AnswersStayApart, Addressed

LEMMA BridgeInvHolds == Spec => []BridgeInv
<1>1. Init => BridgeInv
  BY InitBridge
<1>2. BridgeInv /\ [Next]_vars => BridgeInv'
  <2> SUFFICES ASSUME BridgeInv, [Next]_vars PROVE BridgeInv'
    OBVIOUS
  <2>1. ASSUME NEW b \in Bridges, Call(b) PROVE BridgeInv'
    BY <2>1, CallKeeps
  <2>2. ASSUME NEW b \in Bridges, Cancel(b) PROVE BridgeInv'
    BY <2>2, CancelKeeps
  <2>3. CASE Deliver
    BY <2>3, DeliverKeeps
  <2>4. CASE Reload
    BY <2>4, ReloadKeeps
  <2>5. CASE LS2Call
    BY <2>5, LS2CallKeeps
  <2>6. CASE LS2Cancel
    BY <2>6, LS2CancelKeeps
  <2>7. CASE Reply
    BY <2>7, ReplyKeeps
  <2>8. CASE UNCHANGED vars
    BY <2>8, StutterKeeps
  <2> QED
    BY <2>1, <2>2, <2>3, <2>4, <2>5, <2>6, <2>7, <2>8 DEF Next
<1> QED
  BY <1>1, <1>2, PTL DEF Spec

-----------------------------------------------------------------------------
(* Theorems. *)

\* Types: in particular every call number is one its page has made.
THEOREM BridgeTypeCorrect == Spec => []TypeOK
<1>1. BridgeInv => TypeOK
  BY DEF BridgeInv
<1> QED
  BY <1>1, BridgeInvHolds, PTL

\* Within one page, calls the bus accepts never get each other's answers.
THEOREM AnswersApart == Spec => []AnswersStayApart
<1>1. BridgeInv => AnswersStayApart
  BY DEF BridgeInv
<1> QED
  BY <1>1, BridgeInvHolds, PTL

\* Only the last call the bus accepted on a bridge can still be answered.
THEOREM SupersededSilent == Spec => []SupersededIsSilent
<1>1. BridgeInv => SupersededIsSilent
  BY DEF BridgeInv
<1> QED
  BY <1>1, BridgeInvHolds, PTL
=============================================================================
