---------------------------- MODULE ServiceBridge ----------------------------
(***************************************************************************)
(* The PalmServiceBridge objects of one window: how the luna-service calls *)
(* of its page find their callbacks.                                       *)
(*                                                                         *)
(* A page numbers its extension calls (_callId, webos-api.js) and its      *)
(* bridges (__nextPalmServiceBridgeId); both restart when it is loaded     *)
(* again.  The daemon keeps one PalmServiceBridgeObject per bridge number  *)
(* (mListBridges) for as long as the window lives: the number of the last  *)
(* call made on it, and that call on the bus.  Method calls and signals    *)
(* cross the web channel asynchronously, in order; the handshake of a new  *)
(* page is synchronous and overtakes both.                                 *)
(***************************************************************************)
EXTENDS Naturals, Sequences

CONSTANTS Bridges,   \* numbers of bridges a page creates
          MaxPages,  \* bound: times the page is loaded
          MaxCalls,  \* bound: calls made by one page
          MaxQueue   \* bound: messages under way in one direction

ASSUME BoundsAssumption == MaxPages \in Nat \ {0} /\ MaxCalls \in Nat /\ MaxQueue \in Nat

VARIABLES
  page,       \* how often the page was loaded: tells equal call numbers apart
  callId,     \* _callId of the current page
  up,         \* calls of LS2Call and LS2Cancel not yet handled by the daemon
  bridges,    \* mListBridges: [owner |-> callId, current |-> currentBridgeCall]
  live,       \* calls on the bus that may still be answered
  down,       \* emissions of the signal callback not yet seen by the page
  alive,      \* FALSE once the daemon has died
  failed,     \* history: calls the bus refused
  delivered   \* history: callbacks run in a page, and the calls they answered

vars == <<page, callId, up, bridges, live, down, alive, failed, delivered>>

NoCall == [page |-> 0, id |-> 0]
Calls  == [page : 1..MaxPages, id : 1..MaxCalls]

TypeOK ==
    /\ page \in 1..MaxPages
    /\ callId \in 0..MaxCalls
    /\ up \in Seq([op : {"LS2Call", "LS2Cancel"}, bridge : Bridges, call : Calls \cup {NoCall}])
    /\ bridges \in [Bridges -> [owner : Calls \cup {NoCall}, current : Calls \cup {NoCall}]]
    /\ live \subseteq [bridge : Bridges, asker : Calls]
    /\ down \in Seq([to : Calls, asker : Calls])
    /\ alive \in BOOLEAN
    /\ failed \subseteq Calls
    /\ delivered \subseteq [to : Calls, asker : Calls]

Init ==
    /\ page = 1
    /\ callId = 0
    /\ up = <<>>
    /\ bridges = [b \in Bridges |-> [owner |-> NoCall, current |-> NoCall]]
    /\ live = {}
    /\ down = <<>>
    /\ alive = TRUE
    /\ failed = {}
    /\ delivered = {}

-----------------------------------------------------------------------------
(* The page. *)

Invoke(op, b, call) ==
    /\ Len(up) < MaxQueue
    /\ up' = Append(up, [op |-> op, bridge |-> b, call |-> call])

NextCallIdPostIncrement == callId
NextCallId              == callId + 1

\* PalmServiceBridge.call: the callback is connected for good, because the
\* daemon always answers with keepCallback = true.
Call(b) ==
    /\ callId < MaxCalls
    /\ callId' = callId + 1
    /\ Invoke("LS2Call", b, [page |-> page, id |-> NextCallId])
    /\ UNCHANGED <<page, bridges, live, down, alive, failed, delivered>>

Cancel(b) ==
    /\ Invoke("LS2Cancel", b, NoCall)
    /\ UNCHANGED <<page, callId, bridges, live, down, alive, failed, delivered>>

\* A signal runs the callback whose call has the number it carries, if any.
Deliver ==
    /\ down # <<>>
    /\ LET m == Head(down) IN
       delivered' = IF m.to.id <= callId
                    THEN delivered \cup {[to |-> [page |-> page, id |-> m.to.id], asker |-> m.asker]}
                    ELSE delivered
    /\ down' = Tail(down)
    /\ UNCHANGED <<page, callId, up, bridges, live, alive, failed>>

\* The page is loaded again, by itself or by the window.  What is on its way to
\* it may or may not survive in the web engine; what it sent is handled.
Reload ==
    /\ page < MaxPages
    /\ page' = page + 1
    /\ callId' = 0
    /\ down' \in {down, <<>>}
    /\ UNCHANGED <<up, bridges, live, alive, failed, delivered>>

-----------------------------------------------------------------------------
(* The daemon. *)

KeepsFirstNumber(b, call) ==
    IF bridges[b].owner = NoCall THEN [bridges EXCEPT ![b].owner = call] ELSE bridges
TakesNumber(b, call)      == [bridges EXCEPT ![b].owner = call]

WithoutNothing(b) == live
WithoutCallOf(b)  == {l \in live : l.bridge # b}

\* currentBridgeCall.reset destroys the previous call of the bridge, which
\* cancels it on the bus.
LS2Call ==
    /\ up # <<>> /\ Head(up).op = "LS2Call"
    /\ LET b == Head(up).bridge
           call == Head(up).call
       IN  \/ /\ bridges' = [TakesNumber(b, call) EXCEPT ![b].current = call]
              /\ live' = WithoutCallOf(b) \cup {[bridge |-> b, asker |-> call]}
              /\ UNCHANGED failed
           \/ /\ bridges' = TakesNumber(b, call)   \* LS::Error: logged nowhere
              /\ failed' = failed \cup {call}
              /\ UNCHANGED live
    /\ up' = Tail(up)
    /\ UNCHANGED <<page, callId, down, alive, delivered>>

\* A bridge that never made a call has no currentBridgeCall to cancel: a null
\* pointer is dereferenced.
LS2Cancel ==
    /\ up # <<>> /\ Head(up).op = "LS2Cancel"
    /\ LET b == Head(up).bridge
       IN  IF bridges[b].current = NoCall
           THEN alive' = FALSE /\ UNCHANGED live
           ELSE live' = WithoutCallOf(b) /\ UNCHANGED alive
    /\ up' = Tail(up)
    /\ UNCHANGED <<page, callId, bridges, down, failed, delivered>>

\* A service answers, as often as it likes: the answer carries the number the
\* bridge has now.
Reply ==
    /\ Len(down) < MaxQueue
    /\ \E l \in live :
         down' = Append(down, [to |-> bridges[l.bridge].owner, asker |-> l.asker])
    /\ UNCHANGED <<page, callId, up, bridges, live, alive, failed, delivered>>

Next ==
    /\ alive
    /\ \/ \E b \in Bridges : Call(b) \/ Cancel(b)
       \/ Deliver
       \/ Reload
       \/ LS2Call
       \/ LS2Cancel
       \/ Reply

Spec == Init /\ [][Next]_vars

-----------------------------------------------------------------------------
(* Properties. *)

\* A callback gets the answer to another call only when its page is not the
\* page that asked, or when its own call was refused by the bus after it had
\* taken over the number of the bridge: within one page, calls that the bus
\* accepts never see each other's answers (LS2Call, handleReply, exec).
AnswersStayApart ==
    \A d \in delivered :
        d.to # d.asker => d.to.page # d.asker.page \/ d.to \in failed

\* Of the calls made one after the other on a bridge only the last one the bus
\* accepted can still be answered: an earlier subscription is silenced, also
\* when it was made by the page before a reload.
SupersededIsSilent ==
    \A l \in live : l.asker = bridges[l.bridge].current

\* webos-api.js:481: exec creates "a contextual callback function for this
\* specific call", recognised by "the unique call id" (:500) it passes along.
ContextualCallback == \A d \in delivered : d.to = d.asker
=============================================================================
