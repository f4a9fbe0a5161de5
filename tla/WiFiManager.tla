----------------------------- MODULE WiFiManager -----------------------------
(***************************************************************************)
(* The WiFiManager extension of a window: the calls of its page that list  *)
(* networks and connect to one, and the agreement between the page's idea  *)
(* of the radio's power and the radio itself.                              *)
(*                                                                         *)
(* connman and its client library are external: a technology that comes,   *)
(* goes and is switched by others, scans that finish, and NetworkService   *)
(* objects that report a result at any time until they are deleted.        *)
(***************************************************************************)
EXTENDS Naturals, Sequences

CONSTANTS MaxWifiCalls,  \* bound: calls of retrieveNetworks and connectNetwork
          MaxToggles     \* bound: values of the power under way at once

ASSUME WifiBoundsAssumption == MaxWifiCalls \in Nat /\ MaxToggles \in Nat

VARIABLES
  wifi,          \* power of mWifi as connman has it, "absent" when mWifi is null
  powered,       \* __WiFiManager.powered of the page
  scripts,       \* values in __WiFiManager.setPowered scripts not yet run
  echoes,        \* values the page passed to setPowered, not yet handled
  wishes,        \* values asked of connman, not yet decided
  loaded,        \* FALSE while the page is being loaded
  refused,       \* history: connman refused a request
  made,          \* number of calls made by the page: the last call's id
  mCallIds,      \* calls waiting for the end of a scan
  mConnecting,   \* TRUE while a connection is attempted ...
  connectCall,   \* ... for this call (mConnectCallbacks) ...
  toConnect,     \* ... with the service of this call (mNetworkToConnect)
  doomed,        \* services passed to deleteLater that still exist
  answered       \* history: number of answers each call got

powerVars == <<powered, scripts, echoes, wishes, loaded, refused>>
callVars  == <<made, mCallIds, mConnecting, connectCall, toConnect, doomed, answered>>
wifiVars  == <<wifi, powerVars, callVars>>

WifiCalls == 1..MaxWifiCalls
Values    == {"on", "off"}

WifiTypeOK ==
    /\ wifi \in Values \cup {"absent"}
    /\ powered \in Values
    /\ {scripts, echoes, wishes} \subseteq Seq(Values)
    /\ Len(scripts) + Len(echoes) + Len(wishes) <= MaxToggles
    /\ loaded \in BOOLEAN /\ refused \in BOOLEAN
    /\ made \in 0..MaxWifiCalls
    /\ mCallIds \subseteq WifiCalls
    /\ mConnecting \in BOOLEAN
    /\ connectCall \in 0..MaxWifiCalls
    /\ toConnect \in 0..MaxWifiCalls
    /\ doomed \subseteq WifiCalls
    /\ answered \in [WifiCalls -> Nat]

WifiInit ==
    /\ wifi \in Values \cup {"absent"}
    /\ powered = "off"
    /\ scripts = <<>> /\ echoes = <<>> /\ wishes = <<>>
    /\ loaded = FALSE /\ refused = FALSE
    /\ made = 0
    /\ mCallIds = {}
    /\ mConnecting = FALSE
    /\ connectCall = 0 /\ toConnect = 0
    /\ doomed = {}
    /\ answered = [c \in WifiCalls |-> 0]

-----------------------------------------------------------------------------
(* Power.  A value travels as a script to the page, from there back as a call *)
(* of setPowered, and on to connman as a request.                             *)

\* bound: room for one more value under way.
Room == Len(scripts) + Len(echoes) + Len(wishes) < MaxToggles

AsIs(w)    == w
AsPower(w) == IF w = "on" THEN "on" ELSE "off"

\* WiFiManager::initialize.
initialize == Room /\ scripts' = Append(scripts, AsPower(wifi'))

\* The page's setPowered: for a script and for an assignment to enabled alike.
PageSetPowered(v) == powered' = v /\ echoes' = Append(echoes, v)

\* The page is loaded; the extensions are initialized once that has succeeded.
\* Scripts under way may or may not survive in the web engine.
PageLoads ==
    /\ loaded' = FALSE
    /\ powered' = "off"
    /\ scripts' \in {scripts, <<>>}
    /\ UNCHANGED <<wifi, echoes, wishes, refused, callVars>>

PageLoaded ==
    /\ ~loaded
    /\ loaded' = TRUE
    /\ UNCHANGED wifi
    /\ initialize
    /\ UNCHANGED <<powered, echoes, wishes, refused, callVars>>

RunScript ==
    /\ scripts # <<>>
    /\ PageSetPowered(Head(scripts))
    /\ scripts' = Tail(scripts)
    /\ UNCHANGED <<wifi, wishes, loaded, refused, callVars>>

UserSets ==
    /\ Room
    /\ \E v \in Values : PageSetPowered(v)
    /\ UNCHANGED <<wifi, scripts, wishes, loaded, refused, callVars>>

\* WiFiManager::setPowered.
SetPowered ==
    /\ echoes # <<>>
    /\ echoes' = Tail(echoes)
    /\ wishes' = IF wifi = "absent" THEN wishes ELSE Append(wishes, Head(echoes))
    /\ UNCHANGED <<wifi, powered, scripts, loaded, refused, callVars>>

\* connman decides a request; poweredChanged runs initialize.
RequestGranted ==
    /\ wishes # <<>>
    /\ wishes' = Tail(wishes)
    /\ IF wifi \in {"absent", Head(wishes)}
       THEN UNCHANGED <<wifi, scripts>>
       ELSE wifi' = Head(wishes) /\ scripts' = Append(scripts, wifi')
    /\ UNCHANGED <<powered, echoes, loaded, refused, callVars>>

RequestRefused ==
    /\ wishes # <<>>
    /\ wishes' = Tail(wishes)
    /\ refused' = TRUE
    /\ UNCHANGED <<wifi, powered, scripts, echoes, loaded, callVars>>

\* Somebody else switches the radio.
OthersSwitch ==
    /\ wifi # "absent"
    /\ wifi' \in Values \ {wifi}
    /\ initialize
    /\ UNCHANGED <<powered, echoes, wishes, loaded, refused, callVars>>

TellsNobody == UNCHANGED scripts
TellsPage   == initialize

\* WiFiManager::technologiesChanged: the technology disappears or appears.
technologiesChanged ==
    /\ IF wifi = "absent" THEN wifi' \in Values ELSE wifi' = "absent"
    /\ TellsPage
    /\ UNCHANGED <<powered, echoes, wishes, loaded, refused, callVars>>

-----------------------------------------------------------------------------
(* Calls. *)

NewCall == made < MaxWifiCalls /\ made' = made + 1

Answer(calls) ==
    answered' = [c \in WifiCalls |-> IF c \in calls THEN answered[c] + 1 ELSE answered[c]]

RetrieveNetworks ==
    /\ NewCall
    /\ IF wifi = "absent"
       THEN Answer({made'}) /\ UNCHANGED mCallIds
       ELSE mCallIds' = mCallIds \cup {made'} /\ UNCHANGED answered
    /\ UNCHANGED <<wifi, powerVars, mConnecting, connectCall, toConnect, doomed>>

AllWaiting   == mCallIds
NoneWaiting  == {}

\* The end of any scan answers every waiting call.
ScanFinished ==
    /\ wifi # "absent"
    /\ Answer(mCallIds)
    /\ mCallIds' = NoneWaiting
    /\ UNCHANGED <<wifi, powerVars, made, mConnecting, connectCall, toConnect, doomed>>

\* While an attempt lasts, and for arguments that are not a path and a
\* password, the answer is an error.
ConnectRejected ==
    /\ NewCall
    /\ Answer({made'})
    /\ toConnect' = IF mConnecting THEN toConnect ELSE 0
    /\ UNCHANGED <<wifi, powerVars, mCallIds, mConnecting, connectCall, doomed>>

AlwaysConnects == TRUE
MayConnect     == ~mConnecting

ConnectNetwork ==
    /\ MayConnect
    /\ NewCall
    /\ mConnecting' = TRUE
    /\ connectCall' = made'
    /\ toConnect' = made'
    /\ UNCHANGED <<wifi, powerVars, mCallIds, doomed, answered>>

KeepsService  == UNCHANGED <<toConnect, doomed>>
DeletesService ==
    /\ doomed' = doomed \cup ({toConnect} \ {0})
    /\ toConnect' = 0

\* finishConnectionProcess, called for connectedChanged (of either value) and
\* connectRequestFailed of any service that still exists: the disconnect() at
\* its end names the manager as sender and so disconnects no service.
FinishConnectionProcess ==
    /\ \E s \in doomed \cup {toConnect} : s # 0
    /\ Answer(IF mConnecting THEN {connectCall} ELSE {})
    /\ connectCall' = 0
    /\ DeletesService
    /\ mConnecting' = FALSE
    /\ UNCHANGED <<wifi, powerVars, made, mCallIds>>

\* deleteLater takes effect.
ServiceDeleted ==
    /\ \E s \in doomed : doomed' = doomed \ {s}
    /\ UNCHANGED <<wifi, powerVars, made, mCallIds, mConnecting, connectCall, toConnect, answered>>

WifiNext ==
    \/ PageLoads \/ PageLoaded \/ RunScript \/ UserSets \/ SetPowered
    \/ RequestGranted \/ RequestRefused \/ OthersSwitch \/ technologiesChanged
    \/ RetrieveNetworks \/ ScanFinished
    \/ ConnectRejected \/ ConnectNetwork \/ FinishConnectionProcess \/ ServiceDeleted

WifiSpec == WifiInit /\ [][WifiNext]_wifiVars

-----------------------------------------------------------------------------
(* Properties. *)

\* Whatever becomes of scans, technologies and attempts, a call is in exactly
\* one place: waiting for a scan, being attempted, or answered, and answered
\* once.  (Ids are those of one page; see ServiceBridge for a reload.)
EachCallOnce ==
    \A c \in 1..made :
        answered[c] + (IF c \in mCallIds THEN 1 ELSE 0)
                    + (IF mConnecting /\ c = connectCall THEN 1 ELSE 0) = 1

\* Calls are refused at once or kept, and every kept call is answered once, by
\* the end of a scan or of its attempt: the page never gets an answer to a call
\* it has not made, nor a second one (OneReply).
CallsWaiting == mCallIds \cup (IF mConnecting THEN {connectCall} ELSE {})

Calls == INSTANCE OneReply WITH Asks <- WifiCalls, waiting <- CallsWaiting, answers <- answered

CallsPromise == Calls!OneReplySpec

\* An attempt has a service of its own that is not about to be deleted, and
\* when there is no attempt there is no such service: late reports of earlier
\* services cannot leave mConnecting set with nothing to end it.
AttemptHasService ==
    /\ mConnecting <=> toConnect # 0
    /\ toConnect \notin doomed
    /\ connectCall = toConnect

\* When nothing is under way the loaded page shows the power of the radio,
\* whoever switched it, provided connman refused nothing: setPowered ignores
\* how a request ends.
QuietAgreement ==
    (/\ loaded /\ ~refused /\ wifi # "absent"
     /\ scripts = <<>> /\ echoes = <<>> /\ wishes = <<>>) => powered = wifi
=============================================================================
