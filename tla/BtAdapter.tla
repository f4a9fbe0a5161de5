------------------------------ MODULE BtAdapter ------------------------------
(***************************************************************************)
(* The Bluetooth adapter the BluetoothManager extension works with         *)
(* (DeviceModel): which one it is, whether it scans for devices and        *)
(* whether others may discover it.                                         *)
(*                                                                         *)
(* BlueZ is external.  It tells of the default adapter, of removed ones    *)
(* and of the power of the adapter subscribed to in signals that arrive in *)
(* order but late; its methods act at once on an adapter that is present   *)
(* and powered, and fail on any other.  Without power an adapter neither   *)
(* scans nor can be discovered.                                            *)
(***************************************************************************)
EXTENDS Naturals, Sequences

CONSTANTS Adapters,    \* adapters BlueZ may have
          NoAdapter,   \* m_bluezAdapter is null
          MaxSignals   \* bound: signals posted and not handled

ASSUME AdapterAssumption == NoAdapter \notin Adapters /\ MaxSignals \in Nat \ {0}

VARIABLES
  adapter,        \* m_bluezAdapter
  isPowered,      \* m_isPowered
  isDiscovering,  \* m_isDiscovering
  ticking,        \* m_timer runs (it repeats)
  soon,           \* m_discoverableTimer runs
  present,        \* BlueZ: the adapters there are,
  power,          \* those of them that have power,
  scanning,       \* scan on our behalf,
  visible,        \* were made discoverable by us
  signals,        \* posted to the model and not handled
  past            \* history: what has happened before, of Events

adapterVars == <<adapter, isPowered, isDiscovering, ticking, soon,
                 present, power, scanning, visible, signals, past>>

\* The model was told that its adapter is off, which had power; and no signal of
\* a power waits to put that right, so that the one handled came from a
\* subscription given up before; the adapter was hidden, by the page's wish, by
\* BlueZ when its timeout ran out, or by another of its clients.
Events == {"outdated", "misled", "hidden"}

BlueZSignals == [is : {"default", "removed", "on", "off"}, of : Adapters]

AdapterTypeOK ==
    /\ adapter \in Adapters \cup {NoAdapter}
    /\ isPowered \in BOOLEAN
    /\ isDiscovering \in BOOLEAN
    /\ isDiscovering => adapter # NoAdapter
    /\ ticking \in BOOLEAN /\ soon \in BOOLEAN
    /\ present \subseteq Adapters /\ power \subseteq present
    /\ scanning \subseteq power /\ visible \subseteq power
    /\ signals \in Seq(BlueZSignals) /\ Len(signals) <= MaxSignals
    /\ past \subseteq Events

\* The constructor asks for the default adapter as the signal would tell it.
AdapterInit ==
    /\ adapter = NoAdapter
    /\ isPowered = FALSE /\ isDiscovering = FALSE
    /\ ticking = FALSE /\ soon = FALSE
    /\ present \in SUBSET Adapters /\ power \in SUBSET present
    /\ scanning = {} /\ visible = {}
    /\ signals \in {<<>>} \cup {<<[is |-> "default", of |-> a]>> : a \in present}
    /\ past = {}

-----------------------------------------------------------------------------
(* What the calls to BlueZ and the two timers do. *)

Post(is, a) ==
    /\ Len(signals) < MaxSignals
    /\ signals' = Append(signals, [is |-> is, of |-> a])

MayDiscoverPowered(a) == isPowered
MayDiscover(a) == a # NoAdapter /\ isPowered

StillScanning == scanning
\* StopDiscovery of the current adapter, if the model thinks that it scans.
Stopped == IF isDiscovering THEN scanning \ {adapter} ELSE scanning

startDiscovery ==
    /\ IF MayDiscover(adapter) /\ ~isDiscovering
       THEN /\ isDiscovering' = TRUE
            /\ scanning' = scanning \cup ({adapter} \cap power)
       ELSE UNCHANGED <<isDiscovering, scanning>>
    /\ ticking' = TRUE

stopDiscovery ==
    /\ isDiscovering' = FALSE
    /\ scanning' = Stopped
    /\ ticking' = TRUE

\* trySetDiscoverable.
MadeVisible   == IF isPowered THEN visible \cup ({adapter} \cap power) ELSE visible
MadeInvisible == IF isPowered THEN visible \ {adapter} ELSE visible

clearAdapter ==
    /\ adapter' = NoAdapter
    /\ isDiscovering' = FALSE
    /\ scanning' = Stopped
    /\ ticking' = TRUE
    /\ soon' = FALSE
    /\ visible' = MadeInvisible
    /\ UNCHANGED isPowered

\* setAdapterFromPath: the former adapter is let go, the new one starts to scan
\* if the power last heard of was on, and is then asked for its properties.
\* BlueZ answers unless the adapter has gone meanwhile.
SetAdapter(a) ==
    /\ adapter' = a
    /\ isDiscovering' = MayDiscover(a)
    /\ scanning' = IF MayDiscover(a) THEN Stopped \cup ({a} \cap power) ELSE Stopped
    /\ ticking' = TRUE
    /\ soon' = TRUE
    /\ isPowered' = IF a \in present THEN a \in power ELSE isPowered
    /\ visible' = MadeInvisible \cup ({a} \cap power)

-----------------------------------------------------------------------------
(* Signals. *)

Take(is) ==
    /\ signals # <<>> /\ Head(signals).is \in is
    /\ signals' = Tail(signals)

slotDefaultAdapterChanged ==
    /\ Take({"default"})
    /\ SetAdapter(Head(signals).of)
    /\ UNCHANGED <<present, power, past>>

slotAdapterRemoved ==
    /\ Take({"removed"})
    /\ IF Head(signals).of = adapter
       THEN clearAdapter
       ELSE UNCHANGED <<adapter, isPowered, isDiscovering, ticking, soon, scanning, visible>>
    /\ UNCHANGED <<present, power, past>>

NotMadeVisible   == visible
MadeVisibleAgain == IF isPowered' THEN visible \cup ({adapter} \cap power) ELSE visible

\* updateProperty "Powered": the signal is not asked whose it is.
slotPropertyChanged ==
    /\ Take({"on", "off"})
    /\ isPowered' = (Head(signals).is = "on")
    /\ visible' = MadeVisibleAgain
    /\ past' = past \cup (IF isPowered' \/ adapter \notin power THEN {}
                         ELSE IF \E i \in 2..Len(signals) : signals[i].is \in {"on", "off"}
                              THEN {"outdated"} ELSE {"outdated", "misled"})
    /\ UNCHANGED <<adapter, isDiscovering, ticking, soon, present, power, scanning>>

-----------------------------------------------------------------------------
(* Timers and the page. *)

WantsNothing == FALSE
WantsToScan  == ~isDiscovering

\* slotTimeout: toggleDiscovery.
Timeout ==
    /\ ticking
    /\ IF WantsToScan THEN startDiscovery ELSE stopDiscovery
    /\ UNCHANGED <<adapter, isPowered, soon, present, power, visible, signals, past>>

slotEnableDiscoverable ==
    /\ soon
    /\ soon' = FALSE
    /\ visible' = MadeVisible
    /\ UNCHANGED <<adapter, isPowered, isDiscovering, ticking, present, power, scanning, signals, past>>

\* BluetoothManager::discover, called by the page.
Discover(value) ==
    /\ IF value
       THEN visible' = MadeVisible /\ startDiscovery /\ UNCHANGED past
       ELSE visible' = MadeInvisible /\ stopDiscovery /\ past' = past \cup {"hidden"}
    /\ UNCHANGED <<adapter, isPowered, soon, present, power, signals>>

-----------------------------------------------------------------------------
(* BlueZ. *)

\* Only the adapter the model has subscribed to tells of its power.
PowerChanges(a) ==
    /\ a \in present
    /\ power' = IF a \in power THEN power \ {a} ELSE power \cup {a}
    /\ scanning' = scanning \cap power' /\ visible' = visible \cap power'
    /\ IF a = adapter
       THEN Post(IF a \in power THEN "off" ELSE "on", a)
       ELSE UNCHANGED signals
    /\ UNCHANGED <<adapter, isPowered, isDiscovering, ticking, soon, present, past>>

DefaultChanges(a) ==
    /\ a \in present
    /\ Post("default", a)
    /\ UNCHANGED <<adapter, isPowered, isDiscovering, ticking, soon,
                   present, power, scanning, visible, past>>

AdapterGoes(a) ==
    /\ a \in present
    /\ present' = present \ {a}
    /\ power' = power \ {a} /\ scanning' = scanning \ {a} /\ visible' = visible \ {a}
    /\ Post("removed", a)
    /\ UNCHANGED <<adapter, isPowered, isDiscovering, ticking, soon, past>>

AdapterComes(a) ==
    /\ a \notin present
    /\ present' = present \cup {a}
    /\ UNCHANGED <<adapter, isPowered, isDiscovering, ticking, soon,
                   power, scanning, visible, signals, past>>

\* The timeout of BlueZ, or another client.  The signal Discoverable changes
\* m_isDiscoverable only, which nothing else reads.
OthersHide(a) ==
    /\ a \in visible
    /\ visible' = visible \ {a}
    /\ past' = past \cup (IF a = adapter THEN {"hidden"} ELSE {})
    /\ UNCHANGED <<adapter, isPowered, isDiscovering, ticking, soon,
                   present, power, scanning, signals>>

HandleSignal == slotDefaultAdapterChanged \/ slotAdapterRemoved \/ slotPropertyChanged

AdapterNext ==
    \/ HandleSignal
    \/ Timeout \/ slotEnableDiscoverable
    \/ Discover(TRUE) \/ Discover(FALSE)
    \/ \E a \in Adapters :
         \/ PowerChanges(a) \/ DefaultChanges(a) \/ AdapterGoes(a) \/ AdapterComes(a)
         \/ OthersHide(a)

\* The event loop handles what is posted, and timers go off.
AdapterFairness == WF_adapterVars(HandleSignal) /\ WF_adapterVars(Timeout)

AdapterSpec == AdapterInit /\ [][AdapterNext]_adapterVars /\ AdapterFairness

-----------------------------------------------------------------------------
(* Properties. *)

\* An adapter is left as it was found: only the current one scans for us, and
\* then the model knows; no other stays discoverable, unless the model was told
\* that an adapter with power has none, and so did not call the visibility off.
LeavesNothingOn ==
    /\ \A a \in scanning : a = adapter /\ isDiscovering
    /\ "outdated" \in past \/ visible \subseteq {adapter}

\* Once an adapter stays, with power, and the page asks for nothing more, it
\* scans again and again, whatever was lost before; unless a subscription given
\* up before had the last word on the power, and denied it.
KeepsScanning ==
    (/\ []("misled" \notin past)
     /\ <>[](adapter \in power)
     /\ <>[][~(Discover(TRUE) \/ Discover(FALSE))]_adapterVars) => []<>(adapter \in scanning)

\* Once an adapter stays, with power, it stays discoverable, however often it
\* was off before; unless the page or others hid it, which only a new power or a
\* new adapter undoes, or a subscription given up before had the last word on the
\* power, and denied it.
BecomesDiscoverable ==
    (/\ [](past \cap {"misled", "hidden"} = {})
     /\ <>[](adapter \in power)) => <>[](adapter \in visible)
=============================================================================
