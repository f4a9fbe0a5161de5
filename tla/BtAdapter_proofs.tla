-------------------------- MODULE BtAdapter_proofs --------------------------
(***************************************************************************)
(* Proofs about BtAdapter for any adapters and any number of signals.      *)
(* That no former adapter is left scanning or discoverable is inductive    *)
(* once it is added that, as long as the model was told the truth, an      *)
(* adapter is not discoverable while the model believes it has no power:   *)
(* so nothing is left to be called off when the call would be skipped.     *)
(* The last section proves the safety half of the liveness properties.     *)
(***************************************************************************)
EXTENDS BtAdapter, SequenceTheorems, TLAPS

OnlyCurrentScans == \A a \in scanning : a = adapter /\ isDiscovering

OnlyCurrentVisible ==
    \/ "outdated" \in past
    \/ visible \subseteq {adapter} /\ (isPowered \/ visible = {})

AdapterInv == AdapterTypeOK /\ OnlyCurrentScans /\ OnlyCurrentVisible

-----------------------------------------------------------------------------

LEMMA InitAdapter == ASSUME AdapterInit PROVE AdapterInv
<1>1. /\ adapter = NoAdapter /\ isPowered = FALSE /\ isDiscovering = FALSE /\ ticking = FALSE /\ soon = FALSE
      /\ present \in SUBSET Adapters /\ power \in SUBSET present /\ scanning = {} /\ visible = {} /\ past = {}
  BY DEF AdapterInit
<1>2. signals \in Seq(BlueZSignals) /\ Len(signals) <= MaxSignals
  <2>1. CASE signals = <<>>
    BY <2>1, AdapterAssumption
  <2>2. ASSUME NEW a \in present, signals = <<[is |-> "default", of |-> a]>>
        PROVE  signals \in Seq(BlueZSignals) /\ Len(signals) <= MaxSignals
    <3>1. [is |-> "default", of |-> a] \in BlueZSignals
      BY <1>1 DEF BlueZSignals
    <3> QED
      BY <2>2, <3>1, AdapterAssumption
  <2> QED
    BY <2>1, <2>2 DEF AdapterInit
<1> QED
  BY <1>1, <1>2 DEF AdapterInv, AdapterTypeOK, OnlyCurrentScans, OnlyCurrentVisible

\* Signals are posted at the end and taken from the front.
LEMMA PostTyped ==
    ASSUME AdapterTypeOK, NEW is \in {"default", "removed", "on", "off"}, NEW a \in Adapters, Post(is, a)
    PROVE  signals' \in Seq(BlueZSignals) /\ Len(signals') <= MaxSignals
<1>1. signals \in Seq(BlueZSignals) /\ [is |-> is, of |-> a] \in BlueZSignals
  BY DEF AdapterTypeOK, BlueZSignals
<1>2. signals' = Append(signals, [is |-> is, of |-> a]) /\ Len(signals) < MaxSignals
  BY DEF Post
<1>3. signals' \in Seq(BlueZSignals) /\ Len(signals') = Len(signals) + 1 /\ Len(signals) \in Nat
  BY <1>1, <1>2
<1> QED
  BY <1>2, <1>3, AdapterAssumption

LEMMA TakeTyped ==
    ASSUME AdapterTypeOK, NEW is, Take(is)
    PROVE  /\ signals' \in Seq(BlueZSignals) /\ Len(signals') <= MaxSignals
           /\ Head(signals).of \in Adapters
<1>1. signals \in Seq(BlueZSignals) /\ signals # <<>> /\ signals' = Tail(signals) /\ Len(signals) <= MaxSignals
  BY DEF AdapterTypeOK, Take
<1>2. /\ Head(signals) \in BlueZSignals /\ signals' \in Seq(BlueZSignals)
      /\ Len(signals') = Len(signals) - 1 /\ Len(signals) \in Nat
  BY <1>1, HeadTailProperties, LenProperties
<1> QED
  BY <1>1, <1>2, AdapterAssumption DEF BlueZSignals

-----------------------------------------------------------------------------
(* Signals. *)

\* With the truth told, letting an adapter go leaves none scanning or visible.
LEMMA LetGo ==
    ASSUME AdapterInv
    PROVE  Stopped = {} /\ ("outdated" \in past \/ MadeInvisible = {}) /\ MadeInvisible \subseteq visible
BY DEF AdapterInv, AdapterTypeOK, OnlyCurrentScans, OnlyCurrentVisible, Stopped, MadeInvisible

LEMMA DefaultKeeps == ASSUME AdapterInv, slotDefaultAdapterChanged PROVE AdapterInv'
<1> DEFINE a == Head(signals).of
<1>1. AdapterTypeOK /\ Stopped = {} /\ ("outdated" \in past \/ MadeInvisible = {}) /\ MadeInvisible \subseteq visible
  BY LetGo DEF AdapterInv
<1>2. /\ Take({"default"}) /\ adapter' = a /\ isDiscovering' = MayDiscover(a)
      /\ scanning' = IF MayDiscover(a) THEN Stopped \cup ({a} \cap power) ELSE Stopped
      /\ ticking' = TRUE /\ soon' = TRUE
      /\ isPowered' = IF a \in present THEN a \in power ELSE isPowered
      /\ visible' = MadeInvisible \cup ({a} \cap power)
      /\ UNCHANGED <<present, power, past>>
  BY DEF slotDefaultAdapterChanged, SetAdapter
<1>3. signals' \in Seq(BlueZSignals) /\ Len(signals') <= MaxSignals /\ a \in Adapters
  BY <1>1, <1>2, TakeTyped
<1> HIDE DEF a
<1>4. a # NoAdapter
  BY <1>3, AdapterAssumption
<1>5. AdapterTypeOK'
  <2>1. isPowered' \in BOOLEAN /\ isDiscovering' \in BOOLEAN
    <3>1. isPowered' = (a \in power) \/ isPowered' = isPowered
      BY <1>2
    <3>2. isPowered \in BOOLEAN /\ (a \in power) \in BOOLEAN
      BY <1>1 DEF AdapterTypeOK
    <3>3. MayDiscover(a) \in BOOLEAN
      BY DEF MayDiscover
    <3> QED
      BY <1>2, <3>1, <3>2, <3>3
  <2>2. scanning' \subseteq power /\ visible' \subseteq power
    BY <1>1, <1>2 DEF AdapterTypeOK
  <2> QED
    BY <1>1, <1>2, <1>3, <1>4, <2>1, <2>2 DEF AdapterTypeOK
<1>6. OnlyCurrentScans'
  BY <1>1, <1>2 DEF OnlyCurrentScans
<1>7. OnlyCurrentVisible'
  BY <1>1, <1>2 DEF OnlyCurrentVisible, AdapterTypeOK
<1> QED
  BY <1>5, <1>6, <1>7 DEF AdapterInv

LEMMA RemovedKeeps == ASSUME AdapterInv, slotAdapterRemoved PROVE AdapterInv'
<1>1. AdapterTypeOK /\ Stopped = {} /\ ("outdated" \in past \/ MadeInvisible = {}) /\ MadeInvisible \subseteq visible
  BY LetGo DEF AdapterInv
<1>2. Take({"removed"}) /\ UNCHANGED <<present, power, past>>
  BY DEF slotAdapterRemoved
<1>3. signals' \in Seq(BlueZSignals) /\ Len(signals') <= MaxSignals
  BY <1>1, <1>2, TakeTyped
<1>4. CASE clearAdapter
  <2>1. /\ adapter' = NoAdapter /\ isDiscovering' = FALSE /\ scanning' = {} /\ ticking' = TRUE /\ soon' = FALSE
        /\ visible' = MadeInvisible /\ UNCHANGED isPowered
    BY <1>1, <1>4 DEF clearAdapter
  <2>2. AdapterTypeOK'
    BY <1>1, <1>2, <1>3, <2>1 DEF AdapterTypeOK
  <2>3. OnlyCurrentScans' /\ OnlyCurrentVisible'
    BY <1>1, <1>2, <2>1 DEF OnlyCurrentScans, OnlyCurrentVisible
  <2> QED
    BY <2>2, <2>3 DEF AdapterInv
<1>5. CASE UNCHANGED <<adapter, isPowered, isDiscovering, ticking, soon, scanning, visible>>
  BY <1>2, <1>3, <1>5 DEF AdapterInv, AdapterTypeOK, OnlyCurrentScans, OnlyCurrentVisible
<1> QED
  BY <1>4, <1>5 DEF slotAdapterRemoved

\* That the current adapter has no power is noted as outdated when it has;
\* without power the adapter is not visible anyway.
LEMMA PropertyKeeps == ASSUME AdapterInv, slotPropertyChanged PROVE AdapterInv'
<1>1. AdapterTypeOK /\ OnlyCurrentScans /\ OnlyCurrentVisible
  BY DEF AdapterInv
<1>2. /\ Take({"on", "off"}) /\ isPowered' = (Head(signals).is = "on")
      /\ visible' = IF isPowered' THEN visible \cup ({adapter} \cap power) ELSE visible
      /\ UNCHANGED <<adapter, isDiscovering, ticking, soon, present, power, scanning>>
  BY DEF slotPropertyChanged, MadeVisibleAgain
<1>3. /\ past \subseteq past' /\ past' \subseteq Events
      /\ "outdated" \notin past' => isPowered' \/ adapter \notin power
  BY <1>1 DEF slotPropertyChanged, AdapterTypeOK, Events
<1>4. signals' \in Seq(BlueZSignals) /\ Len(signals') <= MaxSignals
  BY <1>1, <1>2, TakeTyped
<1>5. isPowered' \in BOOLEAN
  BY <1>2
<1>6. visible' \subseteq power
  BY <1>1, <1>2 DEF AdapterTypeOK
<1>7. AdapterTypeOK'
  BY <1>1, <1>2, <1>3, <1>4, <1>5, <1>6 DEF AdapterTypeOK
<1>8. OnlyCurrentScans'
  BY <1>1, <1>2 DEF OnlyCurrentScans
<1>9. OnlyCurrentVisible'
  <2>1. CASE "outdated" \in past'
    BY <2>1 DEF OnlyCurrentVisible
  <2>2. CASE "outdated" \notin past'
    <3>1. visible \subseteq {adapter} /\ visible' \subseteq {adapter}
      BY <1>1, <1>2, <1>3, <2>2 DEF OnlyCurrentVisible
    <3>2. isPowered' \/ visible' = {}
      BY <1>3, <1>6, <2>2, <3>1
    <3> QED
      BY <1>2, <3>1, <3>2 DEF OnlyCurrentVisible
  <2> QED
    BY <2>1, <2>2
<1> QED
  BY <1>7, <1>8, <1>9 DEF AdapterInv

-----------------------------------------------------------------------------
(* Timers and the page. *)

\* The part of AdapterTypeOK that starting and stopping do not touch.
LEMMA ScanKeeps ==
    ASSUME AdapterInv, startDiscovery \/ stopDiscovery,
           visible' \in {visible, MadeVisible, MadeInvisible}, past \subseteq past', past' \subseteq Events,
           UNCHANGED <<adapter, isPowered, soon, present, power, signals>>
    PROVE  AdapterInv'
<1>1. AdapterTypeOK /\ OnlyCurrentScans /\ OnlyCurrentVisible /\ Stopped = {}
  BY LetGo DEF AdapterInv
<1>2. /\ isDiscovering' \in BOOLEAN /\ (isDiscovering' => adapter # NoAdapter) /\ ticking' = TRUE
      /\ scanning' \subseteq power /\ \A a \in scanning' : a = adapter /\ isDiscovering'
  BY <1>1 DEF startDiscovery, stopDiscovery, MayDiscover, AdapterTypeOK, OnlyCurrentScans
<1>3. /\ visible' \subseteq power
      /\ visible \subseteq {adapter} => visible' \subseteq {adapter}
      /\ ~isPowered => visible' = visible
  BY <1>1 DEF MadeVisible, MadeInvisible, AdapterTypeOK
<1>4. AdapterTypeOK'
  BY <1>1, <1>2, <1>3 DEF AdapterTypeOK
<1>5. OnlyCurrentScans' /\ OnlyCurrentVisible'
  BY <1>1, <1>2, <1>3 DEF OnlyCurrentScans, OnlyCurrentVisible
<1> QED
  BY <1>4, <1>5 DEF AdapterInv

LEMMA TimerKeeps == ASSUME AdapterInv, Timeout \/ slotEnableDiscoverable PROVE AdapterInv'
<1>1. AdapterTypeOK /\ OnlyCurrentScans /\ OnlyCurrentVisible
  BY DEF AdapterInv
<1>2. CASE Timeout
  <2>1. /\ startDiscovery \/ stopDiscovery
        /\ UNCHANGED <<adapter, isPowered, soon, present, power, visible, signals, past>>
    BY <1>2 DEF Timeout
  <2>2. past \subseteq past' /\ past' \subseteq Events
    BY <1>1, <2>1 DEF AdapterTypeOK
  <2> QED
    BY <2>1, <2>2, ScanKeeps
<1>3. CASE slotEnableDiscoverable
  <2>1. /\ soon' = FALSE /\ visible' = MadeVisible
        /\ UNCHANGED <<adapter, isPowered, isDiscovering, ticking, present, power, scanning, signals, past>>
    BY <1>3 DEF slotEnableDiscoverable
  <2>2. /\ visible' \subseteq power
        /\ visible \subseteq {adapter} => visible' \subseteq {adapter}
        /\ ~isPowered => visible' = visible
    BY <1>1, <2>1 DEF MadeVisible, AdapterTypeOK
  <2> QED
    BY <1>1, <2>1, <2>2 DEF AdapterInv, AdapterTypeOK, OnlyCurrentScans, OnlyCurrentVisible
<1> QED
  BY <1>2, <1>3

LEMMA DiscoverKeeps == ASSUME AdapterInv, NEW value \in BOOLEAN, Discover(value) PROVE AdapterInv'
<1>1. AdapterTypeOK
  BY DEF AdapterInv
<1>2. /\ startDiscovery \/ stopDiscovery
      /\ visible' \in {visible, MadeVisible, MadeInvisible} /\ past' \in {past, past \cup {"hidden"}}
      /\ UNCHANGED <<adapter, isPowered, soon, present, power, signals>>
  BY DEF Discover
<1>3. past \subseteq past' /\ past' \subseteq Events
  BY <1>1, <1>2 DEF AdapterTypeOK, Events
<1> QED
  BY <1>2, <1>3, ScanKeeps

-----------------------------------------------------------------------------
(* BlueZ. *)

LEMMA PowerKeeps == ASSUME AdapterInv, NEW a \in Adapters, PowerChanges(a) PROVE AdapterInv'
<1>1. AdapterTypeOK /\ OnlyCurrentScans /\ OnlyCurrentVisible
  BY DEF AdapterInv
<1>2. /\ a \in present /\ power' = IF a \in power THEN power \ {a} ELSE power \cup {a}
      /\ scanning' = scanning \cap power' /\ visible' = visible \cap power'
      /\ UNCHANGED <<adapter, isPowered, isDiscovering, ticking, soon, present, past>>
      /\ IF a = adapter THEN Post(IF a \in power THEN "off" ELSE "on", a) ELSE UNCHANGED signals
  BY DEF PowerChanges
<1>3. signals' \in Seq(BlueZSignals) /\ Len(signals') <= MaxSignals
  <2>1. CASE a = adapter
    BY <1>1, <1>2, <2>1, PostTyped
  <2>2. CASE a # adapter
    BY <1>1, <1>2, <2>2 DEF AdapterTypeOK
  <2> QED
    BY <2>1, <2>2
<1>4. AdapterTypeOK'
  BY <1>1, <1>2, <1>3 DEF AdapterTypeOK
<1>5. OnlyCurrentScans' /\ OnlyCurrentVisible'
  BY <1>1, <1>2 DEF OnlyCurrentScans, OnlyCurrentVisible
<1> QED
  BY <1>4, <1>5 DEF AdapterInv

LEMMA OthersKeep ==
    ASSUME AdapterInv, NEW a \in Adapters, DefaultChanges(a) \/ AdapterGoes(a) \/ AdapterComes(a)
    PROVE  AdapterInv'
<1>1. AdapterTypeOK /\ OnlyCurrentScans /\ OnlyCurrentVisible
  BY DEF AdapterInv
<1>2. /\ UNCHANGED <<adapter, isPowered, isDiscovering, ticking, soon, past>>
      /\ present' \subseteq Adapters /\ power' \subseteq present'
      /\ scanning' \subseteq scanning /\ scanning' \subseteq power'
      /\ visible' \subseteq visible /\ visible' \subseteq power'
  BY <1>1 DEF DefaultChanges, AdapterGoes, AdapterComes, AdapterTypeOK
<1>3. signals' \in Seq(BlueZSignals) /\ Len(signals') <= MaxSignals
  <2>1. CASE DefaultChanges(a)
    BY <1>1, <2>1, PostTyped DEF DefaultChanges
  <2>2. CASE AdapterGoes(a)
    BY <1>1, <2>2, PostTyped DEF AdapterGoes
  <2>3. CASE AdapterComes(a)
    BY <1>1, <2>3 DEF AdapterComes, AdapterTypeOK
  <2> QED
    BY <2>1, <2>2, <2>3
<1>4. AdapterTypeOK'
  BY <1>1, <1>2, <1>3 DEF AdapterTypeOK
<1>5. OnlyCurrentScans' /\ OnlyCurrentVisible'
  BY <1>1, <1>2 DEF OnlyCurrentScans, OnlyCurrentVisible
<1> QED
  BY <1>4, <1>5 DEF AdapterInv

LEMMA HideKeeps == ASSUME AdapterInv, NEW a \in Adapters, OthersHide(a) PROVE AdapterInv'
<1>1. /\ UNCHANGED <<adapter, isPowered, isDiscovering, ticking, soon, present, power, scanning, signals>>
      /\ visible' \subseteq visible /\ past \subseteq past' /\ past' \subseteq Events
  BY DEF OthersHide, AdapterInv, AdapterTypeOK, Events
<1> QED
  BY <1>1 DEF AdapterInv, AdapterTypeOK, OnlyCurrentScans, OnlyCurrentVisible

LEMMA AdapterInvHolds == AdapterSpec => []AdapterInv
<1>1. AdapterInit => AdapterInv
  BY InitAdapter
<1>2. AdapterInv /\ [AdapterNext]_adapterVars => AdapterInv'
  <2> SUFFICES ASSUME AdapterInv, [AdapterNext]_adapterVars PROVE AdapterInv'
    OBVIOUS
  <2>1. CASE HandleSignal
    BY <2>1, DefaultKeeps, RemovedKeeps, PropertyKeeps DEF HandleSignal
  <2>2. CASE Timeout \/ slotEnableDiscoverable
    BY <2>2, TimerKeeps
  <2>3. CASE Discover(TRUE) \/ Discover(FALSE)
    BY <2>3, DiscoverKeeps
  <2>4. ASSUME NEW a \in Adapters, PowerChanges(a) PROVE AdapterInv'
    BY <2>4, PowerKeeps
  <2>5. ASSUME NEW a \in Adapters, DefaultChanges(a) \/ AdapterGoes(a) \/ AdapterComes(a) PROVE AdapterInv'
    BY <2>5, OthersKeep
  <2>6. CASE UNCHANGED adapterVars
    BY <2>6 DEF adapterVars, AdapterInv, AdapterTypeOK, OnlyCurrentScans, OnlyCurrentVisible
  <2>7. ASSUME NEW a \in Adapters, OthersHide(a) PROVE AdapterInv'
    BY <2>7, HideKeeps
  <2> QED
    BY <2>1, <2>2, <2>3, <2>4, <2>5, <2>6, <2>7 DEF AdapterNext
<1> QED
  BY <1>1, <1>2, PTL DEF AdapterSpec

-----------------------------------------------------------------------------
(* Theorems. *)

\* Types; the model never thinks that it scans without an adapter.
THEOREM AdapterTypeCorrect == AdapterSpec => []AdapterTypeOK
<1>1. AdapterInv => AdapterTypeOK
  BY DEF AdapterInv
<1> QED
  BY <1>1, AdapterInvHolds, PTL

\* No former adapter is left scanning, and none discoverable by a model that
\* was told the truth.
THEOREM NothingLeftOn == AdapterSpec => []LeavesNothingOn
<1>1. AdapterInv => LeavesNothingOn
  BY DEF AdapterInv, OnlyCurrentScans, OnlyCurrentVisible, LeavesNothingOn
<1> QED
  BY <1>1, AdapterInvHolds, PTL

-----------------------------------------------------------------------------
(* What KeepsScanning and BecomesDiscoverable need besides signals that are   *)
(* handled and a timer that goes off.                                         *)

\* A power was signalled and not handled yet.
PowerPosted == \E i \in 1..Len(signals) : signals[i].is \in {"on", "off"}

\* The timer that starts scans runs while there is an adapter.
TimerGoesOn == adapter # NoAdapter => ticking

\* The model knows that its adapter has power, or is about to hear of a power.
PowerTold == "misled" \notin past /\ adapter \in power => isPowered \/ PowerPosted

\* An adapter with power is discoverable, or the model is about to hear of a
\* power, on which it makes it so.
VisibleOrTold ==
    past \cap {"misled", "hidden"} = {} /\ adapter \in power => adapter \in visible \/ PowerPosted

Prospects == TimerGoesOn /\ PowerTold /\ VisibleOrTold

LEMMA PostedStays ==
    ASSUME AdapterTypeOK, NEW is \in {"default", "removed", "on", "off"}, NEW a \in Adapters, Post(is, a)
    PROVE  PowerPosted \/ is \in {"on", "off"} => PowerPosted'
<1> DEFINE s == [is |-> is, of |-> a]
<1>1. signals \in Seq(BlueZSignals) /\ s \in BlueZSignals /\ signals' = Append(signals, s) /\ s.is = is
  BY DEF AdapterTypeOK, BlueZSignals, Post
<1> HIDE DEF s
<1>2. /\ Len(signals') = Len(signals) + 1 /\ Len(signals) \in Nat
      /\ signals'[Len(signals) + 1] = s
      /\ \A i \in 1..Len(signals) : signals'[i] = signals[i]
  BY <1>1
<1>3. \A i \in 1..Len(signals) : i \in 1..Len(signals')
  BY <1>2
<1>4. Len(signals) + 1 \in 1..Len(signals')
  BY <1>2
<1> QED
  BY <1>1, <1>2, <1>3, <1>4 DEF PowerPosted

\* What waits behind the signal that is handled goes on waiting.
LEMMA BehindStays ==
    ASSUME AdapterTypeOK, NEW is, Take(is)
    PROVE  /\ (\E i \in 2..Len(signals) : signals[i].is \in {"on", "off"}) => PowerPosted'
           /\ is \cap {"on", "off"} = {} /\ PowerPosted => PowerPosted'
<1>1. signals \in Seq(BlueZSignals) /\ signals # <<>> /\ signals' = Tail(signals)
  BY DEF AdapterTypeOK, Take
<1>2. /\ Len(signals') = Len(signals) - 1 /\ Len(signals) \in Nat /\ Head(signals) = signals[1]
      /\ \A i \in 1..Len(signals') : signals'[i] = signals[i + 1]
  BY <1>1, HeadTailProperties, LenProperties, EmptySeq
<1>3. ASSUME NEW i \in 2..Len(signals), signals[i].is \in {"on", "off"} PROVE PowerPosted'
  <2>1. i - 1 \in 1..Len(signals') /\ (i - 1) + 1 = i
    BY <1>2
  <2>2. signals'[i - 1] = signals[i]
    BY <1>2, <2>1
  <2> QED
    BY <1>3, <2>1, <2>2 DEF PowerPosted
<1>4. ASSUME is \cap {"on", "off"} = {}, PowerPosted PROVE PowerPosted'
  <2>1. PICK i \in 1..Len(signals) : signals[i].is \in {"on", "off"}
    BY <1>4 DEF PowerPosted
  <2>2. i # 1
    BY <1>2, <1>4, <2>1 DEF Take
  <2>3. i \in 2..Len(signals)
    BY <1>2, <2>2
  <2> QED
    BY <1>3, <2>1, <2>3
<1> QED
  BY <1>3, <1>4

\* Steps that leave the power and the adapter as they are, and drop no signal of
\* a power.
LEMMA ProspectsStay ==
    ASSUME Prospects, UNCHANGED <<adapter, isPowered>>, past \subseteq past',
           adapter \in power' => adapter \in power,
           PowerPosted => PowerPosted', ticking => ticking',
           adapter \in visible /\ adapter \in power' => adapter \in visible' \/ "hidden" \in past'
    PROVE  Prospects'
<1>1. TimerGoesOn'
  BY DEF Prospects, TimerGoesOn
<1>2. PowerTold'
  BY DEF Prospects, PowerTold
<1>3. VisibleOrTold'
  <2>1. past' \cap {"misled", "hidden"} = {} =>
          past \cap {"misled", "hidden"} = {} /\ "hidden" \notin past'
    OBVIOUS
  <2> QED
    BY <2>1 DEF Prospects, VisibleOrTold
<1> QED
  BY <1>1, <1>2, <1>3 DEF Prospects

LEMMA HandlingProspects == ASSUME AdapterTypeOK, Prospects, HandleSignal PROVE Prospects'
<1>1. CASE slotDefaultAdapterChanged
  <2>1. PICK a : a = Head(signals).of
    OBVIOUS
  <2>2. /\ adapter' = a /\ ticking' = TRUE /\ UNCHANGED power
        /\ isPowered' = IF a \in present THEN a \in power ELSE isPowered
        /\ visible' = MadeInvisible \cup ({a} \cap power)
    BY <1>1, <2>1 DEF slotDefaultAdapterChanged, SetAdapter
  <2>3. a \in power => a \in present
    BY DEF AdapterTypeOK
  <2>4. a \in power => isPowered' /\ a \in visible'
    BY <2>2, <2>3
  <2> QED
    BY <2>2, <2>4 DEF Prospects, TimerGoesOn, PowerTold, VisibleOrTold
<1>2. CASE slotAdapterRemoved
  <2>1. Take({"removed"}) /\ UNCHANGED <<power, past>>
    BY <1>2 DEF slotAdapterRemoved
  <2>2. PowerPosted => PowerPosted'
    <3>1. {"removed"} \cap {"on", "off"} = {}
      OBVIOUS
    <3> QED
      BY <2>1, <3>1, BehindStays
  <2>3. CASE clearAdapter
    <3>1. adapter' = NoAdapter /\ adapter' \notin power'
      BY <2>1, <2>3, AdapterAssumption DEF clearAdapter, AdapterTypeOK
    <3> QED
      BY <3>1 DEF Prospects, TimerGoesOn, PowerTold, VisibleOrTold
  <2>4. CASE UNCHANGED <<adapter, isPowered, ticking, visible>>
    BY <2>1, <2>2, <2>4, ProspectsStay
  <2> QED
    BY <1>2, <2>3, <2>4 DEF slotAdapterRemoved
<1>3. CASE slotPropertyChanged
  <2>1. /\ Take({"on", "off"}) /\ UNCHANGED <<adapter, ticking, power>>
        /\ visible' = IF isPowered' THEN visible \cup ({adapter} \cap power) ELSE visible
        /\ isPowered' \in BOOLEAN
    BY <1>3 DEF slotPropertyChanged, MadeVisibleAgain
  <2>2. TimerGoesOn'
    BY <2>1 DEF Prospects, TimerGoesOn
  <2>3. CASE PowerPosted'
    BY <2>2, <2>3 DEF Prospects, PowerTold, VisibleOrTold
  <2>4. CASE ~PowerPosted'
    <3>1. ~\E i \in 2..Len(signals) : signals[i].is \in {"on", "off"}
      BY <2>1, <2>4, BehindStays
    <3>2. "misled" \notin past' => isPowered' \/ adapter \notin power
      BY <1>3, <3>1 DEF slotPropertyChanged
    <3>3. "misled" \notin past' /\ adapter \in power => isPowered' /\ adapter \in visible'
      BY <2>1, <3>2
    <3> QED
      BY <2>1, <2>2, <3>3 DEF Prospects, PowerTold, VisibleOrTold
  <2> QED
    BY <2>3, <2>4
<1> QED
  BY <1>1, <1>2, <1>3 DEF HandleSignal

LEMMA BlueZProspects ==
    ASSUME AdapterTypeOK, Prospects, NEW a \in Adapters,
           PowerChanges(a) \/ DefaultChanges(a) \/ AdapterGoes(a) \/ AdapterComes(a)
    PROVE  Prospects'
<1>1. CASE PowerChanges(a)
  <2>1. /\ power' = IF a \in power THEN power \ {a} ELSE power \cup {a}
        /\ visible' = visible \cap power'
        /\ UNCHANGED <<adapter, isPowered, ticking, past>>
        /\ IF a = adapter THEN Post(IF a \in power THEN "off" ELSE "on", a) ELSE UNCHANGED signals
    BY <1>1 DEF PowerChanges
  <2>2. CASE a = adapter
    <3>1. PICK is \in {"on", "off"} : is = IF a \in power THEN "off" ELSE "on"
      OBVIOUS
    <3>2. Post(is, a)
      BY <2>1, <2>2, <3>1
    <3>3. PowerPosted'
      BY <3>1, <3>2, PostedStays
    <3> QED
      BY <2>1, <3>3 DEF Prospects, TimerGoesOn, PowerTold, VisibleOrTold
  <2>3. CASE a # adapter
    <3>1. UNCHANGED signals /\ (adapter \in power' => adapter \in power)
      BY <2>1, <2>3
    <3>2. PowerPosted => PowerPosted'
      BY <3>1 DEF PowerPosted
    <3> QED
      BY <2>1, <3>1, <3>2, ProspectsStay
  <2> QED
    BY <2>2, <2>3
<1>2. CASE DefaultChanges(a) \/ AdapterGoes(a)
  <2>1. /\ UNCHANGED <<adapter, isPowered, ticking, past>> /\ power' \subseteq power
        /\ \A x \in visible : x \in power' => x \in visible'
        /\ Post("default", a) \/ Post("removed", a)
    BY <1>2 DEF DefaultChanges, AdapterGoes
  <2>2. PowerPosted => PowerPosted'
    BY <2>1, PostedStays
  <2> QED
    BY <2>1, <2>2, ProspectsStay
<1>3. CASE AdapterComes(a)
  <2>1. UNCHANGED <<adapter, isPowered, ticking, past, power, visible, signals>>
    BY <1>3 DEF AdapterComes
  <2>2. PowerPosted => PowerPosted'
    BY <2>1 DEF PowerPosted
  <2> QED
    BY <2>1, <2>2, ProspectsStay
<1> QED
  BY <1>1, <1>2, <1>3

LEMMA OthersHideProspects ==
    ASSUME Prospects, NEW a \in Adapters, OthersHide(a)
    PROVE  Prospects'
<1>1. /\ UNCHANGED <<adapter, isPowered, ticking, power, signals>>
      /\ past \subseteq past' /\ visible' = visible \ {a} /\ (a = adapter => "hidden" \in past')
  BY DEF OthersHide
<1>2. PowerPosted => PowerPosted'
  BY <1>1 DEF PowerPosted
<1> QED
  BY <1>1, <1>2, ProspectsStay

\* Timers and the page hide an adapter only at the page's wish.
LEMMA OwnProspects ==
    ASSUME AdapterTypeOK, Prospects,
           Timeout \/ slotEnableDiscoverable \/ Discover(TRUE) \/ Discover(FALSE) \/ UNCHANGED adapterVars
    PROVE  Prospects'
<1>1. UNCHANGED <<adapter, isPowered, power, signals>>
  BY DEF Timeout, slotEnableDiscoverable, Discover, adapterVars
<1>2. past \subseteq past' /\ (ticking => ticking')
  BY DEF Timeout, slotEnableDiscoverable, Discover, startDiscovery, stopDiscovery, adapterVars
<1>3. visible \subseteq visible' \/ "hidden" \in past'
  BY DEF Timeout, slotEnableDiscoverable, Discover, MadeVisible, adapterVars
<1>4. PowerPosted => PowerPosted'
  BY <1>1 DEF PowerPosted
<1> QED
  BY <1>1, <1>2, <1>3, <1>4, ProspectsStay

\* While there is an adapter its timer goes on, and a power the model has not
\* heard of is under way to it: scanning again and becoming discoverable only
\* take that signals are handled and the timer goes off.
THEOREM AlwaysProspects == AdapterSpec => []Prospects
<1>1. AdapterInit => Prospects
  BY AdapterAssumption DEF AdapterInit, Prospects, TimerGoesOn, PowerTold, VisibleOrTold
<1>2. AdapterInv /\ Prospects /\ [AdapterNext]_adapterVars => Prospects'
  <2> SUFFICES ASSUME AdapterTypeOK, Prospects, [AdapterNext]_adapterVars PROVE Prospects'
    BY DEF AdapterInv
  <2>1. CASE HandleSignal
    BY <2>1, HandlingProspects
  <2>2. CASE Timeout \/ slotEnableDiscoverable \/ Discover(TRUE) \/ Discover(FALSE) \/ UNCHANGED adapterVars
    BY <2>2, OwnProspects
  <2>3. ASSUME NEW a \in Adapters,
               PowerChanges(a) \/ DefaultChanges(a) \/ AdapterGoes(a) \/ AdapterComes(a)
        PROVE  Prospects'
    BY <2>3, BlueZProspects
  <2>4. ASSUME NEW a \in Adapters, OthersHide(a) PROVE Prospects'
    BY <2>4, OthersHideProspects
  <2> QED
    BY <2>1, <2>2, <2>3, <2>4 DEF AdapterNext
<1> QED
  BY <1>1, <1>2, AdapterInvHolds, PTL DEF AdapterSpec
=============================================================================
