------------------------- MODULE WiFiManager_proofs -------------------------
(***************************************************************************)
(* Proofs about WiFiManager for any number of calls and values under way.  *)
(* Power and calls are proved apart, since no action changes both: the     *)
(* last script under way carries the power of the radio, and when there is *)
(* none the page's value is the radio's or still on its way to it; a call  *)
(* not made yet is nowhere, and every service is that of a call made.  The *)
(* calls then refine OneReply: what is kept has had no answer.             *)
(***************************************************************************)
EXTENDS WiFiManager, SequenceTheorems, TLAPS

PowerTyped ==
    /\ wifi \in Values \cup {"absent"}
    /\ powered \in Values
    /\ scripts \in Seq(Values) /\ echoes \in Seq(Values) /\ wishes \in Seq(Values)
    /\ Len(scripts) + Len(echoes) + Len(wishes) <= MaxToggles
    /\ loaded \in BOOLEAN /\ refused \in BOOLEAN

ScriptsTellPower == scripts # <<>> => scripts[Len(scripts)] = AsPower(wifi)

Agreed ==
    loaded /\ ~refused /\ wifi # "absent" /\ scripts = <<>> =>
      \/ powered = wifi
      \/ echoes # <<>> /\ echoes[Len(echoes)] = powered
      \/ echoes = <<>> /\ wishes # <<>> /\ wishes[Len(wishes)] = powered

PowerInv == PowerTyped /\ ScriptsTellPower /\ Agreed

CallsTyped ==
    /\ made \in 0..MaxWifiCalls
    /\ mCallIds \subseteq WifiCalls
    /\ mConnecting \in BOOLEAN
    /\ connectCall \in 0..MaxWifiCalls
    /\ toConnect \in 0..MaxWifiCalls
    /\ doomed \subseteq WifiCalls
    /\ answered \in [WifiCalls -> Nat]

OnlyMade ==
    /\ \A c \in mCallIds : c <= made
    /\ \A s \in doomed : s <= made
    /\ connectCall <= made
    /\ \A c \in WifiCalls : c > made => answered[c] = 0

\* A call is answered, waits for a scan, or is being attempted; only one of them.
Where(c, ans, waits, attempted) ==
    \/ ans = 1 /\ ~waits /\ ~attempted
    \/ ans = 0 /\ waits /\ ~attempted
    \/ ans = 0 /\ ~waits /\ attempted

Placed ==
    \A c \in 1..made : Where(c, answered[c], c \in mCallIds, mConnecting /\ c = connectCall)

CallsInv == CallsTyped /\ OnlyMade /\ Placed /\ AttemptHasService

-----------------------------------------------------------------------------
(* Power. *)

\* A value at the end of a queue is its last one; the others stay.
LEMMA LastOfAppend ==
    ASSUME NEW q \in Seq(Values), NEW v \in Values
    PROVE  /\ Append(q, v) \in Seq(Values) /\ Append(q, v) # <<>>
           /\ Len(Append(q, v)) = Len(q) + 1 /\ Len(q) \in Nat
           /\ Append(q, v)[Len(Append(q, v))] = v
OBVIOUS

\* Taking the first value leaves the last one, unless it was the same.
LEMMA LastOfTail ==
    ASSUME NEW q \in Seq(Values), q # <<>>
    PROVE  /\ Tail(q) \in Seq(Values) /\ Head(q) \in Values
           /\ Len(Tail(q)) = Len(q) - 1 /\ Len(q) \in Nat
           /\ Tail(q) = <<>> => Head(q) = q[Len(q)]
           /\ Tail(q) # <<>> => Tail(q)[Len(Tail(q))] = q[Len(q)]
<1>1. /\ Head(q) \in Values /\ Tail(q) \in Seq(Values) /\ Len(Tail(q)) = Len(q) - 1
      /\ \A i \in 1..Len(Tail(q)) : Tail(q)[i] = q[i + 1]
  BY HeadTailProperties
<1>2. Len(q) \in Nat /\ Len(q) # 0 /\ Head(q) = q[1]
  BY EmptySeq, LenProperties
<1>3. ASSUME Tail(q) = <<>> PROVE Head(q) = q[Len(q)]
  <2>1. Len(Tail(q)) = 0
    BY <1>1, <1>3, EmptySeq
  <2>2. Len(q) - 1 = 0
    BY <1>1, <2>1
  <2>3. Len(q) = 1
    BY <1>2, <2>2
  <2> QED
    BY <1>2, <2>3
<1>4. ASSUME Tail(q) # <<>> PROVE Tail(q)[Len(Tail(q))] = q[Len(q)]
  <2>1. Len(Tail(q)) # 0 /\ Len(Tail(q)) \in Nat
    BY <1>1, <1>4, EmptySeq, LenProperties
  <2>2. Len(Tail(q)) \in 1..Len(Tail(q)) /\ Len(Tail(q)) + 1 = Len(q)
    BY <1>1, <1>2, <2>1
  <2> QED
    BY <1>1, <2>2
<1> QED
  BY <1>1, <1>2, <1>3, <1>4

\* Whatever changes the radio tells the page, at the end of the scripts.
LEMMA TellKeeps ==
    ASSUME PowerInv, wifi' \in Values \cup {"absent"}, loaded' \in BOOLEAN, initialize,
           UNCHANGED <<powered, echoes, wishes, refused>>
    PROVE  PowerInv'
<1>1. PowerTyped /\ AsPower(wifi') \in Values
  BY DEF PowerInv, AsPower, Values
<1>2. scripts' = Append(scripts, AsPower(wifi')) /\ Len(scripts) + Len(echoes) + Len(wishes) < MaxToggles
  BY DEF initialize, Room
<1>3. scripts \in Seq(Values) /\ Len(echoes) \in Nat /\ Len(wishes) \in Nat /\ MaxToggles \in Nat
  BY <1>1, WifiBoundsAssumption DEF PowerTyped
<1>4. /\ scripts' \in Seq(Values) /\ scripts' # <<>> /\ Len(scripts') = Len(scripts) + 1 /\ Len(scripts) \in Nat
      /\ scripts'[Len(scripts')] = AsPower(wifi')
  BY <1>1, <1>2, <1>3, LastOfAppend
<1>5. Len(scripts') + Len(echoes) + Len(wishes) <= MaxToggles
  BY <1>2, <1>3, <1>4
<1>6. PowerTyped'
  BY <1>1, <1>4, <1>5 DEF PowerTyped
<1>7. AsPower(wifi)' = AsPower(wifi')
  BY DEF AsPower
<1>8. ScriptsTellPower' /\ Agreed'
  BY <1>4, <1>7 DEF ScriptsTellPower, Agreed
<1> QED
  BY <1>6, <1>8 DEF PowerInv

LEMMA PageLoadsKeeps == ASSUME PowerInv, PageLoads PROVE PowerInv'
<1>1. /\ loaded' = FALSE /\ powered' = "off" /\ scripts' \in {scripts, <<>>}
      /\ UNCHANGED <<wifi, echoes, wishes, refused>>
  BY DEF PageLoads
<1>2. PowerTyped /\ ScriptsTellPower
  BY DEF PowerInv
<1>3. scripts' \in Seq(Values) /\ Len(scripts') <= Len(scripts)
  <2>1. scripts \in Seq(Values) /\ <<>> \in Seq(Values) /\ Len(<<>>) = 0
    BY <1>2 DEF PowerTyped
  <2>2. Len(scripts) \in Nat
    BY <2>1
  <2>3. CASE scripts' = scripts
    BY <2>1, <2>2, <2>3
  <2>4. CASE scripts' = <<>>
    BY <2>1, <2>2, <2>4
  <2> QED
    BY <1>1, <2>3, <2>4
<1>4. Len(scripts') \in Nat /\ Len(scripts) \in Nat /\ Len(echoes) \in Nat /\ Len(wishes) \in Nat
  BY <1>2, <1>3 DEF PowerTyped
<1>5. Len(scripts') + Len(echoes) + Len(wishes) <= MaxToggles
  BY <1>2, <1>3, <1>4, WifiBoundsAssumption DEF PowerTyped
<1>6. PowerTyped'
  BY <1>1, <1>2, <1>3, <1>5 DEF PowerTyped, Values
<1>7. ScriptsTellPower' /\ Agreed'
  BY <1>1, <1>2 DEF ScriptsTellPower, Agreed, AsPower
<1> QED
  BY <1>6, <1>7 DEF PowerInv

LEMMA RunScriptKeeps == ASSUME PowerInv, RunScript PROVE PowerInv'
<1>1. /\ scripts # <<>> /\ powered' = Head(scripts) /\ echoes' = Append(echoes, Head(scripts))
      /\ scripts' = Tail(scripts) /\ UNCHANGED <<wifi, wishes, loaded, refused>>
  BY DEF RunScript, PageSetPowered
<1>2. PowerTyped /\ ScriptsTellPower
  BY DEF PowerInv
<1>3. scripts \in Seq(Values) /\ echoes \in Seq(Values) /\ Len(wishes) \in Nat
  BY <1>2 DEF PowerTyped
<1>4. /\ scripts' \in Seq(Values) /\ Head(scripts) \in Values /\ Len(scripts') = Len(scripts) - 1
      /\ Len(scripts) \in Nat
      /\ scripts' # <<>> => scripts'[Len(scripts')] = scripts[Len(scripts)]
  BY <1>1, <1>3, LastOfTail
<1>5. /\ echoes' \in Seq(Values) /\ echoes' # <<>> /\ Len(echoes') = Len(echoes) + 1 /\ Len(echoes) \in Nat
      /\ echoes'[Len(echoes')] = powered'
  BY <1>1, <1>3, <1>4, LastOfAppend
<1>6. PowerTyped'
  BY <1>1, <1>2, <1>3, <1>4, <1>5 DEF PowerTyped
<1>7. ScriptsTellPower' /\ Agreed'
  BY <1>1, <1>2, <1>4, <1>5 DEF ScriptsTellPower, Agreed, AsPower
<1> QED
  BY <1>6, <1>7 DEF PowerInv

LEMMA UserSetsKeeps == ASSUME PowerInv, UserSets PROVE PowerInv'
<1>1. PICK v \in Values : powered' = v /\ echoes' = Append(echoes, v)
  BY DEF UserSets, PageSetPowered
<1>2. /\ Len(scripts) + Len(echoes) + Len(wishes) < MaxToggles
      /\ UNCHANGED <<wifi, scripts, wishes, loaded, refused>>
  BY DEF UserSets, Room
<1>3. PowerTyped /\ ScriptsTellPower
  BY DEF PowerInv
<1>4. echoes \in Seq(Values) /\ Len(wishes) \in Nat /\ Len(scripts) \in Nat /\ MaxToggles \in Nat
  BY <1>3, WifiBoundsAssumption DEF PowerTyped
<1>5. /\ echoes' \in Seq(Values) /\ echoes' # <<>> /\ Len(echoes') = Len(echoes) + 1 /\ Len(echoes) \in Nat
      /\ echoes'[Len(echoes')] = powered'
  BY <1>1, <1>4, LastOfAppend
<1>6. Len(scripts) + Len(echoes') + Len(wishes) <= MaxToggles
  BY <1>2, <1>4, <1>5
<1>7. PowerTyped'
  BY <1>1, <1>2, <1>3, <1>5, <1>6 DEF PowerTyped
<1>8. ScriptsTellPower' /\ Agreed'
  BY <1>2, <1>3, <1>5 DEF ScriptsTellPower, Agreed, AsPower
<1> QED
  BY <1>7, <1>8 DEF PowerInv

\* The page's value moves on from the echoes to the wishes; without the
\* technology it is dropped, and the page is told when that comes.
LEMMA SetPoweredKeeps == ASSUME PowerInv, SetPowered PROVE PowerInv'
<1>1. /\ echoes # <<>> /\ echoes' = Tail(echoes)
      /\ wishes' = IF wifi = "absent" THEN wishes ELSE Append(wishes, Head(echoes))
      /\ UNCHANGED <<wifi, powered, scripts, loaded, refused>>
  BY DEF SetPowered
<1>2. PowerTyped /\ ScriptsTellPower /\ Agreed
  BY DEF PowerInv
<1>3. wishes \in Seq(Values) /\ echoes \in Seq(Values) /\ Len(scripts) \in Nat /\ MaxToggles \in Nat
  BY <1>2, WifiBoundsAssumption DEF PowerTyped
<1>4. /\ echoes' \in Seq(Values) /\ Head(echoes) \in Values /\ Len(echoes') = Len(echoes) - 1
      /\ Len(echoes) \in Nat
      /\ echoes' = <<>> => Head(echoes) = echoes[Len(echoes)]
      /\ echoes' # <<>> => echoes'[Len(echoes')] = echoes[Len(echoes)]
  BY <1>1, <1>3, LastOfTail
<1>5. CASE wifi = "absent"
  <2>1. PowerTyped'
    BY <1>1, <1>2, <1>3, <1>4, <1>5 DEF PowerTyped
  <2>2. ScriptsTellPower' /\ Agreed'
    BY <1>1, <1>2, <1>5 DEF ScriptsTellPower, Agreed, AsPower
  <2> QED
    BY <2>1, <2>2 DEF PowerInv
<1>6. CASE wifi # "absent"
  <2>1. /\ wishes' \in Seq(Values) /\ wishes' # <<>> /\ Len(wishes') = Len(wishes) + 1 /\ Len(wishes) \in Nat
        /\ wishes'[Len(wishes')] = Head(echoes)
    BY <1>1, <1>3, <1>4, <1>6, LastOfAppend
  <2>2. Len(scripts) + Len(echoes') + Len(wishes') <= MaxToggles
    BY <1>2, <1>3, <1>4, <2>1 DEF PowerTyped
  <2>3. PowerTyped'
    BY <1>1, <1>2, <1>4, <2>1, <2>2 DEF PowerTyped
  <2>4. ScriptsTellPower' /\ Agreed'
    BY <1>1, <1>2, <1>4, <2>1 DEF ScriptsTellPower, Agreed, AsPower
  <2> QED
    BY <2>3, <2>4 DEF PowerInv
<1> QED
  BY <1>5, <1>6

LEMMA RequestGrantedKeeps == ASSUME PowerInv, RequestGranted PROVE PowerInv'
<1>1. /\ wishes # <<>> /\ wishes' = Tail(wishes)
      /\ IF wifi \in {"absent", Head(wishes)}
         THEN UNCHANGED <<wifi, scripts>>
         ELSE wifi' = Head(wishes) /\ scripts' = Append(scripts, wifi')
      /\ UNCHANGED <<powered, echoes, loaded, refused>>
  BY DEF RequestGranted
<1>2. PowerTyped /\ ScriptsTellPower /\ Agreed
  BY DEF PowerInv
<1>3. wishes \in Seq(Values) /\ scripts \in Seq(Values) /\ Len(echoes) \in Nat /\ MaxToggles \in Nat
  BY <1>2, WifiBoundsAssumption DEF PowerTyped
<1>4. /\ wishes' \in Seq(Values) /\ Head(wishes) \in Values /\ Len(wishes') = Len(wishes) - 1
      /\ Len(wishes) \in Nat
      /\ wishes' = <<>> => Head(wishes) = wishes[Len(wishes)]
      /\ wishes' # <<>> => wishes'[Len(wishes')] = wishes[Len(wishes)]
  BY <1>1, <1>3, LastOfTail
<1>5. CASE wifi \in {"absent", Head(wishes)}
  <2>1. UNCHANGED <<wifi, scripts>>
    BY <1>1, <1>5
  <2>2. PowerTyped'
    BY <1>1, <1>2, <1>3, <1>4, <2>1 DEF PowerTyped
  <2>3. ScriptsTellPower' /\ Agreed'
    BY <1>1, <1>2, <1>4, <1>5, <2>1 DEF ScriptsTellPower, Agreed, AsPower
  <2> QED
    BY <2>2, <2>3 DEF PowerInv
<1>6. CASE wifi \notin {"absent", Head(wishes)}
  <2>1. wifi' = Head(wishes) /\ scripts' = Append(scripts, wifi') /\ wifi' \in Values
    BY <1>1, <1>4, <1>6
  <2>2. /\ scripts' \in Seq(Values) /\ scripts' # <<>> /\ Len(scripts') = Len(scripts) + 1
        /\ Len(scripts) \in Nat /\ scripts'[Len(scripts')] = wifi'
    BY <1>3, <2>1, LastOfAppend
  <2>3. PowerTyped'
    BY <1>1, <1>2, <1>3, <1>4, <2>1, <2>2 DEF PowerTyped
  <2>4. AsPower(wifi)' = wifi'
    BY <2>1 DEF AsPower, Values
  <2>5. ScriptsTellPower' /\ Agreed'
    BY <2>2, <2>4 DEF ScriptsTellPower, Agreed
  <2> QED
    BY <2>3, <2>5 DEF PowerInv
<1> QED
  BY <1>5, <1>6

LEMMA RequestRefusedKeeps == ASSUME PowerInv, RequestRefused PROVE PowerInv'
<1>1. /\ wishes # <<>> /\ wishes' = Tail(wishes) /\ refused' = TRUE
      /\ UNCHANGED <<wifi, powered, scripts, echoes, loaded>>
  BY DEF RequestRefused
<1>2. PowerTyped /\ ScriptsTellPower
  BY DEF PowerInv
<1>3. wishes \in Seq(Values) /\ Len(echoes) \in Nat /\ Len(scripts) \in Nat /\ MaxToggles \in Nat
  BY <1>2, WifiBoundsAssumption DEF PowerTyped
<1>4. wishes' \in Seq(Values) /\ Len(wishes') = Len(wishes) - 1 /\ Len(wishes) \in Nat
  BY <1>1, <1>3, LastOfTail
<1>5. PowerTyped'
  BY <1>1, <1>2, <1>3, <1>4 DEF PowerTyped
<1>6. ScriptsTellPower' /\ Agreed'
  BY <1>1, <1>2 DEF ScriptsTellPower, Agreed, AsPower
<1> QED
  BY <1>5, <1>6 DEF PowerInv

\* Every step of the system, those of the calls included.
LEMMA PowerKeeps == ASSUME PowerInv, [WifiNext]_wifiVars PROVE PowerInv'
<1>1. PowerTyped /\ ScriptsTellPower /\ Agreed
  BY DEF PowerInv
<1>2. CASE PageLoads
  BY <1>2, PageLoadsKeeps
<1>3. CASE PageLoaded
  <2>1. /\ wifi' \in Values \cup {"absent"} /\ loaded' \in BOOLEAN /\ initialize
        /\ UNCHANGED <<powered, echoes, wishes, refused>>
    BY <1>1, <1>3 DEF PageLoaded, PowerTyped
  <2> QED
    BY <2>1, TellKeeps
<1>4. CASE RunScript
  BY <1>4, RunScriptKeeps
<1>5. CASE UserSets
  BY <1>5, UserSetsKeeps
<1>6. CASE SetPowered
  BY <1>6, SetPoweredKeeps
<1>7. CASE RequestGranted
  BY <1>7, RequestGrantedKeeps
<1>8. CASE RequestRefused
  BY <1>8, RequestRefusedKeeps
<1>9. CASE OthersSwitch \/ technologiesChanged
  <2>1. /\ wifi' \in Values \cup {"absent"} /\ loaded' \in BOOLEAN /\ initialize
        /\ UNCHANGED <<powered, echoes, wishes, refused>>
    BY <1>1, <1>9 DEF OthersSwitch, technologiesChanged, TellsPage, PowerTyped
  <2> QED
    BY <2>1, TellKeeps
<1>10. CASE \/ RetrieveNetworks \/ ScanFinished \/ ConnectRejected \/ ConnectNetwork
            \/ FinishConnectionProcess \/ ServiceDeleted \/ UNCHANGED wifiVars
  <2>1. UNCHANGED <<wifi, powered, scripts, echoes, wishes, loaded, refused>>
    BY <1>10 DEF RetrieveNetworks, ScanFinished, ConnectRejected, ConnectNetwork,
                 FinishConnectionProcess, ServiceDeleted, wifiVars, powerVars
  <2> QED
    BY <1>1, <2>1 DEF PowerInv, PowerTyped, ScriptsTellPower, Agreed, AsPower
<1> QED
  BY <1>2, <1>3, <1>4, <1>5, <1>6, <1>7, <1>8, <1>9, <1>10 DEF WifiNext

-----------------------------------------------------------------------------
(* Calls. *)

\* A set of calls is answered, once each.
LEMMA AnswerFacts ==
    ASSUME NEW calls, answered \in [WifiCalls -> Nat], Answer(calls)
    PROVE  /\ answered' \in [WifiCalls -> Nat]
           /\ \A c \in WifiCalls : c \in calls => answered'[c] = answered[c] + 1
           /\ \A c \in WifiCalls : c \notin calls => answered'[c] = answered[c]
BY DEF Answer

LEMMA PlacedIsOnce ==
    ASSUME CallsTyped PROVE Placed <=> EachCallOnce
<1>1. made \in 0..MaxWifiCalls /\ answered \in [WifiCalls -> Nat]
  BY DEF CallsTyped
<1>2. \A c \in 1..made : c \in WifiCalls /\ answered[c] \in Nat
  BY <1>1, WifiBoundsAssumption DEF WifiCalls
<1>3. ASSUME NEW c \in 1..made
      PROVE  Where(c, answered[c], c \in mCallIds, mConnecting /\ c = connectCall) <=>
               answered[c] + (IF c \in mCallIds THEN 1 ELSE 0)
                           + (IF mConnecting /\ c = connectCall THEN 1 ELSE 0) = 1
  <2>1. answered[c] \in Nat
    BY <1>2
  <2>2. CASE c \in mCallIds /\ (mConnecting /\ c = connectCall)
    BY <2>1, <2>2 DEF Where
  <2>3. CASE c \in mCallIds /\ ~(mConnecting /\ c = connectCall)
    BY <2>1, <2>3 DEF Where
  <2>4. CASE c \notin mCallIds /\ (mConnecting /\ c = connectCall)
    BY <2>1, <2>4 DEF Where
  <2>5. CASE c \notin mCallIds /\ ~(mConnecting /\ c = connectCall)
    BY <2>1, <2>5 DEF Where
  <2> QED
    BY <2>2, <2>3, <2>4, <2>5
<1> QED
  BY <1>3 DEF Placed, EachCallOnce

\* The call of a step that makes one is new everywhere.
CallIsNew ==
    /\ made' = made + 1 /\ made' \in WifiCalls /\ made' \in 0..MaxWifiCalls
    /\ made' \notin mCallIds /\ made' \notin doomed /\ made' # connectCall /\ answered[made'] = 0
    /\ \A c \in 1..made : c \in WifiCalls /\ c # made'
    /\ \A c \in 1..made' : c \in 1..made \/ c = made'
    /\ \A c \in WifiCalls : c > made' => c > made /\ c # made'
    /\ \A c \in WifiCalls \cup {0} : c <= made => c <= made' /\ c # made'

LEMMA NewCallFacts ==
    ASSUME CallsInv, NewCall
    PROVE  CallIsNew
<1>1. CallsTyped /\ OnlyMade
  BY DEF CallsInv
<1>2. made \in Nat /\ made < MaxWifiCalls /\ made' = made + 1 /\ MaxWifiCalls \in Nat
  BY <1>1, WifiBoundsAssumption DEF CallsTyped, NewCall
<1>3. made' \in WifiCalls /\ made' \in 0..MaxWifiCalls /\ WifiCalls \subseteq Nat
  BY <1>2 DEF WifiCalls
<1>4. made' \notin mCallIds /\ made' \notin doomed /\ made' # connectCall
  BY <1>1, <1>2 DEF OnlyMade
<1>5. answered[made'] = 0
  BY <1>1, <1>2, <1>3 DEF OnlyMade
<1>6. \A c \in 1..made : c \in WifiCalls /\ c # made'
  BY <1>2 DEF WifiCalls
<1> QED
  BY <1>2, <1>3, <1>4, <1>5, <1>6 DEF CallIsNew

LEMMA RetrieveKeeps == ASSUME CallsInv, RetrieveNetworks PROVE CallsInv'
<1>1. CallsTyped /\ OnlyMade /\ Placed /\ AttemptHasService
  BY DEF CallsInv
<1>2. NewCall /\ UNCHANGED <<mConnecting, connectCall, toConnect, doomed>>
  BY DEF RetrieveNetworks
<1>3. CallIsNew
  BY <1>2, NewCallFacts
<1>4. connectCall \in WifiCalls \cup {0} /\ mCallIds \subseteq WifiCalls /\ doomed \subseteq WifiCalls
  BY <1>1, WifiBoundsAssumption DEF CallsTyped, WifiCalls
<1>5. AttemptHasService'
  BY <1>1, <1>2 DEF AttemptHasService
<1>6. CASE Answer({made'}) /\ UNCHANGED mCallIds
  <2>1. /\ answered' \in [WifiCalls -> Nat] /\ answered'[made'] = 1
        /\ \A c \in WifiCalls : c # made' => answered'[c] = answered[c]
    BY <1>1, <1>3, <1>6, AnswerFacts DEF CallsTyped, CallIsNew
  <2>2. CallsTyped'
    BY <1>1, <1>2, <1>3, <1>6, <2>1 DEF CallsTyped, CallIsNew
  <2>3. OnlyMade'
    BY <1>1, <1>2, <1>3, <1>4, <1>6, <2>1 DEF OnlyMade, CallIsNew
  <2>4. ASSUME NEW c \in 1..made
        PROVE  Where(c, answered'[c], c \in mCallIds', mConnecting' /\ c = connectCall')
    BY <1>1, <1>2, <1>3, <1>6, <2>1, <2>4 DEF Placed, CallIsNew
  <2>5. Where(made', answered'[made'], made' \in mCallIds', mConnecting' /\ made' = connectCall')
    BY <1>2, <1>3, <1>6, <2>1 DEF Where, CallIsNew
  <2>6. Placed'
    BY <1>3, <2>4, <2>5 DEF Placed, CallIsNew
  <2> QED
    BY <1>5, <2>2, <2>3, <2>6 DEF CallsInv
<1>7. CASE mCallIds' = mCallIds \cup {made'} /\ UNCHANGED answered
  <2>1. CallsTyped'
    BY <1>1, <1>2, <1>3, <1>7 DEF CallsTyped, CallIsNew
  <2>2. OnlyMade'
    BY <1>1, <1>2, <1>3, <1>4, <1>7 DEF OnlyMade, CallIsNew
  <2>3. ASSUME NEW c \in 1..made
        PROVE  Where(c, answered'[c], c \in mCallIds', mConnecting' /\ c = connectCall')
    <3>1. c \in mCallIds' <=> c \in mCallIds
      BY <1>3, <1>7 DEF CallIsNew
    <3> QED
      BY <1>1, <1>2, <1>7, <3>1 DEF Placed, Where
  <2>4. Where(made', answered'[made'], made' \in mCallIds', mConnecting' /\ made' = connectCall')
    BY <1>2, <1>3, <1>7 DEF Where, CallIsNew
  <2>5. Placed'
    BY <1>3, <2>3, <2>4 DEF Placed, CallIsNew
  <2> QED
    BY <1>5, <2>1, <2>2, <2>5 DEF CallsInv
<1> QED
  BY <1>6, <1>7 DEF RetrieveNetworks

\* A scan ends: no call waits any longer.
LEMMA ScanKeeps == ASSUME CallsInv, ScanFinished PROVE CallsInv'
<1>1. CallsTyped /\ OnlyMade /\ Placed /\ AttemptHasService
  BY DEF CallsInv
<1>2. /\ Answer(mCallIds) /\ mCallIds' = {}
      /\ UNCHANGED <<made, mConnecting, connectCall, toConnect, doomed>>
  BY DEF ScanFinished, NoneWaiting
<1>3. /\ answered' \in [WifiCalls -> Nat]
      /\ \A c \in WifiCalls : c \in mCallIds => answered'[c] = answered[c] + 1
      /\ \A c \in WifiCalls : c \notin mCallIds => answered'[c] = answered[c]
  BY <1>1, <1>2, AnswerFacts DEF CallsTyped
<1>4. CallsTyped'
  BY <1>1, <1>2, <1>3 DEF CallsTyped
<1>5. OnlyMade'
  <2>1. \A c \in WifiCalls : c > made => c \notin mCallIds
    BY <1>1, WifiBoundsAssumption DEF OnlyMade, CallsTyped, WifiCalls
  <2> QED
    BY <1>1, <1>2, <1>3, <2>1 DEF OnlyMade
<1>6. Placed'
  <2>1. ASSUME NEW c \in 1..made
        PROVE  Where(c, answered'[c], c \in mCallIds', mConnecting' /\ c = connectCall')
    <3>1. c \in WifiCalls
      BY <1>1, WifiBoundsAssumption DEF CallsTyped, WifiCalls
    <3>2. Where(c, answered[c], c \in mCallIds, mConnecting /\ c = connectCall)
      BY <1>1 DEF Placed
    <3> QED
      BY <1>2, <1>3, <3>1, <3>2 DEF Where
  <2> QED
    BY <1>2, <2>1 DEF Placed
<1> QED
  BY <1>1, <1>2, <1>4, <1>5, <1>6 DEF CallsInv, AttemptHasService

LEMMA RejectedKeeps == ASSUME CallsInv, ConnectRejected PROVE CallsInv'
<1>1. CallsTyped /\ OnlyMade /\ Placed /\ AttemptHasService
  BY DEF CallsInv
<1>2. NewCall /\ Answer({made'}) /\ UNCHANGED <<mCallIds, mConnecting, connectCall, doomed>>
  BY DEF ConnectRejected
<1>3. toConnect' = toConnect
  BY <1>1 DEF ConnectRejected, AttemptHasService
<1>4. CallIsNew
  BY <1>2, NewCallFacts
<1>5. connectCall \in WifiCalls \cup {0} /\ mCallIds \subseteq WifiCalls /\ doomed \subseteq WifiCalls
  BY <1>1, WifiBoundsAssumption DEF CallsTyped, WifiCalls
<1>6. /\ answered' \in [WifiCalls -> Nat] /\ answered'[made'] = 1
      /\ \A c \in WifiCalls : c # made' => answered'[c] = answered[c]
  BY <1>1, <1>2, <1>4, AnswerFacts DEF CallsTyped, CallIsNew
<1>7. CallsTyped'
  BY <1>1, <1>2, <1>3, <1>4, <1>6 DEF CallsTyped, CallIsNew
<1>8. OnlyMade'
  BY <1>1, <1>2, <1>4, <1>5, <1>6 DEF OnlyMade, CallIsNew
<1>9. Placed'
  <2>1. ASSUME NEW c \in 1..made
        PROVE  Where(c, answered'[c], c \in mCallIds', mConnecting' /\ c = connectCall')
    BY <1>1, <1>2, <1>4, <1>6, <2>1 DEF Placed, CallIsNew
  <2>2. Where(made', answered'[made'], made' \in mCallIds', mConnecting' /\ made' = connectCall')
    BY <1>2, <1>4, <1>6 DEF Where, CallIsNew
  <2> QED
    BY <1>4, <2>1, <2>2 DEF Placed, CallIsNew
<1> QED
  BY <1>1, <1>2, <1>3, <1>7, <1>8, <1>9 DEF CallsInv, AttemptHasService

LEMMA ConnectKeeps == ASSUME CallsInv, ConnectNetwork PROVE CallsInv'
<1>1. CallsTyped /\ OnlyMade /\ Placed /\ AttemptHasService
  BY DEF CallsInv
<1>2. /\ ~mConnecting /\ NewCall /\ mConnecting' = TRUE /\ connectCall' = made' /\ toConnect' = made'
      /\ UNCHANGED <<mCallIds, doomed, answered>>
  BY DEF ConnectNetwork, MayConnect
<1>3. CallIsNew
  BY <1>2, NewCallFacts
<1>4. mCallIds \subseteq WifiCalls /\ doomed \subseteq WifiCalls
  BY <1>1 DEF CallsTyped
<1>5. CallsTyped'
  BY <1>1, <1>2, <1>3 DEF CallsTyped, CallIsNew
<1>6. OnlyMade'
  <2>1. made' <= made'
    BY <1>3, WifiBoundsAssumption DEF CallIsNew
  <2> QED
    BY <1>1, <1>2, <1>3, <1>4, <2>1 DEF OnlyMade, CallIsNew
<1>7. Placed'
  <2>1. ASSUME NEW c \in 1..made
        PROVE  Where(c, answered'[c], c \in mCallIds', mConnecting' /\ c = connectCall')
    <3>1. Where(c, answered[c], c \in mCallIds, FALSE) /\ c # connectCall'
      BY <1>1, <1>2, <1>3 DEF Placed, CallIsNew
    <3> QED
      BY <1>2, <3>1 DEF Where
  <2>2. Where(made', answered'[made'], made' \in mCallIds', mConnecting' /\ made' = connectCall')
    BY <1>2, <1>3 DEF Where, CallIsNew
  <2> QED
    BY <1>3, <2>1, <2>2 DEF Placed, CallIsNew
<1>8. AttemptHasService'
  <2>1. made' # 0
    BY <1>3, WifiBoundsAssumption DEF CallIsNew, WifiCalls
  <2> QED
    BY <1>2, <1>3, <2>1 DEF AttemptHasService, CallIsNew
<1> QED
  BY <1>5, <1>6, <1>7, <1>8 DEF CallsInv

\* A report ends the attempt there is, whichever service it came from.
LEMMA FinishKeeps == ASSUME CallsInv, FinishConnectionProcess PROVE CallsInv'
<1> DEFINE ended == IF mConnecting THEN {connectCall} ELSE {}
<1>1. CallsTyped /\ OnlyMade /\ Placed /\ AttemptHasService
  BY DEF CallsInv
<1>2. /\ Answer(ended) /\ connectCall' = 0 /\ mConnecting' = FALSE /\ toConnect' = 0
      /\ doomed' = doomed \cup ({toConnect} \ {0}) /\ UNCHANGED <<made, mCallIds>>
  BY DEF FinishConnectionProcess, DeletesService
<1>3. /\ answered' \in [WifiCalls -> Nat]
      /\ \A c \in WifiCalls : c \in ended => answered'[c] = answered[c] + 1
      /\ \A c \in WifiCalls : c \notin ended => answered'[c] = answered[c]
  <2> HIDE DEF ended
  <2> QED
    BY <1>1, <1>2, AnswerFacts DEF CallsTyped
<1>4. toConnect = connectCall /\ connectCall \in 0..MaxWifiCalls /\ connectCall <= made /\ made \in Nat
  BY <1>1, WifiBoundsAssumption DEF AttemptHasService, CallsTyped, OnlyMade
<1>5. CallsTyped'
  <2>1. doomed' \subseteq WifiCalls
    BY <1>1, <1>2, <1>4, WifiBoundsAssumption DEF CallsTyped, WifiCalls
  <2>2. 0 \in 0..MaxWifiCalls
    BY WifiBoundsAssumption
  <2> QED
    BY <1>1, <1>2, <1>3, <2>1, <2>2 DEF CallsTyped
<1>6. OnlyMade'
  <2>1. \A c \in WifiCalls : c > made => answered'[c] = 0
    BY <1>1, <1>3, <1>4, WifiBoundsAssumption DEF OnlyMade, WifiCalls
  <2> QED
    BY <1>1, <1>2, <1>4, <2>1 DEF OnlyMade
<1>7. Placed'
  <2>1. ASSUME NEW c \in 1..made PROVE Where(c, answered'[c], c \in mCallIds, FALSE)
    <3>1. c \in WifiCalls
      BY <1>1, WifiBoundsAssumption DEF CallsTyped, WifiCalls
    <3>2. Where(c, answered[c], c \in mCallIds, mConnecting /\ c = connectCall)
      BY <1>1 DEF Placed
    <3> QED
      BY <1>3, <3>1, <3>2 DEF Where
  <2> QED
    BY <1>2, <2>1 DEF Placed
<1>8. AttemptHasService'
  <2>1. 0 \notin doomed'
    BY <1>1, <1>2, WifiBoundsAssumption DEF CallsTyped, WifiCalls
  <2> QED
    BY <1>2, <2>1 DEF AttemptHasService
<1> QED
  BY <1>5, <1>6, <1>7, <1>8 DEF CallsInv

LEMMA CallsKeeps == ASSUME CallsInv, [WifiNext]_wifiVars PROVE CallsInv'
<1>1. CASE RetrieveNetworks
  BY <1>1, RetrieveKeeps
<1>2. CASE ScanFinished
  BY <1>2, ScanKeeps
<1>3. CASE ConnectRejected
  BY <1>3, RejectedKeeps
<1>4. CASE ConnectNetwork
  BY <1>4, ConnectKeeps
<1>5. CASE FinishConnectionProcess
  BY <1>5, FinishKeeps
<1>6. CASE ServiceDeleted
  <2>1. doomed' \subseteq doomed /\ UNCHANGED <<made, mCallIds, mConnecting, connectCall, toConnect, answered>>
    BY <1>6 DEF ServiceDeleted
  <2> QED
    BY <2>1 DEF CallsInv, CallsTyped, OnlyMade, Placed, AttemptHasService
<1>7. CASE \/ PageLoads \/ PageLoaded \/ RunScript \/ UserSets \/ SetPowered
           \/ RequestGranted \/ RequestRefused \/ OthersSwitch \/ technologiesChanged \/ UNCHANGED wifiVars
  <2>1. UNCHANGED <<made, mCallIds, mConnecting, connectCall, toConnect, doomed, answered>>
    BY <1>7 DEF PageLoads, PageLoaded, RunScript, UserSets, SetPowered, RequestGranted, RequestRefused,
                OthersSwitch, technologiesChanged, wifiVars, callVars
  <2> QED
    BY <2>1 DEF CallsInv, CallsTyped, OnlyMade, Placed, AttemptHasService
<1> QED
  BY <1>1, <1>2, <1>3, <1>4, <1>5, <1>6, <1>7 DEF WifiNext

-----------------------------------------------------------------------------
(* The calls as questions: every step of the manager is one of OneReply, or   *)
(* none of the page's business.                                               *)

CallsMapped == [Calls!OneReplyNext]_(Calls!replyVars)

\* What is kept was made and has had no answer.
LEMMA KeptUnanswered ==
    ASSUME CallsInv
    PROVE  /\ \A c \in CallsWaiting : c \in 1..made /\ c \in WifiCalls /\ answered[c] = 0
           /\ mConnecting => connectCall \in CallsWaiting /\ connectCall \notin mCallIds
<1>1. CallsTyped /\ OnlyMade /\ Placed /\ AttemptHasService
  BY DEF CallsInv
<1>2. made \in 0..MaxWifiCalls /\ mCallIds \subseteq WifiCalls /\ connectCall \in 0..MaxWifiCalls
  BY <1>1 DEF CallsTyped
<1>3. 1..made \subseteq WifiCalls
  BY <1>2, WifiBoundsAssumption DEF WifiCalls
<1>4. \A c \in mCallIds : c \in 1..made
  BY <1>1, <1>2, WifiBoundsAssumption DEF OnlyMade, WifiCalls
<1>5. mConnecting => connectCall \in 1..made
  BY <1>1, <1>2, WifiBoundsAssumption DEF OnlyMade, AttemptHasService
<1>6. \A c \in 1..made : Where(c, answered[c], c \in mCallIds, mConnecting /\ c = connectCall)
  BY <1>1 DEF Placed
<1>7. \A c \in mCallIds : answered[c] = 0
  BY <1>4, <1>6 DEF Where
<1>8. mConnecting => answered[connectCall] = 0 /\ connectCall \notin mCallIds
  BY <1>5, <1>6 DEF Where
<1> QED
  BY <1>3, <1>4, <1>5, <1>7, <1>8 DEF CallsWaiting

\* An answer to calls that had none.
LEMMA FirstAnswers ==
    ASSUME NEW calls \in SUBSET WifiCalls, answered \in [WifiCalls -> Nat], Answer(calls),
           \A c \in calls : answered[c] = 0
    PROVE  answered' = [c \in WifiCalls |-> IF c \in calls THEN 1 ELSE answered[c]]
<1>1. \A c \in calls : answered[c] + 1 = 1
  OBVIOUS
<1> QED
  BY <1>1 DEF Answer

LEMMA CallRefused ==
    ASSUME CallsInv, NewCall, Answer({made'}), CallsWaiting' = CallsWaiting
    PROVE  CallsMapped
<1>1. CallIsNew /\ CallsTyped
  BY NewCallFacts DEF CallsInv
<1>2. PICK n \in WifiCalls : n = made'
  BY <1>1 DEF CallIsNew
<1>3. answered[n] = 0 /\ answered \in [WifiCalls -> Nat] /\ Answer({n})
  BY <1>1, <1>2 DEF CallIsNew, CallsTyped
<1>4. answered' = [c \in WifiCalls |-> IF c \in {n} THEN 1 ELSE answered[c]]
  BY <1>3, FirstAnswers
<1>5. answered' = [answered EXCEPT ![n] = 1]
  BY <1>3, <1>4
<1>6. n \notin CallsWaiting
  BY <1>1, <1>2 DEF CallIsNew, CallsWaiting
<1>7. Calls!Refuse(n)
  BY <1>3, <1>5, <1>6 DEF Calls!Refuse, Calls!IsNew
<1> QED
  BY <1>7 DEF CallsMapped, Calls!OneReplyNext

LEMMA CallKept ==
    ASSUME CallsInv, NewCall, CallsWaiting' = CallsWaiting \cup {made'}, UNCHANGED answered
    PROVE  CallsMapped
<1>1. CallIsNew
  BY NewCallFacts
<1>2. PICK n \in WifiCalls : n = made'
  BY <1>1 DEF CallIsNew
<1>3. n \notin CallsWaiting /\ answered[n] = 0
  BY <1>1, <1>2 DEF CallIsNew, CallsWaiting
<1>4. Calls!Keep(n)
  BY <1>2, <1>3 DEF Calls!Keep, Calls!IsNew
<1> QED
  BY <1>4 DEF CallsMapped, Calls!OneReplyNext

LEMMA CallsEnd ==
    ASSUME CallsInv, NEW calls, calls \subseteq CallsWaiting, Answer(calls),
           CallsWaiting' = CallsWaiting \ calls
    PROVE  CallsMapped
<1>1. calls \in SUBSET WifiCalls /\ \A c \in calls : answered[c] = 0
  BY KeptUnanswered
<1>2. answered \in [WifiCalls -> Nat]
  BY DEF CallsInv, CallsTyped
<1>3. answered' = [c \in WifiCalls |-> IF c \in calls THEN 1 ELSE answered[c]]
  BY <1>1, <1>2, FirstAnswers
<1>4. Calls!AnswerAll(calls)
  BY <1>3 DEF Calls!AnswerAll
<1> QED
  BY <1>1, <1>4 DEF CallsMapped, Calls!OneReplyNext

LEMMA CallsMap == ASSUME CallsInv, [WifiNext]_wifiVars PROVE CallsMapped
<1>1. CASE RetrieveNetworks
  <2>1. NewCall /\ UNCHANGED <<mConnecting, connectCall>>
    BY <1>1 DEF RetrieveNetworks
  <2>2. CASE Answer({made'}) /\ UNCHANGED mCallIds
    BY <2>1, <2>2, CallRefused DEF CallsWaiting
  <2>3. CASE mCallIds' = mCallIds \cup {made'} /\ UNCHANGED answered
    <3>1. CallsWaiting' = CallsWaiting \cup {made'}
      BY <2>1, <2>3 DEF CallsWaiting
    <3> QED
      BY <2>1, <2>3, <3>1, CallKept
  <2> QED
    BY <1>1, <2>2, <2>3 DEF RetrieveNetworks
<1>2. CASE ScanFinished
  <2>1. Answer(mCallIds) /\ mCallIds' = {} /\ UNCHANGED <<mConnecting, connectCall>>
    BY <1>2 DEF ScanFinished, NoneWaiting
  <2>2. mCallIds \subseteq CallsWaiting /\ CallsWaiting' = CallsWaiting \ mCallIds
    BY <2>1, KeptUnanswered DEF CallsWaiting
  <2> QED
    BY <2>1, <2>2, CallsEnd
<1>3. CASE ConnectRejected
  <2>1. NewCall /\ Answer({made'}) /\ UNCHANGED <<mCallIds, mConnecting, connectCall>>
    BY <1>3 DEF ConnectRejected
  <2> QED
    BY <2>1, CallRefused DEF CallsWaiting
<1>4. CASE ConnectNetwork
  <2>1. /\ ~mConnecting /\ NewCall /\ mConnecting' = TRUE /\ connectCall' = made'
        /\ UNCHANGED <<mCallIds, answered>>
    BY <1>4 DEF ConnectNetwork, MayConnect
  <2>2. CallsWaiting' = CallsWaiting \cup {made'}
    BY <2>1 DEF CallsWaiting
  <2> QED
    BY <2>1, <2>2, CallKept
<1>5. CASE FinishConnectionProcess
  <2> DEFINE ended == IF mConnecting THEN {connectCall} ELSE {}
  <2>1. Answer(ended) /\ mConnecting' = FALSE /\ UNCHANGED mCallIds
    BY <1>5 DEF FinishConnectionProcess
  <2>2. ended \subseteq CallsWaiting /\ CallsWaiting' = CallsWaiting \ ended
    BY <2>1, KeptUnanswered DEF CallsWaiting
  <2> HIDE DEF ended
  <2> QED
    BY <2>1, <2>2, CallsEnd
<1>6. CASE \/ PageLoads \/ PageLoaded \/ RunScript \/ UserSets \/ SetPowered \/ RequestGranted
           \/ RequestRefused \/ OthersSwitch \/ technologiesChanged \/ ServiceDeleted \/ UNCHANGED wifiVars
  <2>1. UNCHANGED <<mCallIds, mConnecting, connectCall, answered>>
    BY <1>6 DEF PageLoads, PageLoaded, RunScript, UserSets, SetPowered, RequestGranted, RequestRefused,
                OthersSwitch, technologiesChanged, ServiceDeleted, wifiVars, callVars
  <2> QED
    BY <2>1 DEF CallsMapped, Calls!replyVars, CallsWaiting
<1> QED
  BY <1>1, <1>2, <1>3, <1>4, <1>5, <1>6 DEF WifiNext

-----------------------------------------------------------------------------
(* Theorems. *)

LEMMA InitWifi == ASSUME WifiInit PROVE PowerInv /\ CallsInv
<1>1. /\ wifi \in Values \cup {"absent"} /\ powered = "off" /\ scripts = <<>> /\ echoes = <<>> /\ wishes = <<>>
      /\ loaded = FALSE /\ refused = FALSE
  BY DEF WifiInit
<1>2. <<>> \in Seq(Values) /\ Len(<<>>) = 0
  OBVIOUS
<1>3. PowerTyped
  <2>1. scripts \in Seq(Values) /\ echoes \in Seq(Values) /\ wishes \in Seq(Values)
    BY <1>1, <1>2
  <2>2. Len(scripts) = 0 /\ Len(echoes) = 0 /\ Len(wishes) = 0
    BY <1>1, <1>2
  <2>3. Len(scripts) + Len(echoes) + Len(wishes) <= MaxToggles
    BY <2>2, WifiBoundsAssumption
  <2>4. powered \in Values
    BY <1>1 DEF Values
  <2> QED
    BY <1>1, <2>1, <2>3, <2>4 DEF PowerTyped
<1>4. ScriptsTellPower /\ Agreed
  BY <1>1 DEF ScriptsTellPower, Agreed
<1>5. /\ made = 0 /\ mCallIds = {} /\ mConnecting = FALSE /\ connectCall = 0 /\ toConnect = 0 /\ doomed = {}
      /\ answered = [c \in WifiCalls |-> 0]
  BY DEF WifiInit
<1>6. CallsTyped /\ OnlyMade /\ AttemptHasService
  <2>1. CallsTyped
    <3>1. answered \in [WifiCalls -> Nat]
      BY <1>5
    <3>2. 0 \in 0..MaxWifiCalls
      BY WifiBoundsAssumption
    <3> QED
      BY <1>5, <3>1, <3>2 DEF CallsTyped
  <2>2. OnlyMade
    BY <1>5 DEF OnlyMade
  <2>3. AttemptHasService
    BY <1>5 DEF AttemptHasService
  <2> QED
    BY <2>1, <2>2, <2>3
<1>7. Placed
  <2>1. 1..made = {}
    BY <1>5
  <2> QED
    BY <2>1 DEF Placed
<1> QED
  BY <1>3, <1>4, <1>6, <1>7 DEF PowerInv, CallsInv

LEMMA WifiInvHolds == WifiSpec => [](PowerInv /\ CallsInv)
<1>1. WifiInit => PowerInv /\ CallsInv
  BY InitWifi
<1>2. (PowerInv /\ CallsInv) /\ [WifiNext]_wifiVars => (PowerInv /\ CallsInv)'
  BY PowerKeeps, CallsKeeps
<1> QED
  BY <1>1, <1>2, PTL DEF WifiSpec

\* Types; the values under way never outnumber their bound.
THEOREM WifiTypeCorrect == WifiSpec => []WifiTypeOK
<1>1. PowerInv /\ CallsInv => WifiTypeOK
  BY DEF PowerInv, PowerTyped, CallsInv, CallsTyped, WifiTypeOK
<1> QED
  BY <1>1, WifiInvHolds, PTL

\* No call is lost, and none is answered twice.
THEOREM CallAnsweredOnce == WifiSpec => []EachCallOnce
<1>1. CallsInv => EachCallOnce
  BY PlacedIsOnce DEF CallsInv
<1> QED
  BY <1>1, WifiInvHolds, PTL

\* Late reports of earlier services leave no attempt without a service.
THEOREM AttemptKeepsService == WifiSpec => []AttemptHasService
<1>1. CallsInv => AttemptHasService
  BY DEF CallsInv
<1> QED
  BY <1>1, WifiInvHolds, PTL

\* When nothing is under way, page and radio agree on the power.
THEOREM PowerAgrees == WifiSpec => []QuietAgreement
<1>1. PowerInv => QuietAgreement
  BY DEF PowerInv, Agreed, QuietAgreement
<1> QED
  BY <1>1, WifiInvHolds, PTL

\* Every step about the page's calls refuses one, keeps one or answers those
\* kept: to the page the manager is a OneReply.
THEOREM CallsRefineOneReply == WifiSpec => CallsPromise
<1>1. WifiInit => Calls!OneReplyInit
  BY DEF WifiInit, Calls!OneReplyInit, CallsWaiting
<1>2. CallsInv /\ [WifiNext]_wifiVars => [Calls!OneReplyNext]_(Calls!replyVars)
  BY CallsMap DEF CallsMapped
<1> QED
  BY <1>1, <1>2, WifiInvHolds, PTL DEF WifiSpec, CallsPromise, Calls!OneReplySpec
=============================================================================
