-------------------------- MODULE BtDevices_proofs --------------------------
(***************************************************************************)
(* Proofs about BtDevices for any objects, addresses and classes.  A row   *)
(* holds a living object, an object never changes its address, and no two  *)
(* rows have the same one: the types and these facts are inductive         *)
(* together, because findRowFromAddress finds the row of an address.       *)
(***************************************************************************)
EXTENDS BtDevices, FiniteSetTheorems, SequenceTheorems, TLAPS

DevicesInv == DevicesTypeOK /\ UniqueRows /\ ListedAreKnown /\ ActsOnNamed

-----------------------------------------------------------------------------
(* Device objects. *)

\* Nothing that happens to a device changes its address.
LEMMA DeviceKinds ==
    ASSUME NEW d \in Devices, NEW p \in BOOLEAN, NEW t \in BOOLEAN, NEW c \in BOOLEAN
    PROVE  /\ UpdateConnection(d, c) \in Devices /\ UpdateConnection(d, c).address = d.address
           /\ UpdatePaired(d, p, c) \in Devices /\ UpdatePaired(d, p, c).address = d.address
           /\ SetProperties(d, p, t, c) \in Devices /\ SetProperties(d, p, t, c).address = d.address
           /\ InitDevice(d, p, t, c) \in Devices /\ InitDevice(d, p, t, c).address = d.address
<1>1. ASSUME NEW e \in Devices
      PROVE  UpdateConnection(e, c) \in Devices /\ UpdateConnection(e, c).address = e.address
  BY <1>1 DEF UpdateConnection, MakeTrusted, Devices
<1>2. ASSUME NEW e \in Devices
      PROVE  UpdatePaired(e, p, c) \in Devices /\ UpdatePaired(e, p, c).address = e.address
  <2> DEFINE f == [e EXCEPT !.paired = p, !.shot = @ \/ (p /\ ~e.trusted)]
  <2>1. f \in Devices /\ f.address = e.address
    BY DEF Devices
  <2> HIDE DEF f
  <2>2. UpdateConnection(f, c) \in Devices /\ UpdateConnection(f, c).address = e.address
    BY <1>1, <2>1
  <2> QED
    BY <2>2 DEF UpdatePaired, f
<1>3. ASSUME NEW e \in Devices
      PROVE  SetProperties(e, p, t, c) \in Devices /\ SetProperties(e, p, t, c).address = e.address
  <2> DEFINE f == UpdatePaired(UpdateConnection(e, c), p, c)
  <2>1. f \in Devices /\ f.address = e.address
    BY <1>1, <1>2
  <2> HIDE DEF f
  <2>2. [f EXCEPT !.trusted = t] \in Devices /\ [f EXCEPT !.trusted = t].address = e.address
    BY <2>1 DEF Devices
  <2> QED
    BY <2>2 DEF SetProperties, f
<1>4. InitDevice(d, p, t, c) \in Devices /\ InitDevice(d, p, t, c).address = d.address
  <2> DEFINE f == [d EXCEPT !.created = TRUE]
  <2>1. f \in Devices /\ f.address = d.address
    BY DEF Devices
  <2> HIDE DEF f
  <2> DEFINE g == SetProperties(f, p, t, c)
  <2>2. g \in Devices /\ g.address = d.address
    BY <1>3, <2>1
  <2> HIDE DEF g
  <2>3. UpdateConnection(g, c) \in Devices /\ UpdateConnection(g, c).address = d.address
    BY <1>1, <2>2
  <2> QED
    BY <2>3 DEF InitDevice, f, g
<1> QED
  BY <1>1, <1>2, <1>3, <1>4

LEMMA NewDeviceKind ==
    ASSUME NEW a \in Addresses PROVE NewDevice(a) \in Devices /\ NewDevice(a).address = a
<1>1. MaxOwed \in Nat
  BY Zenon, DevicesAssumption
<1>2. 0 \in 0..MaxOwed
  BY <1>1
<1> QED
  BY <1>2 DEF NewDevice, Devices

LEMMA InitNewKind ==
    ASSUME NEW a \in Addresses, NEW p \in BOOLEAN, NEW t \in BOOLEAN, NEW c \in BOOLEAN
    PROVE  /\ InitDevice(NewDevice(a), p, t, c) \in Devices
           /\ InitDevice(NewDevice(a), p, t, c).address = a
<1> DEFINE d == NewDevice(a)
<1>1. d \in Devices /\ d.address = a
  BY NewDeviceKind
<1> HIDE DEF d
<1>2. InitDevice(d, p, t, c) \in Devices /\ InitDevice(d, p, t, c).address = d.address
  BY <1>1, DeviceKinds
<1> QED
  BY <1>1, <1>2 DEF d

-----------------------------------------------------------------------------
(* Rows. *)

LEMMA RowOfFacts ==
    ASSUME DevicesTypeOK, NEW a
    PROVE  \/ RowOf(a) = 0 /\ \A i \in 1..Len(rows) : dev[rows[i]].address # a
           \/ /\ RowOf(a) \in 1..Len(rows) /\ RowOf(a) # 0
              /\ dev[rows[RowOf(a)]].address = a
              /\ rows[RowOf(a)] \in Objects /\ dev[rows[RowOf(a)]] \in Devices
<1>1. rows \in Seq(Objects) /\ Len(rows) \in Nat
  BY DEF DevicesTypeOK
<1>2. CASE \E i \in 1..Len(rows) : dev[rows[i]].address = a
  <2>1. RowOf(a) \in 1..Len(rows) /\ dev[rows[RowOf(a)]].address = a
    BY <1>2 DEF RowOf
  <2>2. RowOf(a) # 0
    BY <1>1, <2>1
  <2>3. rows[RowOf(a)] \in Objects
    BY <1>1, <2>1
  <2>4. dev[rows[RowOf(a)]] \in Devices
    BY <2>1, <2>3 DEF DevicesTypeOK
  <2> QED
    BY <2>1, <2>2, <2>3, <2>4
<1>3. CASE ~ \E i \in 1..Len(rows) : dev[rows[i]].address = a
  BY <1>3 DEF RowOf
<1> QED
  BY <1>2, <1>3

\* A step that leaves the rows, and the address of what they hold, as they are.
LEMMA RowsKept ==
    ASSUME DevicesInv, rows' = rows, dev' \in [Objects -> Devices \cup {None}],
           \A i \in 1..Len(rows) : dev'[rows[i]] # None /\ dev'[rows[i]].address = dev[rows[i]].address,
           selected' \in Objects \cup {None}, selected' # None => dev'[selected'] # None,
           hasAdapter' \in BOOLEAN, known' \subseteq Addresses, listed' \in BOOLEAN,
           listed' => RowAddresses \subseteq known',
           owed' \in [Addresses -> Int], misdirected' = FALSE
    PROVE  DevicesInv'
<1>1. DevicesTypeOK /\ UniqueRows
  BY DEF DevicesInv
<1>2. DevicesTypeOK'
  BY <1>1 DEF DevicesTypeOK
<1>3. UniqueRows'
  BY <1>1 DEF UniqueRows
<1>4. RowAddresses' \subseteq RowAddresses
  BY DEF RowAddresses, RowObjects
<1> QED
  BY <1>2, <1>3, <1>4 DEF DevicesInv, ListedAreKnown, ActsOnNamed

\* A step that changes one object.
LEMMA UpdateKeeps ==
    ASSUME DevicesInv, NEW o \in Objects, dev[o] # None,
           NEW d \in Devices, d.address = dev[o].address, Update(o, d),
           owed' \in [Addresses -> Int],
           UNCHANGED <<rows, selected, hasAdapter, known, listed, misdirected>>
    PROVE  DevicesInv'
<1>1. DevicesTypeOK /\ ListedAreKnown /\ ActsOnNamed
  BY DEF DevicesInv
<1>2. dev' = [dev EXCEPT ![o] = d] /\ dev \in [Objects -> Devices \cup {None}] /\ d # None
  BY <1>1, NoneAssumption DEF Update, DevicesTypeOK
<1>3. /\ dev' \in [Objects -> Devices \cup {None}] /\ dev'[o] = d
      /\ \A e \in Objects : e # o => dev'[e] = dev[e]
  BY <1>2
<1>4. ASSUME NEW i \in 1..Len(rows)
      PROVE  dev'[rows[i]] # None /\ dev'[rows[i]].address = dev[rows[i]].address
  <2>1. rows[i] \in Objects /\ dev[rows[i]] # None
    BY <1>1 DEF DevicesTypeOK
  <2> QED
    BY <1>2, <1>3, <2>1
<1>5. selected' # None => dev'[selected'] # None
  BY <1>1, <1>2, <1>3 DEF DevicesTypeOK
<1>6. /\ selected' \in Objects \cup {None} /\ hasAdapter' \in BOOLEAN /\ known' \subseteq Addresses
      /\ listed' \in BOOLEAN /\ misdirected' = FALSE /\ (listed' => RowAddresses \subseteq known')
  BY <1>1 DEF DevicesTypeOK, ListedAreKnown, ActsOnNamed
<1> QED
  BY <1>3, <1>4, <1>5, <1>6, RowsKept

\* A new object gets a row of its own: no row had its address.
LEMMA NewRowKeeps ==
    ASSUME DevicesInv, NEW d \in Devices, RowOf(d.address) = 0, AddNewDevice(d),
           UNCHANGED <<selected, hasAdapter, listed, owed, misdirected>>
    PROVE  DevicesInv'
<1> DEFINE a == d.address
<1> DEFINE n == Len(rows)
<1>1. DevicesTypeOK /\ UniqueRows /\ ListedAreKnown /\ ActsOnNamed
  BY DEF DevicesInv
<1>2. PICK o \in Objects : dev[o] = None /\ AddDevice(o, d)
  BY DEF AddNewDevice
<1>3. isValid(a) /\ a \in Addresses /\ d # None
  BY NoneAssumption DEF AddNewDevice, Devices
<1>4. /\ rows \in Seq(Objects) /\ n \in Nat /\ dev \in [Objects -> Devices \cup {None}]
      /\ \A i \in 1..n : rows[i] \in Objects /\ dev[rows[i]] # None
  BY <1>1 DEF DevicesTypeOK
<1>5. \A i \in 1..n : dev[rows[i]].address # a
  <2>1. RowOf(a) = 0
    OBVIOUS
  <2> QED
    BY <1>1, <2>1, RowOfFacts
<1>6. rows' = Append(rows, o) /\ known' = known \cup {a}
  BY <1>2 DEF AddDevice, Added, TellsOf
<1>7. /\ rows' \in Seq(Objects) /\ Len(rows') = n + 1 /\ rows'[n + 1] = o
      /\ \A i \in 1..n : rows'[i] = rows[i]
      /\ \A i \in 1..Len(rows') : i \in 1..n \/ i = n + 1
      /\ n + 1 \in 1..Len(rows')
  BY <1>4, <1>6
<1>8. RowObjects(rows') = RowObjects(rows) \cup {o} /\ o \notin RowObjects(rows)
  <2>1. \A i \in 1..n : i \in 1..Len(rows')
    BY <1>4, <1>7
  <2>2. RowObjects(rows') \subseteq RowObjects(rows) \cup {o}
    BY <1>7 DEF RowObjects
  <2>3. RowObjects(rows) \cup {o} \subseteq RowObjects(rows')
    BY <1>7, <2>1 DEF RowObjects
  <2>4. o \notin RowObjects(rows)
    BY <1>2, <1>4 DEF RowObjects
  <2> QED
    BY <2>2, <2>3, <2>4
<1>9. dev' = [e \in Objects |-> IF e \in RowObjects(rows') \cup {selected} THEN [dev EXCEPT ![o] = d][e] ELSE None]
  BY <1>2 DEF AddDevice, Swept
<1>10. /\ dev' \in [Objects -> Devices \cup {None}]
       /\ dev'[o] = d
       /\ \A e \in RowObjects(rows) : e \in Objects /\ dev'[e] = dev[e]
       /\ selected # None => dev'[selected] # None
  <2>1. \A e \in RowObjects(rows) : e \in Objects /\ e # o
    BY <1>4, <1>8 DEF RowObjects
  <2>2. selected \in Objects \cup {None} /\ (selected # None => dev[selected] # None)
    BY <1>1 DEF DevicesTypeOK
  <2>3. [dev EXCEPT ![o] = d] \in [Objects -> Devices \cup {None}]
    BY <1>4
  <2>4. dev' \in [Objects -> Devices \cup {None}]
    BY <1>9, <2>3
  <2>5. dev'[o] = d
    BY <1>4, <1>8, <1>9
  <2>6. \A e \in RowObjects(rows) : dev'[e] = dev[e]
    BY <1>4, <1>8, <1>9, <2>1
  <2>7. selected # None => dev'[selected] # None
    BY <1>2, <1>4, <1>9, <2>2
  <2> QED
    BY <2>1, <2>4, <2>5, <2>6, <2>7
<1>11. \A i \in 1..n : dev'[rows'[i]] = dev[rows[i]]
  BY <1>7, <1>10 DEF RowObjects
<1>12. dev'[rows'[n + 1]] = d
  BY <1>7, <1>10
<1> HIDE DEF n
<1>13. DevicesTypeOK'
  <2>1. \A i \in 1..Len(rows') : dev'[rows'[i]] # None /\ isValid(dev'[rows'[i]].address)
    BY <1>1, <1>3, <1>7, <1>11, <1>12 DEF DevicesTypeOK, n
  <2> QED
    BY <1>1, <1>3, <1>6, <1>7, <1>10, <2>1 DEF DevicesTypeOK
<1>14. UniqueRows'
  <2>1. ASSUME NEW i \in 1..Len(rows'), NEW j \in 1..Len(rows'),
               dev'[rows'[i]].address = dev'[rows'[j]].address
        PROVE  i = j
    <3>1. CASE i \in 1..n /\ j \in 1..n
      BY <1>1, <1>11, <2>1, <3>1 DEF UniqueRows, n
    <3>2. CASE i \in 1..n /\ j = n + 1
      BY <1>5, <1>11, <1>12, <2>1, <3>2
    <3>3. CASE i = n + 1 /\ j \in 1..n
      BY <1>5, <1>11, <1>12, <2>1, <3>3
    <3>4. CASE i = n + 1 /\ j = n + 1
      BY <3>4
    <3> QED
      BY <1>7, <3>1, <3>2, <3>3, <3>4
  <2> QED
    BY <2>1 DEF UniqueRows
<1>15. RowAddresses' \subseteq RowAddresses \cup {a}
  BY <1>8, <1>10 DEF RowAddresses
<1> QED
  BY <1>1, <1>6, <1>13, <1>14, <1>15 DEF DevicesInv, ListedAreKnown, ActsOnNamed

\* A row is removed; the others keep their order.
LEMMA RemoveRowKeeps ==
    ASSUME DevicesInv, NEW k \in 1..Len(rows), RemoveRow(k),
           UNCHANGED <<selected, hasAdapter, known, listed, owed, misdirected>>
    PROVE  DevicesInv'
<1> DEFINE n == Len(rows)
<1> DEFINE at(j) == IF j < k THEN j ELSE j + 1
<1>1. DevicesTypeOK /\ UniqueRows /\ ListedAreKnown /\ ActsOnNamed
  BY DEF DevicesInv
<1>2. /\ rows \in Seq(Objects) /\ n \in Nat /\ dev \in [Objects -> Devices \cup {None}]
      /\ \A i \in 1..n : rows[i] \in Objects /\ dev[rows[i]] # None /\ isValid(dev[rows[i]].address)
      /\ selected \in Objects \cup {None} /\ (selected # None => dev[selected] # None)
  BY <1>1 DEF DevicesTypeOK
<1>3. /\ n - 1 \in Nat /\ \A j \in 1..n - 1 : at(j) \in 1..n
      /\ \A i, j \in 1..n - 1 : at(i) = at(j) => i = j
  BY <1>2
<1>4. rows' = [j \in 1..n - 1 |-> rows[at(j)]]
  BY DEF RemoveRow
<1> HIDE DEF at, n
<1>5. rows' \in [1..n - 1 -> Objects]
  BY <1>2, <1>3, <1>4
<1>6. rows' \in Seq(Objects) /\ Len(rows') = n - 1
  BY <1>3, <1>5, SeqDef, LenProperties
<1>7. \A j \in 1..Len(rows') : rows'[j] = rows[at(j)] /\ at(j) \in 1..n
  BY <1>3, <1>4, <1>6
<1>8. dev' = [e \in Objects |-> IF e \in RowObjects(rows') \cup {selected} THEN dev[e] ELSE None]
  BY DEF RemoveRow, Swept
<1>9. /\ dev' \in [Objects -> Devices \cup {None}]
      /\ \A j \in 1..Len(rows') : dev'[rows'[j]] = dev[rows[at(j)]]
      /\ selected # None => dev'[selected] # None
  BY <1>2, <1>7, <1>8 DEF RowObjects
<1>10. DevicesTypeOK'
  <2>1. \A j \in 1..Len(rows') : dev'[rows'[j]] # None /\ isValid(dev'[rows'[j]].address)
    BY <1>2, <1>7, <1>9
  <2> QED
    BY <1>1, <1>6, <1>9, <2>1 DEF DevicesTypeOK
<1>11. UniqueRows'
  <2>1. ASSUME NEW i \in 1..Len(rows'), NEW j \in 1..Len(rows'),
               dev'[rows'[i]].address = dev'[rows'[j]].address
        PROVE  i = j
    <3>1. dev[rows[at(i)]].address = dev[rows[at(j)]].address /\ at(i) \in 1..n /\ at(j) \in 1..n
      BY <1>7, <1>9, <2>1
    <3>2. at(i) = at(j)
      BY <1>1, <3>1 DEF UniqueRows, n
    <3> QED
      BY <1>3, <1>6, <3>2
  <2> QED
    BY <2>1 DEF UniqueRows
<1>12. RowAddresses' \subseteq RowAddresses
  BY <1>7, <1>9 DEF RowAddresses, RowObjects, n
<1> QED
  BY <1>1, <1>10, <1>11, <1>12 DEF DevicesInv, ListedAreKnown, ActsOnNamed

-----------------------------------------------------------------------------
(* Signals of BlueZ. *)

LEMMA DeviceFoundKeeps == ASSUME DevicesInv, NEW a \in Addresses, DeviceFound(a) PROVE DevicesInv'
<1>1. DevicesTypeOK
  BY DEF DevicesInv
<1>2. UNCHANGED <<selected, hasAdapter, listed, owed, misdirected>>
  BY DEF DeviceFound
<1>3. PICK paired \in BOOLEAN, connected \in BOOLEAN :
        IF RowOf(a) = 0
        THEN AddNewDevice(UpdatePaired(NewDevice(a), paired, FALSE))
        ELSE /\ Update(rows[RowOf(a)], UpdatePaired(dev[rows[RowOf(a)]], paired, connected))
             /\ UNCHANGED <<rows, known>>
  BY DEF DeviceFound
<1>4. CASE RowOf(a) = 0
  <2> DEFINE d == UpdatePaired(NewDevice(a), paired, FALSE)
  <2>1. d \in Devices /\ d.address = a
    BY NewDeviceKind, DeviceKinds
  <2>2. AddNewDevice(d)
    BY <1>3, <1>4
  <2> HIDE DEF d
  <2> QED
    BY <1>2, <1>4, <2>1, <2>2, NewRowKeeps
<1>5. CASE RowOf(a) # 0
  <2> DEFINE o == rows[RowOf(a)]
  <2> DEFINE d == UpdatePaired(dev[o], paired, connected)
  <2>1. o \in Objects /\ dev[o] \in Devices /\ dev[o] # None
    BY <1>1, <1>5, RowOfFacts, NoneAssumption
  <2>2. d \in Devices /\ d.address = dev[o].address
    BY <2>1, DeviceKinds
  <2>3. Update(o, d) /\ UNCHANGED <<rows, known>>
    BY <1>3, <1>5
  <2>4. owed' \in [Addresses -> Int]
    BY <1>1, <1>2 DEF DevicesTypeOK
  <2> HIDE DEF d, o
  <2> QED
    BY <1>2, <2>1, <2>2, <2>3, <2>4, UpdateKeeps
<1> QED
  BY <1>4, <1>5

LEMMA DeviceCreatedKeeps == ASSUME DevicesInv, NEW a \in Addresses, DeviceCreated(a) PROVE DevicesInv'
<1>1. DevicesTypeOK /\ ListedAreKnown /\ ActsOnNamed
  BY DEF DevicesInv
<1>2. UNCHANGED <<selected, hasAdapter, listed, owed, misdirected>>
  BY DEF DeviceCreated
<1>3. PICK paired \in BOOLEAN, trusted \in BOOLEAN, connected \in BOOLEAN :
        IF RowOf(a) = 0
        THEN AddNewDevice(InitDevice(NewDevice(a), paired, trusted, connected))
        ELSE AddDevice(rows[RowOf(a)], InitDevice(dev[rows[RowOf(a)]], paired, trusted, connected))
  BY DEF DeviceCreated
<1>4. CASE RowOf(a) = 0
  <2> DEFINE d == InitDevice(NewDevice(a), paired, trusted, connected)
  <2>1. d \in Devices /\ d.address = a
    BY InitNewKind
  <2>2. AddNewDevice(d)
    BY <1>3, <1>4
  <2> HIDE DEF d
  <2> QED
    BY <1>2, <1>4, <2>1, <2>2, NewRowKeeps
<1>5. CASE RowOf(a) # 0
  <2> DEFINE o == rows[RowOf(a)]
  <2> DEFINE old == dev[o]
  <2> DEFINE d == InitDevice(dev[o], paired, trusted, connected)
  <2>1. /\ RowOf(a) \in 1..Len(rows) /\ o \in Objects /\ old \in Devices /\ old.address = a
    BY <1>1, <1>5, RowOfFacts
  <2>2. d \in Devices /\ d.address = a
    <3> HIDE DEF old
    <3>1. /\ InitDevice(old, paired, trusted, connected) \in Devices
          /\ InitDevice(old, paired, trusted, connected).address = old.address
      BY <2>1, DeviceKinds
    <3> QED
      BY <2>1, <3>1 DEF old
  <2>3. AddDevice(o, d)
    BY <1>3, <1>5
  <2>4. rows' = rows
    <3>1. rows' = [rows EXCEPT ![RowOf(a)] = rows[RowOf(a)]]
      BY <1>5, <2>2, <2>3 DEF AddDevice, Added
    <3>2. rows \in Seq(Objects)
      BY <1>1 DEF DevicesTypeOK
    <3> QED
      BY <2>1, <3>1, <3>2
  <2>5. known' = known
    BY <1>5, <2>2, <2>3 DEF AddDevice, TellsOf
  <2> HIDE DEF d, o
  <2>6. dev' = [e \in Objects |-> IF e \in RowObjects(rows) \cup {selected} THEN [dev EXCEPT ![o] = d][e] ELSE None]
    BY <2>3, <2>4 DEF AddDevice, Swept
  <2>7. /\ dev \in [Objects -> Devices \cup {None}] /\ d # None
        /\ \A i \in 1..Len(rows) : rows[i] \in Objects /\ dev[rows[i]] # None
        /\ selected \in Objects \cup {None} /\ (selected # None => dev[selected] # None)
    BY <1>1, <2>2, NoneAssumption DEF DevicesTypeOK
  <2>8. /\ [dev EXCEPT ![o] = d] \in [Objects -> Devices \cup {None}]
        /\ [dev EXCEPT ![o] = d][o] = d
        /\ \A e \in Objects : e # o => [dev EXCEPT ![o] = d][e] = dev[e]
    BY <2>1, <2>2, <2>7
  <2>9. dev' \in [Objects -> Devices \cup {None}]
    BY <2>6, <2>8
  <2>10. ASSUME NEW i \in 1..Len(rows)
         PROVE  dev'[rows[i]] # None /\ dev'[rows[i]].address = dev[rows[i]].address
    <3>1. rows[i] \in RowObjects(rows) /\ rows[i] \in Objects
      BY <2>7 DEF RowObjects
    <3>2. dev'[rows[i]] = [dev EXCEPT ![o] = d][rows[i]]
      BY <2>6, <3>1
    <3> QED
      BY <2>1, <2>2, <2>7, <2>8, <3>1, <3>2
  <2>11. selected # None => dev'[selected] # None
    BY <2>6, <2>7, <2>8
  <2>12. /\ hasAdapter' \in BOOLEAN /\ known' \subseteq Addresses /\ listed' \in BOOLEAN
         /\ (listed' => RowAddresses \subseteq known') /\ owed' \in [Addresses -> Int] /\ misdirected' = FALSE
         /\ selected' = selected
    BY <1>1, <1>2, <2>5 DEF DevicesTypeOK, ListedAreKnown, ActsOnNamed
  <2> QED
    BY <2>4, <2>7, <2>9, <2>10, <2>11, <2>12, RowsKept
<1> QED
  BY <1>4, <1>5

LEMMA PropertyChangedKeeps == ASSUME DevicesInv, NEW o \in Objects, PropertyChanged(o) PROVE DevicesInv'
<1>1. DevicesTypeOK
  BY DEF DevicesInv
<1>2. dev[o] # None /\ UNCHANGED <<rows, selected, hasAdapter, known, listed, owed, misdirected>>
  BY DEF PropertyChanged
<1>3. dev[o] \in Devices /\ owed' \in [Addresses -> Int]
  BY <1>1, <1>2 DEF DevicesTypeOK
<1>4. PICK v \in BOOLEAN, connected \in BOOLEAN :
        \/ Update(o, UpdatePaired(dev[o], v, connected))
        \/ Update(o, [dev[o] EXCEPT !.trusted = v])
        \/ Update(o, UpdateConnection(dev[o], connected))
  BY DEF PropertyChanged
<1>5. /\ UpdatePaired(dev[o], v, connected) \in Devices
      /\ UpdatePaired(dev[o], v, connected).address = dev[o].address
      /\ UpdateConnection(dev[o], connected) \in Devices
      /\ UpdateConnection(dev[o], connected).address = dev[o].address
  BY <1>3, DeviceKinds
<1>6. /\ [dev[o] EXCEPT !.trusted = v] \in Devices
      /\ [dev[o] EXCEPT !.trusted = v].address = dev[o].address
  BY <1>3 DEF Devices
<1> QED
  BY <1>2, <1>3, <1>4, <1>5, <1>6, UpdateKeeps

LEMMA DeviceRemovedKeeps == ASSUME DevicesInv, NEW a \in Addresses, DeviceRemoved(a) PROVE DevicesInv'
<1>1. DevicesTypeOK
  BY DEF DevicesInv
<1>2. RowOf(a) \in 1..Len(rows)
  BY <1>1, RowOfFacts DEF DeviceRemoved
<1>3. RemoveRow(RowOf(a)) /\ UNCHANGED <<selected, hasAdapter, known, listed, owed, misdirected>>
  BY DEF DeviceRemoved
<1> QED
  BY <1>2, <1>3, RemoveRowKeeps

LEMMA AdapterRemovedKeeps == ASSUME DevicesInv, AdapterRemoved PROVE DevicesInv'
<1>1. DevicesTypeOK /\ ActsOnNamed
  BY DEF DevicesInv
<1>2. /\ hasAdapter' = FALSE /\ rows' = <<>> /\ UNCHANGED <<selected, known, listed, owed, misdirected>>
      /\ dev' = [e \in Objects |-> IF e \in RowObjects(<<>>) \cup {selected} THEN dev[e] ELSE None]
  BY DEF AdapterRemoved, Swept
<1>3. rows' \in Seq(Objects) /\ 1..Len(rows') = {}
  BY <1>2
<1>4. dev' \in [Objects -> Devices \cup {None}] /\ (selected # None => dev'[selected] # None)
  BY <1>1, <1>2 DEF DevicesTypeOK
<1>5. DevicesTypeOK'
  BY <1>1, <1>2, <1>3, <1>4 DEF DevicesTypeOK
<1>6. RowAddresses' = {}
  BY <1>3 DEF RowAddresses, RowObjects
<1> QED
  BY <1>1, <1>2, <1>3, <1>5, <1>6 DEF DevicesInv, UniqueRows, ListedAreKnown, ActsOnNamed

\* The new rows have the addresses of the devices found, each once, and their
\* objects are none that the selection holds.
LEMMA SetAdapterKeeps == ASSUME DevicesInv, SetAdapter PROVE DevicesInv'
<1>1. DevicesTypeOK /\ ListedAreKnown /\ ActsOnNamed
  BY DEF DevicesInv
<1>2. PICK found \in SUBSET {a \in Addresses : isValid(a)},
           paired \in BOOLEAN, trusted \in BOOLEAN, connected \in BOOLEAN :
        \E as \in Injections(found, Cardinality(found)),
           os \in Injections(Objects \ {selected}, Cardinality(found)) :
        /\ hasAdapter' = TRUE
        /\ rows' = os
        /\ dev' = [o \in Objects |->
                     IF o \in RowObjects(os)
                     THEN InitDevice(NewDevice(as[CHOOSE i \in 1..Cardinality(found) : os[i] = o]),
                                     paired, trusted, connected)
                     ELSE IF o = selected THEN dev[o] ELSE None]
        /\ known' = known \cup found
        /\ UNCHANGED <<selected, listed, owed, misdirected>>
  BY DEF SetAdapter
<1> DEFINE n == Cardinality(found)
<1> DEFINE new(a) == InitDevice(NewDevice(a), paired, trusted, connected)
<1>3. n \in Nat
  <2>1. IsFiniteSet(Addresses) /\ found \subseteq Addresses
    BY Zenon, DevicesAssumption
  <2> QED
    BY <2>1, FS_Subset, FS_CardinalityType
<1> HIDE DEF n
<1>4. PICK as \in Injections(found, n), os \in Injections(Objects \ {selected}, n) :
        /\ hasAdapter' = TRUE
        /\ rows' = os
        /\ dev' = [o \in Objects |->
                     IF o \in RowObjects(os) THEN new(as[CHOOSE i \in 1..n : os[i] = o])
                     ELSE IF o = selected THEN dev[o] ELSE None]
        /\ known' = known \cup found
        /\ UNCHANGED <<selected, listed, owed, misdirected>>
  BY <1>2 DEF n
<1>5. \A a \in Addresses : new(a) \in Devices /\ new(a).address = a
  BY InitNewKind
<1> HIDE DEF new
<1>6. /\ as \in [1..n -> found] /\ \A i, j \in 1..n : as[i] = as[j] => i = j
      /\ os \in [1..n -> Objects \ {selected}] /\ \A i, j \in 1..n : os[i] = os[j] => i = j
  BY DEF Injections
<1>7. rows' \in Seq(Objects) /\ Len(rows') = n /\ rows' = os
  <2>1. os \in [1..n -> Objects]
    BY <1>6
  <2>2. os \in Seq(Objects)
    BY <1>3, <2>1, SeqDef
  <2> QED
    BY <1>3, <1>4, <2>1, <2>2, LenProperties
<1>8. RowObjects(os) = {os[i] : i \in 1..n}
  BY <1>7 DEF RowObjects
<1>9. ASSUME NEW i \in 1..n
      PROVE  /\ os[i] \in Objects /\ as[i] \in found /\ as[i] \in Addresses /\ isValid(as[i])
             /\ dev'[os[i]] = new(as[i])
  <2>1. os[i] \in Objects /\ as[i] \in found /\ os[i] \in RowObjects(os)
    BY <1>6, <1>8
  <2>2. (CHOOSE k \in 1..n : os[k] = os[i]) = i
    BY <1>6
  <2>3. dev'[os[i]] = new(as[CHOOSE k \in 1..n : os[k] = os[i]])
    BY <1>4, <2>1
  <2> QED
    BY <2>1, <2>2, <2>3
<1>10. dev' \in [Objects -> Devices \cup {None}]
  <2>1. ASSUME NEW o \in Objects
        PROVE  dev'[o] \in Devices \cup {None}
    <3>1. CASE o \in RowObjects(os)
      <4>1. PICK i \in 1..n : os[i] = o
        BY <1>8, <3>1
      <4> QED
        BY <1>5, <1>9, <4>1
    <3>2. CASE o \notin RowObjects(os)
      <4>1. dev'[o] = IF o = selected THEN dev[o] ELSE None
        BY <1>4, <3>2
      <4> QED
        BY <1>1, <4>1 DEF DevicesTypeOK
    <3> QED
      BY <3>1, <3>2
  <2>2. DOMAIN dev' = Objects /\ dev' = [o \in Objects |-> dev'[o]]
    BY <1>4
  <2> QED
    BY <2>1, <2>2
<1>11. selected # None => dev'[selected] # None
  <2>1. ASSUME selected # None PROVE dev'[selected] # None
    <3>1. selected \in Objects /\ dev[selected] # None
      BY <1>1, <2>1 DEF DevicesTypeOK
    <3>2. selected \notin RowObjects(os)
      BY <1>6, <1>8
    <3> QED
      BY <1>4, <3>1, <3>2
  <2> QED
    BY <2>1
<1>12. \A i \in 1..Len(rows') : dev'[rows'[i]].address = as[i] /\ dev'[rows'[i]] # None
  <2>1. ASSUME NEW i \in 1..Len(rows')
        PROVE  dev'[rows'[i]].address = as[i] /\ dev'[rows'[i]] # None
    <3>1. i \in 1..n /\ rows'[i] = os[i]
      BY <1>7
    <3>2. dev'[rows'[i]] = new(as[i]) /\ as[i] \in Addresses
      BY <1>9, <3>1
    <3>3. new(as[i]) \in Devices /\ new(as[i]).address = as[i]
      BY <1>5, <3>2
    <3> QED
      BY <3>2, <3>3, NoneAssumption
  <2> QED
    BY <2>1
<1>13. DevicesTypeOK'
  <2>1. \A i \in 1..Len(rows') : dev'[rows'[i]] # None /\ isValid(dev'[rows'[i]].address)
    BY <1>7, <1>9, <1>12
  <2>2. known' \subseteq Addresses
    BY <1>1, <1>4 DEF DevicesTypeOK
  <2> QED
    BY <1>1, <1>4, <1>7, <1>10, <1>11, <2>1, <2>2 DEF DevicesTypeOK
<1>14. UniqueRows'
  <2>1. ASSUME NEW i \in 1..Len(rows'), NEW j \in 1..Len(rows'),
               dev'[rows'[i]].address = dev'[rows'[j]].address
        PROVE  i = j
    <3>1. i \in 1..n /\ j \in 1..n
      BY <1>7
    <3>2. as[i] = as[j]
      BY <1>12, <2>1
    <3> QED
      BY <1>6, <3>1, <3>2
  <2> QED
    BY <2>1 DEF UniqueRows
<1>15. RowAddresses' \subseteq found
  <2>1. ASSUME NEW i \in 1..Len(rows') PROVE dev'[rows'[i]].address \in found
    <3>1. i \in 1..n
      BY <1>7
    <3> QED
      BY <1>9, <1>12, <3>1
  <2> QED
    BY <2>1 DEF RowAddresses, RowObjects
<1> QED
  BY <1>1, <1>4, <1>13, <1>14, <1>15 DEF DevicesInv, ListedAreKnown, ActsOnNamed

-----------------------------------------------------------------------------
(* Timers and replies of a device, and calls of the page. *)

LEMMA DiscoverServicesKeeps == ASSUME DevicesInv, NEW o \in Objects, DiscoverServices(o) PROVE DevicesInv'
<1>1. dev[o] # None /\ UNCHANGED <<rows, selected, hasAdapter, known, listed, owed, misdirected>>
  BY DEF DiscoverServices
<1>2. dev[o] \in Devices /\ owed' \in [Addresses -> Int]
  BY <1>1 DEF DevicesInv, DevicesTypeOK
<1>3. PICK more \in BOOLEAN :
        Update(o, [dev[o] EXCEPT !.shot = more, !.reply = @ \/ dev[o].created])
  BY DEF DiscoverServices
<1> DEFINE d == [dev[o] EXCEPT !.shot = more, !.reply = @ \/ dev[o].created]
<1>4. d \in Devices /\ d.address = dev[o].address
  BY <1>2 DEF Devices
<1> HIDE DEF d
<1>5. Update(o, d)
  BY <1>3 DEF d
<1> QED
  BY <1>1, <1>2, <1>4, <1>5, UpdateKeeps

LEMMA ServiceDiscoveryDoneKeeps ==
    ASSUME DevicesInv, NEW o \in Objects, ServiceDiscoveryDone(o) PROVE DevicesInv'
<1>1. dev[o] # None /\ UNCHANGED <<rows, selected, hasAdapter, known, listed, misdirected>>
  BY DEF ServiceDiscoveryDone
<1>2. dev[o] \in Devices /\ owed \in [Addresses -> Int]
  BY <1>1 DEF DevicesInv, DevicesTypeOK
<1>3. PICK more \in BOOLEAN :
        LET d == [dev[o] EXCEPT !.reply = more] IN
        \/ Connect(d.address, d.pending) /\ Update(o, TakesPending(d))
        \/ UNCHANGED owed /\ Update(o, d)
  BY DEF ServiceDiscoveryDone
<1> DEFINE d == [dev[o] EXCEPT !.reply = more]
<1>4. MaxOwed \in Nat
  BY Zenon, DevicesAssumption
<1>5. /\ d \in Devices /\ d.address = dev[o].address /\ d.address \in Addresses /\ d.pending \in Int
  BY <1>2, <1>4 DEF Devices
<1> HIDE DEF d
<1>6. \/ Connect(d.address, d.pending) /\ Update(o, TakesPending(d))
      \/ UNCHANGED owed /\ Update(o, d)
  BY <1>3 DEF d
<1>7. TakesPending(d) \in Devices /\ TakesPending(d).address = d.address
  BY <1>4, <1>5 DEF TakesPending, Devices
<1>8. owed' \in [Addresses -> Int]
  BY <1>2, <1>5, <1>6 DEF Connect
<1> QED
  BY <1>1, <1>2, <1>5, <1>6, <1>7, <1>8, UpdateKeeps

LEMMA ConnectDeviceKeeps == ASSUME DevicesInv, NEW a \in Addresses, ConnectDevice(a) PROVE DevicesInv'
<1> DEFINE o == rows[RowOf(a)]
<1> DEFINE asked == [owed EXCEPT ![a] = @ + 1]
<1>1. DevicesTypeOK /\ ListedAreKnown /\ ActsOnNamed
  BY DEF DevicesInv
<1>2. o \in Objects /\ dev[o] \in Devices /\ dev[o] # None
  BY <1>1, RowOfFacts, NoneAssumption DEF ConnectDevice
<1>3. owed \in [Addresses -> Int] /\ asked \in [Addresses -> Int]
  BY <1>1 DEF DevicesTypeOK
<1> HIDE DEF o, asked
<1>4. /\ UNCHANGED <<rows, selected, hasAdapter, known, listed, misdirected>>
      /\ IF dev[o].trusted
         THEN owed' \in {asked, owed} /\ UNCHANGED dev
         ELSE /\ owed' = asked
              /\ dev[o].pending < MaxOwed
              /\ Update(o, AddConnectAfterPairing(dev[o]))
  BY DEF ConnectDevice, o, asked
<1>5. owed' \in [Addresses -> Int]
  BY <1>3, <1>4
<1>6. CASE dev[o].trusted
  <2>1. UNCHANGED <<dev, rows, selected, hasAdapter, known, listed, misdirected>>
    BY <1>4, <1>6
  <2> QED
    BY <1>1, <1>5, <2>1, RowsKept DEF DevicesTypeOK, ListedAreKnown, ActsOnNamed
<1>7. CASE ~dev[o].trusted
  <2> DEFINE d == AddConnectAfterPairing(dev[o])
  <2>1. MaxOwed \in Nat
    BY Zenon, DevicesAssumption
  <2>2. dev[o].pending < MaxOwed /\ dev[o].pending \in 0..MaxOwed
    BY <1>2, <1>4, <1>7 DEF Devices
  <2>3. dev[o].pending + 1 \in 0..MaxOwed
    BY <2>1, <2>2
  <2>4. d \in Devices /\ d.address = dev[o].address
    BY <1>2, <2>3 DEF Devices, AddConnectAfterPairing
  <2>5. Update(o, d)
    BY <1>4, <1>7
  <2> HIDE DEF d
  <2> QED
    BY <1>2, <1>4, <1>5, <2>4, <2>5, UpdateKeeps
<1> QED
  BY <1>6, <1>7

\* The selection that is kept has the address asked for, and so has the row.
LEMMA ActOnDeviceKeeps == ASSUME DevicesInv, NEW a \in Addresses, ActOnDevice(a) PROVE DevicesInv'
<1>1. DevicesTypeOK /\ ListedAreKnown /\ ActsOnNamed
  BY DEF DevicesInv
<1>2. /\ UNCHANGED <<rows, hasAdapter, known, listed, owed>>
      /\ selected' = IF selected # None /\ dev[selected].address = a THEN selected ELSE Selection(a)
      /\ dev' = [e \in Objects |-> IF e \in RowObjects(rows) \cup {selected'} THEN dev[e] ELSE None]
      /\ misdirected' = (misdirected \/ (selected' # None /\ dev[selected'].address # a))
  BY DEF ActOnDevice, OtherThanNamed, SetSelectedDevice, Swept
<1>3. /\ selected' \in Objects \cup {None}
      /\ selected' # None => dev[selected'] # None /\ dev[selected'].address = a
  <2>1. CASE selected # None /\ dev[selected].address = a
    BY <1>1, <1>2, <2>1 DEF DevicesTypeOK
  <2>2. CASE ~(selected # None /\ dev[selected].address = a)
    <3>1. selected' = IF RowOf(a) = 0 THEN None ELSE rows[RowOf(a)]
      BY <1>2, <2>2 DEF Selection
    <3>2. CASE RowOf(a) = 0
      BY <3>1, <3>2
    <3>3. CASE RowOf(a) # 0
      BY <1>1, <3>1, <3>3, RowOfFacts, NoneAssumption
    <3> QED
      BY <3>2, <3>3
  <2> QED
    BY <2>1, <2>2
<1>4. misdirected' = FALSE
  BY <1>1, <1>2, <1>3 DEF ActsOnNamed
<1>5. dev' \in [Objects -> Devices \cup {None}]
  BY <1>1, <1>2 DEF DevicesTypeOK
<1>6. ASSUME NEW i \in 1..Len(rows)
      PROVE  dev'[rows[i]] # None /\ dev'[rows[i]].address = dev[rows[i]].address
  <2>1. rows[i] \in Objects /\ dev[rows[i]] # None /\ rows[i] \in RowObjects(rows)
    BY <1>1 DEF DevicesTypeOK, RowObjects
  <2> QED
    BY <1>2, <2>1
<1>7. selected' # None => dev'[selected'] # None
  BY <1>2, <1>3
<1>8. /\ hasAdapter' \in BOOLEAN /\ known' \subseteq Addresses /\ listed' \in BOOLEAN
      /\ (listed' => RowAddresses \subseteq known') /\ owed' \in [Addresses -> Int]
  BY <1>1, <1>2 DEF DevicesTypeOK, ListedAreKnown
<1> QED
  BY <1>2, <1>3, <1>4, <1>5, <1>6, <1>7, <1>8, RowsKept

\* resetDevicesList tells of every row; a page that is loaded anew starts over.
LEMMA PageKeeps == ASSUME DevicesInv, ResetDevicesList \/ LoadPage PROVE DevicesInv'
<1>1. DevicesTypeOK /\ ActsOnNamed
  BY DEF DevicesInv
<1>2. UNCHANGED <<rows, dev, selected, hasAdapter, owed, misdirected>>
  BY DEF ResetDevicesList, LoadPage
<1>3. RowAddresses \subseteq Addresses
  BY <1>1, NoneAssumption DEF DevicesTypeOK, RowAddresses, RowObjects, Devices
<1>4. known' \subseteq Addresses /\ listed' \in BOOLEAN /\ (listed' => RowAddresses \subseteq known')
  BY <1>1, <1>3 DEF ResetDevicesList, LoadPage, DevicesTypeOK
<1> QED
  BY <1>1, <1>2, <1>4, RowsKept DEF DevicesTypeOK, ActsOnNamed

-----------------------------------------------------------------------------
(* Connections that wait for pairing are held by the objects of an address, *)
(* and each of them is owed: there are at most as many as the page asked    *)
(* for and BlueZ has not made, however many objects of that address the     *)
(* selection keeps alive.                                                   *)

\* The connections that wait in the objects of an address, each by its object
\* and its number there.
Pending(a) ==
    {p \in Objects \X Nat :
       dev[p[1]] # None /\ dev[p[1]].address = a /\ p[2] \in 1..dev[p[1]].pending}

Covered(a) == IsFiniteSet(Pending(a)) /\ Cardinality(Pending(a)) <= owed[a]
OwedCovers == \A a \in Addresses : Covered(a)

\* Nothing but connectDevice and the replies changes what waits in a device.
LEMMA PendingKept ==
    ASSUME NEW d \in Devices, NEW p \in BOOLEAN, NEW t \in BOOLEAN, NEW c \in BOOLEAN
    PROVE  /\ UpdateConnection(d, c).pending = d.pending
           /\ UpdatePaired(d, p, c).pending = d.pending
           /\ InitDevice(d, p, t, c).pending = d.pending
<1>1. ASSUME NEW e \in Devices PROVE UpdateConnection(e, c).pending = e.pending
  BY <1>1 DEF UpdateConnection, MakeTrusted, Devices
<1>2. ASSUME NEW e \in Devices PROVE UpdatePaired(e, p, c).pending = e.pending
  <2> DEFINE f == [e EXCEPT !.paired = p, !.shot = @ \/ (p /\ ~e.trusted)]
  <2>1. f \in Devices /\ f.pending = e.pending
    BY DEF Devices
  <2> HIDE DEF f
  <2>2. UpdateConnection(f, c).pending = e.pending
    BY <1>1, <2>1
  <2> QED
    BY <2>2 DEF UpdatePaired, f
<1>3. ASSUME NEW e \in Devices
      PROVE  SetProperties(e, p, t, c) \in Devices /\ SetProperties(e, p, t, c).pending = e.pending
  <2> DEFINE g == UpdateConnection(e, c)
  <2>1. g \in Devices /\ g.pending = e.pending
    BY <1>1, DeviceKinds
  <2> HIDE DEF g
  <2> DEFINE f == UpdatePaired(g, p, c)
  <2>2. f \in Devices /\ f.pending = e.pending
    BY <1>2, <2>1, DeviceKinds
  <2> HIDE DEF f
  <2>3. [f EXCEPT !.trusted = t] \in Devices /\ [f EXCEPT !.trusted = t].pending = e.pending
    BY <2>2 DEF Devices
  <2> QED
    BY <2>3 DEF SetProperties, f, g
<1>4. InitDevice(d, p, t, c).pending = d.pending
  <2> DEFINE f == [d EXCEPT !.created = TRUE]
  <2>1. f \in Devices /\ f.pending = d.pending
    BY DEF Devices
  <2> HIDE DEF f
  <2> DEFINE g == SetProperties(f, p, t, c)
  <2>2. g \in Devices /\ g.pending = d.pending
    BY <1>3, <2>1
  <2> HIDE DEF g
  <2>3. UpdateConnection(g, c).pending = d.pending
    BY <1>1, <2>2
  <2> QED
    BY <2>3 DEF InitDevice, f, g
<1> QED
  BY <1>1, <1>2, <1>4

\* A new object waits for nothing.
LEMMA NewWaitsForNothing ==
    ASSUME NEW a \in Addresses, NEW p \in BOOLEAN, NEW t \in BOOLEAN, NEW c \in BOOLEAN
    PROVE  UpdatePaired(NewDevice(a), p, c).pending = 0 /\ InitDevice(NewDevice(a), p, t, c).pending = 0
<1> DEFINE d == NewDevice(a)
<1>1. d \in Devices /\ d.pending = 0
  BY NewDeviceKind DEF NewDevice
<1> HIDE DEF d
<1>2. UpdatePaired(d, p, c).pending = 0 /\ InitDevice(d, p, t, c).pending = 0
  BY <1>1, PendingKept
<1> QED
  BY <1>2 DEF d

\* What an object holds does not grow in a step that asks for no connection.
Waiting(o) ==
    \/ dev'[o] = None \/ dev'[o].pending = 0
    \/ /\ dev[o] # None /\ dev'[o].address = dev[o].address
       /\ dev'[o].pending = dev[o].pending

\* An address for which nothing new waits, and no connection is made, stays covered.
LEMMA CoveredStep ==
    ASSUME NEW a \in Addresses, Covered(a), owed[a] \in Int,
           Pending(a)' \subseteq Pending(a), owed'[a] \in Int, owed'[a] >= owed[a]
    PROVE  Covered(a)'
<1> DEFINE S == Pending(a)
<1> DEFINE T == Pending(a)'
<1>1. IsFiniteSet(S) /\ Cardinality(S) <= owed[a] /\ T \in SUBSET S
  BY DEF Covered
<1> HIDE DEF S, T
<1>2. IsFiniteSet(T) /\ Cardinality(T) <= Cardinality(S)
  BY <1>1, FS_Subset
<1>3. Cardinality(S) \in Nat /\ Cardinality(T) \in Nat
  BY <1>1, <1>2, FS_CardinalityType
<1>4. Cardinality(T) <= owed'[a]
  BY <1>1, <1>2, <1>3
<1> QED
  BY <1>2, <1>4 DEF Covered, S, T

LEMMA QuietStep ==
    ASSUME OwedCovers, owed \in [Addresses -> Int], owed' \in [Addresses -> Int],
           \A a \in Addresses : owed'[a] >= owed[a], \A o \in Objects : Waiting(o)
    PROVE  OwedCovers'
<1>1. ASSUME NEW a \in Addresses PROVE Covered(a)'
  <2>1. ASSUME NEW p \in Pending(a)' PROVE p \in Pending(a)
    <3>1. /\ p \in Objects \X Nat /\ p[1] \in Objects /\ dev'[p[1]] # None
          /\ dev'[p[1]].address = a /\ p[2] \in 1..dev'[p[1]].pending
      BY <2>1 DEF Pending
    <3>2. dev'[p[1]].pending # 0
      BY <3>1
    <3>3. dev[p[1]] # None /\ dev[p[1]].address = a /\ p[2] \in 1..dev[p[1]].pending
      BY <3>1, <3>2 DEF Waiting
    <3> QED
      BY <3>1, <3>3 DEF Pending
  <2>2. Pending(a)' \subseteq Pending(a)
    BY <2>1
  <2>3. Covered(a)
    BY DEF OwedCovers
  <2> QED
    BY <2>2, <2>3, CoveredStep
<1> QED
  BY <1>1 DEF OwedCovers

\* connectDevice of a device that is not trusted yet: one more waits in its
\* object, and one more is owed.
LEMMA ConnectDeviceCovers ==
    ASSUME DevicesInv, OwedCovers, NEW a \in Addresses, ConnectDevice(a) PROVE OwedCovers'
<1> DEFINE o == rows[RowOf(a)]
<1> DEFINE asked == [owed EXCEPT ![a] = @ + 1]
<1>1. DevicesTypeOK
  BY DEF DevicesInv
<1>2. o \in Objects /\ dev[o] \in Devices /\ dev[o] # None /\ dev[o].address = a
  BY <1>1, RowOfFacts, NoneAssumption DEF ConnectDevice
<1>3. /\ owed \in [Addresses -> Int] /\ asked \in [Addresses -> Int]
      /\ asked[a] = owed[a] + 1 /\ \A b \in Addresses : b # a => asked[b] = owed[b]
      /\ \A b \in Addresses : asked[b] >= owed[b]
  BY <1>1 DEF DevicesTypeOK
<1> HIDE DEF o, asked
<1>4. IF dev[o].trusted
      THEN owed' \in {asked, owed} /\ UNCHANGED dev
      ELSE owed' = asked /\ dev[o].pending < MaxOwed /\ Update(o, AddConnectAfterPairing(dev[o]))
  BY DEF ConnectDevice, o, asked
<1>5. CASE dev[o].trusted
  <2>1. owed' \in [Addresses -> Int] /\ \A b \in Addresses : owed'[b] >= owed[b]
    BY <1>3, <1>4, <1>5
  <2>2. \A e \in Objects : Waiting(e)
    <3>1. dev' = dev
      BY <1>4, <1>5
    <3> QED
      BY <3>1 DEF Waiting
  <2> QED
    BY <1>3, <2>1, <2>2, QuietStep
<1>6. CASE ~dev[o].trusted
  <2> DEFINE n == dev[o].pending
  <2> DEFINE d == AddConnectAfterPairing(dev[o])
  <2>1. MaxOwed \in Nat
    BY Zenon, DevicesAssumption
  <2>2. n \in Nat /\ n + 1 \in 0..MaxOwed
    BY <1>2, <1>4, <1>6, <2>1 DEF Devices
  <2>3. d \in Devices /\ d.address = a /\ d.pending = n + 1 /\ d # None
    BY <1>2, <2>2, NoneAssumption DEF Devices, AddConnectAfterPairing
  <2>4. owed' = asked /\ dev' = [dev EXCEPT ![o] = d] /\ dev \in [Objects -> Devices \cup {None}]
    BY <1>1, <1>4, <1>6 DEF Update, DevicesTypeOK
  <2> HIDE DEF d, n
  <2>5. dev'[o] = d /\ \A e \in Objects : e # o => dev'[e] = dev[e]
    BY <1>2, <2>4
  <2>6. ASSUME NEW b \in Addresses PROVE Covered(b)'
    <3>1. Covered(b)
      BY DEF OwedCovers
    <3>2. CASE b # a
      <4>1. Pending(b)' \subseteq Pending(b)
        BY <1>2, <2>3, <2>5, <3>2 DEF Pending
      <4> QED
        BY <1>3, <2>4, <3>1, <3>2, <4>1, CoveredStep
    <3>3. CASE b = a
      <4> DEFINE S == Pending(a)
      <4> DEFINE T == Pending(a)'
      <4>1. T \subseteq S \cup {<<o, n + 1>>}
        <5>1. ASSUME NEW p \in T PROVE p \in S \/ p = <<o, n + 1>>
          <6>1. /\ p \in Objects \X Nat /\ p[1] \in Objects /\ dev'[p[1]] # None
                /\ dev'[p[1]].address = a /\ p[2] \in 1..dev'[p[1]].pending
            BY <5>1 DEF Pending
          <6>2. CASE p[1] # o
            BY <2>5, <6>1, <6>2 DEF Pending
          <6>3. CASE p[1] = o
            <7>1. p[2] \in 1..n + 1 /\ p = <<o, p[2]>>
              BY <2>3, <2>5, <6>1, <6>3
            <7>2. p[2] \in 1..n \/ p[2] = n + 1
              BY <2>2, <7>1
            <7>3. CASE p[2] \in 1..n
              BY <1>2, <6>1, <6>3, <7>3 DEF Pending, n
            <7> QED
              BY <7>1, <7>2, <7>3
          <6> QED
            BY <6>2, <6>3
        <5> QED
          BY <5>1
      <4>2. IsFiniteSet(S) /\ Cardinality(S) <= owed[a]
        BY <3>1, <3>3 DEF Covered
      <4> HIDE DEF S, T
      <4> DEFINE U == S \cup {<<o, n + 1>>}
      <4>3. IsFiniteSet(U) /\ Cardinality(U) = IF <<o, n + 1>> \in S THEN Cardinality(S) ELSE Cardinality(S) + 1
        BY <4>2, FS_AddElement
      <4>4. T \in SUBSET U
        BY <4>1
      <4> HIDE DEF U
      <4>5. IsFiniteSet(T) /\ Cardinality(T) <= Cardinality(U)
        BY <4>3, <4>4, FS_Subset
      <4>6. Cardinality(S) \in Nat /\ Cardinality(T) \in Nat /\ Cardinality(U) \in Nat
        BY <4>2, <4>3, <4>5, FS_CardinalityType
      <4>7. Cardinality(T) <= owed'[a]
        BY <1>3, <2>4, <4>2, <4>3, <4>5, <4>6
      <4> QED
        BY <3>3, <4>5, <4>7 DEF Covered, T
    <3> QED
      BY <3>2, <3>3
  <2> QED
    BY <2>6 DEF OwedCovers
<1> QED
  BY <1>5, <1>6

\* A reply makes all the connections that wait in its object, each of which was
\* owed, or none of them.
LEMMA ServiceDiscoveryDoneCovers ==
    ASSUME DevicesInv, OwedCovers, NEW o \in Objects, ServiceDiscoveryDone(o) PROVE OwedCovers'
<1>1. /\ dev[o] # None /\ dev \in [Objects -> Devices \cup {None}] /\ dev[o] \in Devices
      /\ owed \in [Addresses -> Int]
  BY DEF ServiceDiscoveryDone, DevicesInv, DevicesTypeOK
<1>2. MaxOwed \in Nat
  BY Zenon, DevicesAssumption
<1>3. PICK a \in Addresses, n \in Nat : a = dev[o].address /\ n = dev[o].pending
  BY <1>1, <1>2 DEF Devices
<1>4. PICK more \in BOOLEAN :
        LET d == [dev[o] EXCEPT !.reply = more] IN
        \/ Connect(d.address, d.pending) /\ Update(o, TakesPending(d))
        \/ UNCHANGED owed /\ Update(o, d)
  BY DEF ServiceDiscoveryDone
<1> DEFINE d == [dev[o] EXCEPT !.reply = more]
<1>5. /\ d \in Devices /\ d.address = a /\ d.pending = n
      /\ TakesPending(d).address = a /\ TakesPending(d).pending = 0
  BY <1>1, <1>2, <1>3 DEF Devices, TakesPending
<1> HIDE DEF d
<1>6. \/ Connect(a, n) /\ Update(o, TakesPending(d))
      \/ UNCHANGED owed /\ Update(o, d)
  BY <1>4, <1>5 DEF d
<1>7. CASE UNCHANGED owed /\ Update(o, d)
  <2>1. dev'[o] = d /\ \A e \in Objects : e # o => dev'[e] = dev[e]
    BY <1>1, <1>7 DEF Update
  <2>2. \A e \in Objects : Waiting(e)
    BY <1>1, <1>3, <1>5, <2>1 DEF Waiting
  <2>3. owed' \in [Addresses -> Int] /\ \A b \in Addresses : owed'[b] >= owed[b]
    BY <1>1, <1>7
  <2> QED
    BY <1>1, <2>2, <2>3, QuietStep
<1>8. CASE Connect(a, n) /\ Update(o, TakesPending(d))
  <2>1. dev'[o] = TakesPending(d) /\ \A e \in Objects : e # o => dev'[e] = dev[e]
    BY <1>1, <1>8 DEF Update
  <2>2. /\ owed' \in [Addresses -> Int] /\ owed'[a] >= owed[a] - n
        /\ \A b \in Addresses : b # a => owed'[b] = owed[b]
    BY <1>1, <1>8 DEF Connect
  <2>3. ASSUME NEW b \in Addresses PROVE Covered(b)'
    <3>1. Covered(b)
      BY DEF OwedCovers
    <3>2. CASE b # a
      <4>1. Pending(b)' \subseteq Pending(b)
        BY <1>5, <2>1, <3>2 DEF Pending
      <4> QED
        BY <1>1, <2>2, <3>1, <3>2, <4>1, CoveredStep
    <3>3. CASE b = a
      <4> DEFINE S == Pending(a)
      <4> DEFINE T == Pending(a)'
      <4> DEFINE taken == {o} \X (1..n)
      <4>1. taken \subseteq S
        BY <1>1, <1>3 DEF Pending
      <4>2. T \subseteq S \ taken
        <5>1. ASSUME NEW p \in T PROVE p \in S /\ p[1] # o
          <6>1. /\ p \in Objects \X Nat /\ p[1] \in Objects /\ dev'[p[1]] # None
                /\ dev'[p[1]].address = a /\ p[2] \in 1..dev'[p[1]].pending
            BY <5>1 DEF Pending
          <6>2. p[1] # o
            BY <1>5, <2>1, <6>1
          <6> QED
            BY <2>1, <6>1, <6>2 DEF Pending
        <5> QED
          BY <5>1
      <4>3. IsFiniteSet(S) /\ Cardinality(S) <= owed[a]
        BY <3>1, <3>3 DEF Covered
      <4>4. IsFiniteSet(taken) /\ Cardinality(taken) = n
        <5>1. IsFiniteSet({o}) /\ Cardinality({o}) = 1
          BY FS_Singleton
        <5>2. IsFiniteSet(1..n) /\ Cardinality(1..n) = n
          <6>1. IsFiniteSet(1..n) /\ Cardinality(1..n) = IF 1 > n THEN 0 ELSE n - 1 + 1
            BY <1>5, FS_Interval
          <6> QED
            BY <1>5, <6>1
        <5>3. IsFiniteSet(taken) /\ Cardinality(taken) = 1 * n
          BY <5>1, <5>2, FS_Product
        <5> QED
          BY <1>5, <5>3
      <4> HIDE DEF S, T, taken
      <4> DEFINE U == S \ taken
      <4>5. IsFiniteSet(U) /\ Cardinality(U) = Cardinality(S) - n
        <5>1. S \cap taken = taken
          BY <4>1
        <5>2. IsFiniteSet(U) /\ Cardinality(U) = Cardinality(S) - Cardinality(S \cap taken)
          BY <4>3, FS_Difference
        <5> QED
          BY <4>4, <5>1, <5>2
      <4>6. T \in SUBSET U
        BY <4>2
      <4> HIDE DEF U
      <4>7. IsFiniteSet(T) /\ Cardinality(T) <= Cardinality(U)
        BY <4>5, <4>6, FS_Subset
      <4>8. Cardinality(S) \in Nat /\ Cardinality(T) \in Nat /\ Cardinality(U) \in Nat
        BY <4>3, <4>5, <4>7, FS_CardinalityType
      <4>9. Cardinality(T) <= owed'[a]
        BY <1>1, <1>5, <2>2, <4>3, <4>5, <4>7, <4>8
      <4> QED
        BY <3>3, <4>7, <4>9 DEF Covered, T
    <3> QED
      BY <3>2, <3>3
  <2> QED
    BY <2>3 DEF OwedCovers
<1> QED
  BY <1>6, <1>7, <1>8

\* Sweeping away what is not held leaves the objects that are as they were.
LEMMA SweptWaits ==
    ASSUME NEW rs, NEW s, dev' = Swept(dev, rs, s) PROVE \A o \in Objects : Waiting(o)
<1> QED
  BY DEF Swept, Waiting

\* A step that replaces one object by one with the same address and number.
LEMMA UpdateWaits ==
    ASSUME dev \in [Objects -> Devices \cup {None}], NEW o \in Objects, dev[o] # None, NEW d,
           d.address = dev[o].address, d.pending = dev[o].pending, Update(o, d)
    PROVE  \A e \in Objects : Waiting(e)
<1>1. dev'[o] = d /\ \A e \in Objects : e # o => dev'[e] = dev[e]
  BY DEF Update
<1> QED
  BY <1>1 DEF Waiting

\* addDevice puts one object in place; the others stay or are let go.
LEMMA AddWaits ==
    ASSUME dev \in [Objects -> Devices \cup {None}], NEW o \in Objects, NEW d, AddDevice(o, d),
           d.pending = 0 \/ (dev[o] # None /\ d.address = dev[o].address /\ d.pending = dev[o].pending)
    PROVE  \A e \in Objects : Waiting(e)
<1>1. ASSUME NEW e \in Objects PROVE dev'[e] = [dev EXCEPT ![o] = d][e] \/ dev'[e] = None
  BY DEF AddDevice, Swept
<1>2. ASSUME NEW e \in Objects PROVE [dev EXCEPT ![o] = d][e] = IF e = o THEN d ELSE dev[e]
  OBVIOUS
<1>3. ASSUME NEW e \in Objects PROVE Waiting(e)
  <2>1. CASE dev'[e] = None
    BY <2>1 DEF Waiting
  <2>2. CASE dev'[e] # None
    BY <1>1, <1>2, <2>2 DEF Waiting
  <2> QED
    BY <2>1, <2>2
<1> QED
  BY <1>3

LEMMA FoundOrCreatedWaits ==
    ASSUME DevicesInv, NEW a \in Addresses, DeviceFound(a) \/ DeviceCreated(a)
    PROVE  owed' = owed /\ \A e \in Objects : Waiting(e)
<1> DEFINE o == rows[RowOf(a)]
<1>1. DevicesTypeOK /\ dev \in [Objects -> Devices \cup {None}]
  BY DEF DevicesInv, DevicesTypeOK
<1>2. owed' = owed
  BY DEF DeviceFound, DeviceCreated
<1>3. RowOf(a) # 0 => o \in Objects /\ dev[o] \in Devices /\ dev[o] # None
  BY <1>1, RowOfFacts, NoneAssumption
<1>4. CASE RowOf(a) = 0
  <2>1. PICK d : AddNewDevice(d) /\ d.pending = 0
    <3>1. CASE DeviceFound(a)
      <4>1. PICK paired \in BOOLEAN : AddNewDevice(UpdatePaired(NewDevice(a), paired, FALSE))
        BY <1>4, <3>1 DEF DeviceFound
      <4> QED
        BY <4>1, NewWaitsForNothing
    <3>2. CASE DeviceCreated(a)
      <4>1. PICK p \in BOOLEAN, t \in BOOLEAN, c \in BOOLEAN : AddNewDevice(InitDevice(NewDevice(a), p, t, c))
        BY <1>4, <3>2 DEF DeviceCreated
      <4> QED
        BY <4>1, NewWaitsForNothing
    <3> QED
      BY <3>1, <3>2
  <2>2. PICK e \in Objects : AddDevice(e, d)
    BY <2>1 DEF AddNewDevice
  <2> QED
    BY <1>1, <1>2, <2>1, <2>2, AddWaits
<1>5. CASE RowOf(a) # 0
  <2>1. CASE DeviceFound(a)
    <3>1. PICK p \in BOOLEAN, c \in BOOLEAN : Update(o, UpdatePaired(dev[o], p, c))
      BY <1>5, <2>1 DEF DeviceFound
    <3> HIDE DEF o
    <3>2. /\ UpdatePaired(dev[o], p, c).address = dev[o].address
          /\ UpdatePaired(dev[o], p, c).pending = dev[o].pending
      BY <1>3, <1>5, DeviceKinds, PendingKept
    <3> QED
      BY <1>1, <1>2, <1>3, <1>5, <3>1, <3>2, UpdateWaits
  <2>2. CASE DeviceCreated(a)
    <3>1. PICK p \in BOOLEAN, t \in BOOLEAN, c \in BOOLEAN : AddDevice(o, InitDevice(dev[o], p, t, c))
      BY <1>5, <2>2 DEF DeviceCreated
    <3> HIDE DEF o
    <3>2. /\ InitDevice(dev[o], p, t, c).address = dev[o].address
          /\ InitDevice(dev[o], p, t, c).pending = dev[o].pending
      <4> DEFINE old == dev[o]
      <4>1. old \in Devices
        BY <1>3, <1>5
      <4> HIDE DEF old
      <4>2. InitDevice(old, p, t, c).address = old.address /\ InitDevice(old, p, t, c).pending = old.pending
        BY <4>1, DeviceKinds, PendingKept
      <4> QED
        BY <4>2 DEF old
    <3> QED
      BY <1>1, <1>2, <1>3, <1>5, <3>1, <3>2, AddWaits
  <2> QED
    BY <2>1, <2>2
<1> QED
  BY <1>4, <1>5

LEMMA SetAdapterWaits ==
    ASSUME DevicesInv, SetAdapter PROVE owed' = owed /\ \A e \in Objects : Waiting(e)
<1>1. PICK found \in SUBSET {a \in Addresses : isValid(a)},
           paired \in BOOLEAN, trusted \in BOOLEAN, connected \in BOOLEAN :
        \E as \in Injections(found, Cardinality(found)),
           os \in Injections(Objects \ {selected}, Cardinality(found)) :
        /\ hasAdapter' = TRUE
        /\ rows' = os
        /\ dev' = [o \in Objects |->
                     IF o \in RowObjects(os)
                     THEN InitDevice(NewDevice(as[CHOOSE i \in 1..Cardinality(found) : os[i] = o]),
                                     paired, trusted, connected)
                     ELSE IF o = selected THEN dev[o] ELSE None]
        /\ known' = known \cup found
        /\ UNCHANGED <<selected, listed, owed, misdirected>>
  BY DEF SetAdapter
<1> DEFINE n == Cardinality(found)
<1>2. n \in Nat
  <2>1. IsFiniteSet(Addresses) /\ found \subseteq Addresses
    BY Zenon, DevicesAssumption
  <2> QED
    BY <2>1, FS_Subset, FS_CardinalityType
<1> HIDE DEF n
<1>3. PICK as \in Injections(found, n), os \in Injections(Objects \ {selected}, n) :
        /\ dev' = [o \in Objects |->
                     IF o \in RowObjects(os)
                     THEN InitDevice(NewDevice(as[CHOOSE i \in 1..n : os[i] = o]), paired, trusted, connected)
                     ELSE IF o = selected THEN dev[o] ELSE None]
        /\ UNCHANGED <<selected, listed, owed, misdirected>>
  BY <1>1 DEF n
<1>4. /\ as \in [1..n -> found] /\ os \in [1..n -> Objects \ {selected}] /\ Len(os) = n
  <2>1. as \in [1..n -> found] /\ os \in [1..n -> Objects \ {selected}]
    BY DEF Injections
  <2>2. os \in [1..n -> Objects]
    BY <2>1
  <2>3. os \in Seq(Objects)
    BY <1>2, <2>2, SeqDef
  <2>4. Len(os) = n
    BY <1>2, <2>2, <2>3, LenProperties
  <2> QED
    BY <2>1, <2>4
<1>5. ASSUME NEW o \in Objects PROVE Waiting(o)
  <2>1. CASE o \in RowObjects(os)
    <3>1. \E i \in 1..n : os[i] = o
      BY <1>4, <2>1 DEF RowObjects
    <3> DEFINE a == as[CHOOSE i \in 1..n : os[i] = o]
    <3>2. a \in Addresses
      BY <1>4, <3>1
    <3>3. dev'[o] = InitDevice(NewDevice(a), paired, trusted, connected)
      BY <1>3, <2>1
    <3> HIDE DEF a
    <3>4. dev'[o].pending = 0
      BY <3>2, <3>3, NewWaitsForNothing
    <3> QED
      BY <3>4 DEF Waiting
  <2>2. CASE o \notin RowObjects(os)
    BY <1>3, <2>2 DEF Waiting
  <2> QED
    BY <2>1, <2>2
<1> QED
  BY <1>3, <1>5

LEMMA DeviceStepWaits ==
    ASSUME DevicesInv, NEW o \in Objects, PropertyChanged(o) \/ DiscoverServices(o)
    PROVE  owed' = owed /\ \A e \in Objects : Waiting(e)
<1>1. /\ dev \in [Objects -> Devices \cup {None}] /\ dev[o] \in Devices /\ dev[o] # None
      /\ owed' = owed
  BY DEF DevicesInv, DevicesTypeOK, PropertyChanged, DiscoverServices
<1>2. PICK d : Update(o, d) /\ d.address = dev[o].address /\ d.pending = dev[o].pending
  <2>1. CASE PropertyChanged(o)
    <3>1. PICK v \in BOOLEAN, c \in BOOLEAN :
            \/ Update(o, UpdatePaired(dev[o], v, c))
            \/ Update(o, [dev[o] EXCEPT !.trusted = v])
            \/ Update(o, UpdateConnection(dev[o], c))
      BY <2>1 DEF PropertyChanged
    <3>2. CASE Update(o, [dev[o] EXCEPT !.trusted = v])
      <4>1. /\ [dev[o] EXCEPT !.trusted = v].address = dev[o].address
            /\ [dev[o] EXCEPT !.trusted = v].pending = dev[o].pending
        BY <1>1 DEF Devices
      <4> QED
        BY <3>2, <4>1
    <3> QED
      BY <1>1, <3>1, <3>2, DeviceKinds, PendingKept
  <2>2. CASE DiscoverServices(o)
    <3>1. PICK more \in BOOLEAN :
            Update(o, [dev[o] EXCEPT !.shot = more, !.reply = @ \/ dev[o].created])
      BY <2>2 DEF DiscoverServices
    <3> DEFINE d == [dev[o] EXCEPT !.shot = more, !.reply = @ \/ dev[o].created]
    <3>2. d.address = dev[o].address /\ d.pending = dev[o].pending
      BY <1>1 DEF Devices
    <3> HIDE DEF d
    <3> QED
      BY <3>1, <3>2 DEF d
  <2> QED
    BY <2>1, <2>2
<1> QED
  BY <1>1, <1>2, UpdateWaits

-----------------------------------------------------------------------------
(* The invariant holds, and with it the properties. *)

LEMMA DevicesInitOK == DevicesInit => DevicesInv
<1> SUFFICES ASSUME DevicesInit PROVE DevicesInv
  OBVIOUS
<1>1. rows = <<>> /\ rows \in Seq(Objects) /\ 1..Len(rows) = {}
  BY DEF DevicesInit
<1>2. DevicesTypeOK
  <2>1. /\ dev = [o \in Objects |-> None] /\ selected = None /\ hasAdapter = FALSE /\ known = {}
        /\ listed = FALSE /\ owed = [a \in Addresses |-> 0] /\ misdirected = FALSE
    BY DEF DevicesInit
  <2>2. dev \in [Objects -> Devices \cup {None}] /\ owed \in [Addresses -> Int]
    BY <2>1
  <2> QED
    BY <1>1, <2>1, <2>2 DEF DevicesTypeOK
<1> QED
  BY <1>1, <1>2 DEF DevicesInit, DevicesInv, UniqueRows, ListedAreKnown, ActsOnNamed

LEMMA DevicesStep == DevicesInv /\ [DevicesNext]_devicesVars => DevicesInv'
<1> SUFFICES ASSUME DevicesInv, [DevicesNext]_devicesVars PROVE DevicesInv'
  OBVIOUS
<1>1. CASE UNCHANGED devicesVars
  BY <1>1, RowsKept DEF devicesVars, DevicesInv, DevicesTypeOK, ListedAreKnown, ActsOnNamed
<1>2. ASSUME NEW a \in Addresses,
             DeviceFound(a) \/ DeviceCreated(a) \/ DeviceRemoved(a) \/ ConnectDevice(a) \/ ActOnDevice(a)
      PROVE  DevicesInv'
  BY <1>2, DeviceFoundKeeps, DeviceCreatedKeeps, DeviceRemovedKeeps, ConnectDeviceKeeps, ActOnDeviceKeeps
<1>3. ASSUME NEW o \in Objects,
             PropertyChanged(o) \/ DiscoverServices(o) \/ ServiceDiscoveryDone(o)
      PROVE  DevicesInv'
  BY <1>3, PropertyChangedKeeps, DiscoverServicesKeeps, ServiceDiscoveryDoneKeeps
<1>4. CASE AdapterRemoved \/ SetAdapter
  BY <1>4, AdapterRemovedKeeps, SetAdapterKeeps
<1>5. CASE ResetDevicesList \/ LoadPage
  BY <1>5, PageKeeps
<1> QED
  BY <1>1, <1>2, <1>3, <1>4, <1>5 DEF DevicesNext

\* What waits and what is owed stay in step: only connectDevice and the replies
\* change either, and objects are made waiting for nothing.
LEMMA CoversStep == DevicesInv /\ OwedCovers /\ [DevicesNext]_devicesVars => OwedCovers'
<1> SUFFICES ASSUME DevicesInv, OwedCovers, [DevicesNext]_devicesVars PROVE OwedCovers'
  OBVIOUS
<1>1. DevicesTypeOK
  BY DEF DevicesInv
<1>2. owed \in [Addresses -> Int] /\ \A a \in Addresses : owed[a] >= owed[a]
  BY <1>1 DEF DevicesTypeOK
<1>3. ASSUME owed' = owed, \A o \in Objects : Waiting(o) PROVE OwedCovers'
  BY <1>2, <1>3, QuietStep
<1>4. ASSUME UNCHANGED <<dev, owed>> PROVE OwedCovers'
  BY <1>3, <1>4 DEF Waiting
<1>5. CASE UNCHANGED devicesVars \/ ResetDevicesList \/ LoadPage
  BY <1>4, <1>5 DEF devicesVars, ResetDevicesList, LoadPage
<1>6. ASSUME NEW a \in Addresses, DeviceFound(a) \/ DeviceCreated(a) PROVE OwedCovers'
  BY <1>3, <1>6, FoundOrCreatedWaits
<1>7. ASSUME NEW a \in Addresses, DeviceRemoved(a) \/ ActOnDevice(a) PROVE OwedCovers'
  BY <1>3, <1>7, SweptWaits DEF DeviceRemoved, RemoveRow, ActOnDevice, SetSelectedDevice
<1>8. CASE AdapterRemoved
  BY <1>3, <1>8, SweptWaits DEF AdapterRemoved
<1>9. CASE SetAdapter
  BY <1>3, <1>9, SetAdapterWaits
<1>10. ASSUME NEW o \in Objects, PropertyChanged(o) \/ DiscoverServices(o) PROVE OwedCovers'
  BY <1>3, <1>10, DeviceStepWaits
<1>11. ASSUME NEW a \in Addresses, ConnectDevice(a) PROVE OwedCovers'
  BY <1>11, ConnectDeviceCovers
<1>12. ASSUME NEW o \in Objects, ServiceDiscoveryDone(o) PROVE OwedCovers'
  BY <1>12, ServiceDiscoveryDoneCovers
<1> QED
  BY <1>5, <1>6, <1>7, <1>8, <1>9, <1>10, <1>11, <1>12 DEF DevicesNext

LEMMA DevicesInvHolds == DevicesSpec => []DevicesInv
<1> QED
  BY DevicesInitOK, DevicesStep, PTL DEF DevicesSpec

\* Type correctness: every row and the selection hold a living object of a
\* valid type, whatever order BlueZ's signals are handled in.
THEOREM DevicesTypeCorrect == DevicesSpec => []DevicesTypeOK
<1>1. DevicesInv => DevicesTypeOK
  BY DEF DevicesInv
<1> QED
  BY <1>1, DevicesInvHolds, PTL

\* A device that is found and then created under a path keeps its one row.
THEOREM OneRowPerAddress == DevicesSpec => []UniqueRows
<1>1. DevicesInv => UniqueRows
  BY DEF DevicesInv
<1> QED
  BY <1>1, DevicesInvHolds, PTL

\* A page that asked for the list knows every device in it from then on.
THEOREM PageKnowsRows == DevicesSpec => []ListedAreKnown
<1>1. DevicesInv => ListedAreKnown
  BY DEF DevicesInv
<1> QED
  BY <1>1, DevicesInvHolds, PTL

\* Disconnecting and removing never reach another device than the one named.
THEOREM NamedDeviceOnly == DevicesSpec => []ActsOnNamed
<1>1. DevicesInv => ActsOnNamed
  BY DEF DevicesInv
<1> QED
  BY <1>1, DevicesInvHolds, PTL

\* No device is connected more often than the page asked: the connections that
\* wait are owed, and a reply takes all that wait in its object.
THEOREM ConnectsNeverExceed == DevicesSpec => []ConnectsAsked
<1>1. DevicesInit => OwedCovers
  <2> SUFFICES ASSUME DevicesInit, NEW a \in Addresses PROVE Covered(a)
    BY DEF OwedCovers
  <2>1. Pending(a) = {} /\ owed[a] = 0
    BY DEF DevicesInit, Pending
  <2>2. IsFiniteSet({}) /\ Cardinality({}) = 0
    BY FS_EmptySet
  <2> QED
    BY <2>1, <2>2 DEF Covered
<1>2. DevicesInv /\ OwedCovers => ConnectsAsked
  <2> SUFFICES ASSUME DevicesInv, OwedCovers, NEW a \in Addresses PROVE owed[a] >= 0
    BY DEF ConnectsAsked
  <2>1. owed[a] \in Int
    BY DEF DevicesInv, DevicesTypeOK
  <2>2. Cardinality(Pending(a)) \in Nat /\ Cardinality(Pending(a)) <= owed[a]
    BY FS_CardinalityType DEF OwedCovers, Covered
  <2> QED
    BY <2>1, <2>2
<1> QED
  BY <1>1, <1>2, DevicesInvHolds, CoversStep, PTL DEF DevicesSpec
=============================================================================
