------------------------------ MODULE BtDevices ------------------------------
(***************************************************************************)
(* The devices the BluetoothManager extension lists (DeviceModel, Device), *)
(* the device its page acts on (Bluetooth), and what the page knows of it. *)
(*                                                                         *)
(* A device is first found in a scan and later created under a path, when  *)
(* it gets its D-Bus interfaces.  The signals of BlueZ that say so, and    *)
(* the replies to what a device asked, come in any order; signals posted   *)
(* before an adapter was let go may be handled after it.  Device objects   *)
(* live as long as a row of the model or the selection holds them, and     *)
(* their timers and pending calls with them.                               *)
(***************************************************************************)
EXTENDS Integers, Sequences, FiniteSets

CONSTANTS Objects,     \* identities of Device objects
          Addresses,   \* addresses of devices; a device has one path
          Class,       \* their Class of Device numbers
          None,        \* no object, or an object that does not exist
          MaxOwed      \* bound: connections of an address that are not made yet

ASSUME DevicesAssumption ==
    /\ IsFiniteSet(Addresses)
    /\ Class \in [Addresses -> 0..2^24 - 1]
    /\ None \notin Objects
    /\ MaxOwed \in Nat

VARIABLES
  rows,         \* m_devices
  dev,          \* the Device objects
  selected,     \* m_selectedDevice
  hasAdapter,   \* m_bluezAdapter is not null
  known,        \* addresses the page was told of since it was loaded
  listed,       \* the page has called resetDevicesList since it was loaded
  owed,         \* per address: connections the page asked for less those made
  misdirected   \* history: a device was disconnected or removed in place of another

devicesVars == <<rows, dev, selected, hasAdapter, known, listed, owed, misdirected>>

-----------------------------------------------------------------------------
(* Types of devices. *)

PhoneType(minor) ==
    CASE minor = 1 -> "Cellular" [] minor = 3 -> "Smartphone"
      [] minor = 4 -> "Modem"    [] OTHER     -> "Phone"

AudioType(minor) ==
    CASE minor \in {1, 2} -> "Headset" [] minor = 5  -> "Speakers"
      [] minor = 6 -> "Headphones"     [] minor = 8  -> "Carkit"
      [] minor \in 11..13 -> "Video"   [] OTHER      -> "OtherAudio"

\* A combined keyboard and pointer (both bits set) is none of these.
PeripheralType(kind, minor) ==
    CASE kind = 0 /\ minor \in {1, 2} -> "Joypad" [] kind = 1 -> "Keyboard"
      [] kind = 2 /\ minor = 5        -> "Tablet" [] kind = 2 -> "Mouse"
      [] OTHER -> "Other"

ImagingType(printer, camera) ==
    CASE printer -> "Printer" [] camera -> "Camera" [] OTHER -> "Other"

\* Device::getTypeFromClass: the bits of the Class of Device.
getTypeFromClass(c) ==
    LET major == (c \div 256) % 32
        minor == (c \div 4) % 64
    IN  CASE major = 1 -> "Computer"
          [] major = 2 -> PhoneType(minor)
          [] major = 3 -> "Network"
          [] major = 4 -> AudioType(minor)
          [] major = 5 -> PeripheralType((c \div 64) % 4, minor % 8)
          [] major = 6 -> ImagingType((c \div 128) % 2 = 1, (c \div 32) % 2 = 1)
          [] OTHER     -> "Other"

Type(a)    == getTypeFromClass(Class[a])
isValid(a) == Type(a) # "Other"

\* The types connectDevice and disconnectDevice have a ConnectionMode for.
Connectable(a) == Type(a) \in {"Headset", "Headphones", "OtherAudio", "Speakers", "Carkit",
                               "Keyboard", "Mouse"}

-----------------------------------------------------------------------------
(* Device objects. *)

Devices == [address : Addresses, created : BOOLEAN, paired : BOOLEAN, trusted : BOOLEAN,
            pending : 0..MaxOwed, shot : BOOLEAN, reply : BOOLEAN]

ASSUME NoneAssumption == None \notin Devices

\* shot: timers for discoverServices run; reply: calls that end in
\* slotServiceDiscoveryDone are under way.  One or more: each may be the last.
NewDevice(a) == [address |-> a, created |-> FALSE, paired |-> FALSE, trusted |-> FALSE,
                 pending |-> 0, shot |-> FALSE, reply |-> FALSE]

\* makeTrusted asks BlueZ, through the device's own interface.
MakeTrusted(d) == [d EXCEPT !.reply = @ \/ d.created]

\* updateConnection: a connected device that is paired is made trusted.
UpdateConnection(d, connected) ==
    IF connected /\ d.paired /\ ~d.trusted THEN MakeTrusted(d) ELSE d

\* updateProperty "Paired": connectPending sets a timer for discoverServices.
UpdatePaired(d, paired, connected) ==
    UpdateConnection([d EXCEPT !.paired = paired,
                               !.shot = @ \/ (paired /\ ~d.trusted)], connected)

\* setProperties: the properties come sorted by name.
SetProperties(d, paired, trusted, connected) ==
    [UpdatePaired(UpdateConnection(d, connected), paired, connected) EXCEPT !.trusted = trusted]

\* initDevice: the interfaces of the path, and the properties of each.
InitDevice(d, paired, trusted, connected) ==
    UpdateConnection(SetProperties([d EXCEPT !.created = TRUE], paired, trusted, connected), connected)

DevicesTypeOK ==
    /\ rows \in Seq(Objects)
    /\ dev \in [Objects -> Devices \cup {None}]
    /\ \A i \in 1..Len(rows) : dev[rows[i]] # None /\ isValid(dev[rows[i]].address)
    /\ selected \in Objects \cup {None}
    /\ selected # None => dev[selected] # None
    /\ hasAdapter \in BOOLEAN
    /\ known \subseteq Addresses
    /\ listed \in BOOLEAN
    /\ owed \in [Addresses -> Int]
    /\ misdirected \in BOOLEAN

DevicesInit ==
    /\ rows = <<>>
    /\ dev = [o \in Objects |-> None]
    /\ selected = None
    /\ hasAdapter = FALSE
    /\ known = {} /\ listed = FALSE
    /\ owed = [a \in Addresses |-> 0]
    /\ misdirected = FALSE

\* findRowFromAddress, 0 if there is none.
RowOf(a) ==
    IF \E i \in 1..Len(rows) : dev[rows[i]].address = a
    THEN CHOOSE i \in 1..Len(rows) : dev[rows[i]].address = a ELSE 0

RowObjects(rs) == {rs[i] : i \in 1..Len(rs)}
RowAddresses   == {dev[o].address : o \in RowObjects(rows)}

SweptRows(objects, rs, s) ==
    [o \in Objects |-> IF o \in RowObjects(rs) THEN objects[o] ELSE None]
\* Objects that neither rs nor s holds are deleted.
Swept(objects, rs, s) ==
    [o \in Objects |-> IF o \in RowObjects(rs) \cup {s} THEN objects[o] ELSE None]

Update(o, d) == dev' = [dev EXCEPT ![o] = d]

AppendedAlways(o, a) == Append(rows, o)
\* addDevice: a row of the same address is taken over, or a row is added.
Added(o, a) == IF RowOf(a) = 0 THEN Append(rows, o) ELSE [rows EXCEPT ![RowOf(a)] = o]

TellsOfNone(a) == {}
\* addDevice emits deviceFound for a row that is added.
TellsOf(a) == IF RowOf(a) = 0 THEN {a} ELSE {}

AddDevice(o, d) ==
    /\ rows' = Added(o, d.address)
    /\ dev' = Swept([dev EXCEPT ![o] = d], rows', selected)
    /\ known' = known \cup TellsOf(d.address)

AddNewDevice(d) == isValid(d.address) /\ \E o \in Objects : dev[o] = None /\ AddDevice(o, d)

RemoveRow(i) ==
    /\ rows' = [j \in 1..Len(rows) - 1 |-> IF j < i THEN rows[j] ELSE rows[j + 1]]
    /\ dev' = Swept(dev, rows', selected)

-----------------------------------------------------------------------------
(* Signals of BlueZ. *)

\* slotDeviceFound: the device of an advertisement has no path yet.
DeviceFound(a) ==
    \E paired, connected \in BOOLEAN :
      /\ IF RowOf(a) = 0
         THEN AddNewDevice(UpdatePaired(NewDevice(a), paired, FALSE))
         ELSE /\ Update(rows[RowOf(a)], UpdatePaired(dev[rows[RowOf(a)]], paired, connected))
              /\ UNCHANGED <<rows, known>>
      /\ UNCHANGED <<selected, hasAdapter, listed, owed, misdirected>>

\* slotDeviceCreated: a device of that address is initialized again, in place.
DeviceCreated(a) ==
    \E paired, trusted, connected \in BOOLEAN :
      /\ IF RowOf(a) = 0
         THEN AddNewDevice(InitDevice(NewDevice(a), paired, trusted, connected))
         ELSE LET o == rows[RowOf(a)] IN
              AddDevice(o, InitDevice(dev[o], paired, trusted, connected))
      /\ UNCHANGED <<selected, hasAdapter, listed, owed, misdirected>>

\* Device::slotPropertyChanged, of any object that has its interfaces, listed
\* or only selected.
PropertyChanged(o) ==
    /\ dev[o] # None /\ dev[o].created
    /\ \E v, connected \in BOOLEAN :
         \/ Update(o, UpdatePaired(dev[o], v, connected))
         \/ Update(o, [dev[o] EXCEPT !.trusted = v])
         \/ Update(o, UpdateConnection(dev[o], connected))
    /\ UNCHANGED <<rows, selected, hasAdapter, known, listed, owed, misdirected>>

\* slotDeviceRemoved, slotDeviceDisappeared.  The scripts for the page hold the
\* address without quotes and do not parse: the page learns nothing.
DeviceRemoved(a) ==
    /\ RowOf(a) # 0
    /\ dev[rows[RowOf(a)]].created \/ ~dev[rows[RowOf(a)]].paired
    /\ RemoveRow(RowOf(a))
    /\ UNCHANGED <<selected, hasAdapter, known, listed, owed, misdirected>>

\* clearAdapter lets all rows go, and tells nobody.
AdapterRemoved ==
    /\ hasAdapter
    /\ hasAdapter' = FALSE
    /\ rows' = <<>>
    /\ dev' = Swept(dev, <<>>, selected)
    /\ UNCHANGED <<selected, known, listed, owed, misdirected>>

\* The ways to line up the members of S.
Injections(S, n) ==
    {f \in [1..n -> S] : \A i, j \in 1..n : f[i] = f[j] => i = j}

\* setAdapterFromPath: clearAdapter, then the devices BlueZ lists.  (bound: they
\* have the same properties.)
SetAdapter ==
    \E found \in SUBSET {a \in Addresses : isValid(a)}, paired, trusted, connected \in BOOLEAN :
      LET n == Cardinality(found) IN
      \E as \in Injections(found, n), os \in Injections(Objects \ {selected}, n) :
        /\ hasAdapter' = TRUE
        /\ rows' = os
        /\ dev' = [o \in Objects |->
                     IF o \in RowObjects(os)
                     THEN InitDevice(NewDevice(as[CHOOSE i \in 1..n : os[i] = o]),
                                     paired, trusted, connected)
                     ELSE IF o = selected THEN dev[o] ELSE None]
        /\ known' = known \cup found
        /\ UNCHANGED <<selected, listed, owed, misdirected>>

-----------------------------------------------------------------------------
(* Timers and replies of a device. *)

\* discoverServices, for a timer of connectPending.
DiscoverServices(o) ==
    /\ dev[o] # None /\ dev[o].shot
    /\ \E more \in BOOLEAN :
         Update(o, [dev[o] EXCEPT !.shot = more, !.reply = @ \/ dev[o].created])
    /\ UNCHANGED <<rows, selected, hasAdapter, known, listed, owed, misdirected>>

\* Device::connect, n times: without the interface nothing happens.
Connect(a, n) == owed' \in {owed, [owed EXCEPT ![a] = @ - n]}

KeepsPending(d) == d
TakesPending(d) == [d EXCEPT !.pending = 0]

\* slotServiceDiscoveryDone, for DiscoverServices and for SetProperty Trusted.
ServiceDiscoveryDone(o) ==
    /\ dev[o] # None /\ dev[o].reply
    /\ \E more \in BOOLEAN :
         LET d == [dev[o] EXCEPT !.reply = more] IN
         \/ Connect(d.address, d.pending) /\ Update(o, TakesPending(d))
         \/ UNCHANGED owed /\ Update(o, d)      \* an error
    /\ UNCHANGED <<rows, selected, hasAdapter, known, listed, misdirected>>

-----------------------------------------------------------------------------
(* Calls of the page, while mTechnology is there: otherwise they do nothing. *)

AddConnectAfterPairing(d) == [d EXCEPT !.pending = @ + 1]

\* Bluetooth::connectDevice, of a device it finds and can connect.  Where
\* CreatePairedDevice is called, signals follow; its reply is only logged.
ConnectDevice(a) ==
    /\ RowOf(a) # 0 /\ Connectable(a)
    /\ owed[a] < MaxOwed
    /\ LET o == rows[RowOf(a)]
           asked == [owed EXCEPT ![a] = @ + 1]
       IN  IF dev[o].trusted
           THEN owed' \in {asked, owed} /\ UNCHANGED dev
           ELSE /\ owed' = asked
                /\ dev[o].pending < MaxOwed
                /\ Update(o, AddConnectAfterPairing(dev[o]))
    /\ UNCHANGED <<rows, selected, hasAdapter, known, listed, misdirected>>

KeptSelection(a) == IF RowOf(a) = 0 THEN selected ELSE rows[RowOf(a)]
Selection(a)     == IF RowOf(a) = 0 THEN None ELSE rows[RowOf(a)]

\* setSelectedDevice: the selection is not looked up again for its own address.
SetSelectedDevice(a) ==
    /\ selected' = IF selected # None /\ dev[selected].address = a
                   THEN selected ELSE Selection(a)
    /\ dev' = Swept(dev, rows, selected')

\* Bluetooth::disconnectDevice acts on the selected device, whatever was named.
OtherThanNamed(a) == selected' # None /\ dev[selected'].address # a

\* disconnectDevice and removeDevice, for the selected device.
ActOnDevice(a) ==
    /\ SetSelectedDevice(a)
    /\ misdirected' = (misdirected \/ OtherThanNamed(a))
    /\ UNCHANGED <<rows, hasAdapter, known, listed, owed>>

ResetDevicesList ==
    /\ known' = known \cup RowAddresses
    /\ listed' = TRUE
    /\ UNCHANGED <<rows, dev, selected, hasAdapter, owed, misdirected>>

LoadPage ==
    /\ known' = {} /\ listed' = FALSE
    /\ UNCHANGED <<rows, dev, selected, hasAdapter, owed, misdirected>>

DevicesNext ==
    \/ \E a \in Addresses :
         \/ DeviceFound(a) \/ DeviceCreated(a) \/ DeviceRemoved(a)
         \/ ConnectDevice(a) \/ ActOnDevice(a)
    \/ \E o \in Objects :
         PropertyChanged(o) \/ DiscoverServices(o) \/ ServiceDiscoveryDone(o)
    \/ AdapterRemoved \/ SetAdapter
    \/ ResetDevicesList \/ LoadPage

DevicesSpec == DevicesInit /\ [][DevicesNext]_devicesVars

-----------------------------------------------------------------------------
(* Properties. *)

\* However scans, creations and adapters follow each other, an address has one
\* row: a device found and then created is not listed twice (findRowFromAddress
\* finds the first one only, and the other would be out of reach).
UniqueRows ==
    \A i, j \in 1..Len(rows) : dev[rows[i]].address = dev[rows[j]].address => i = j

\* A page that has asked for the list once knows every device in it from then
\* on, whichever way the device came: by resetDevicesList or by deviceFound.
ListedAreKnown == listed => RowAddresses \subseteq known

\* BlueZ is asked to connect a device at most as often as the page asked:
\* connections that wait for pairing are made once, although both the service
\* discovery and the trust set meanwhile end by making them.
ConnectsAsked == \A a \in Addresses : owed[a] >= 0

\* No device is disconnected or removed in place of the one the page named,
\* though the selection outlives its row.
ActsOnNamed == ~misdirected
=============================================================================
