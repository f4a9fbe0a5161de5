\* A headset that can be connected, a phone that cannot, and a lamp nobody lists.
SPECIFICATION DevicesSpec
CONSTANTS
    Objects = {o1, o2}
    headset = headset
    phone = phone
    lamp = lamp
    Addresses = {headset, phone, lamp}
    Class <- MCClass
    None = None
    MaxOwed = 2
SYMMETRY Symmetry
INVARIANTS
    DevicesTypeOK
    UniqueRows
    ListedAreKnown
    ConnectsAsked
    ActsOnNamed
