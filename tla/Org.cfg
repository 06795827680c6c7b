SPECIFICATION Spec
CONSTANTS
    Users = {u1, u2}
    NoUser = NoUser
    Requests = {q1, q2}
    Modes = {"serial", "one transfer"}
    PlainRoles = {"member"}
    Caps = {1, 3}
    DefaultCap = 2
    MaxRows = 3
    MaxInvites = 2
SYMMETRY Symmetry
INVARIANTS
    TypeOK
    OneOwnerUnlessTransfersOverlap
    LoginOncePerInvite
    MemberOnceWhenSerial
    NothingLeftWhenSerial
PROPERTIES
    SeatsWhenSerial
CHECK_DEADLOCK FALSE
