SPECIFICATION Spec
CONSTANTS
    Users = {u1, u2, u3}
    NoUser = NoUser
    Requests = {q1, q2}
    Modes = {"free"}
    PlainRoles = {"member"}
    Caps = {3}
    DefaultCap = 3
    MaxRows = 3
    MaxInvites = 2
SYMMETRY Symmetry
INVARIANT AtMostOneOwner
CHECK_DEADLOCK FALSE
