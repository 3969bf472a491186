SPECIFICATION Spec
CONSTANTS
    c1 = c1
    c2 = c2
    c3 = c3
    r1 = r1
    r2 = r2
    Conns = {c1, c2, c3}
    Rooms = {r1, r2}
    NoRoom = NoRoom
SYMMETRY ConnRoomSymmetry
INVARIANT RoomsExact
CHECK_DEADLOCK FALSE
