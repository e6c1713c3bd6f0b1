SPECIFICATION Spec
CONSTANTS
    ann = ann  bob = bob  cas = cas
    m1 = m1  m2 = m2
    r1 = r1  r2 = r2  r3 = r3  r4 = r4
    None = None
    Users = {ann, bob, cas}
    Msgs = {m1, m2}
    Reqs = {r1, r2}
    Old = {m1}
    Scopes <- EitherWay
SYMMETRY Symmetric
INVARIANTS TypeOK PointerIsReal ReadsAreTheOthers NotifiedByPolicy SidebarAgrees RoomKnows DirectsNotified
PROPERTIES DeletedForGood
