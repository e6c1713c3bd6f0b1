SPECIFICATION Spec
CONSTANTS
    ann = ann  bob = bob  cas = cas  dan = dan
    g1 = g1  d1 = d1  d2 = d2
    r1 = r1  r2 = r2  r3 = r3  r4 = r4
    None = None
    Users = {ann, bob, cas}
    Accounts = {ann, bob, cas}
    Convs = {g1}
    Reqs = {r1, r2, r3, r4}
    Ops <- MemberOps
    Overlap <- Everything
    Faults = FALSE
SYMMETRY RequestsSymmetric
INVARIANTS GroupHasOwner
