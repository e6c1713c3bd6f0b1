SPECIFICATION Spec
CONSTANTS
    ann = ann  bob = bob  cas = cas  dan = dan
    g1 = g1  d1 = d1  d2 = d2
    r1 = r1  r2 = r2  r3 = r3  r4 = r4
    None = None
    Users = {ann, bob, cas, dan}
    Accounts = {ann, bob, cas}
    Convs = {d1, d2}
    Reqs = {r1, r2, r3}
    Ops <- NotGroupOps
    Overlap <- Everything
    Faults = TRUE
SYMMETRY AccountsSymmetric
INVARIANTS DirectIntact OneDirectPerPair
PROPERTIES RaceNeverReported GetOrCreate
