SPECIFICATION HSpec
CONSTANTS
    ann = ann  bob = bob  cas = cas
    g1 = g1
    r1 = r1  r2 = r2  r3 = r3
    None = None
    Users = {ann, bob, cas}
    Accounts = {ann, bob, cas}
    Convs = {g1}
    Reqs = {r1, r2, r3}
    Ops <- GroupOps
    Overlap <- Everything
    Faults = TRUE
SYMMETRY Symmetric
INVARIANTS OneOwner ToldTheTruth
PROPERTIES OwnerNeverKicked DissolvesOnlyForLastMember
