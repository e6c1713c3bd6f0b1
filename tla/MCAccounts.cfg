SPECIFICATION Spec
CONSTANTS
    ann = ann  bob = bob
    n1 = n1  n2 = n2
    b1 = b1  b2 = b2
    r1 = r1  r2 = r2  r3 = r3  r4 = r4
    None = None
    People = {ann, bob}
    Names = {n1, n2}
    Browsers = {b1, b2}
    Reqs = {r1, r2, r3}
    Manners <- SomeCareful
SYMMETRY Symmetric
INVARIANTS SessionIsOwn SessionsSurvive LinkLeadsOn
