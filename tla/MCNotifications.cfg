SPECIFICATION Spec
CONSTANTS
    Users = {"ann", "bob"}
    Ids = {"i1", "i2", "i3"}
    Owner <- Owner1
    Tabs = {"t1", "t2"}
    Viewer <- Viewer1
    Reqs = {1, 2, 3}
    All = "all"
INVARIANTS BadgesAgree
PROPERTIES ReadOnce
CHECK_DEADLOCK FALSE
