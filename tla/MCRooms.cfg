SPECIFICATION FairSpec
CONSTANTS
    Users = {"ann", "bob"}
    Conversations = {"g", "d"}
    Groups = {"g"}
    Sockets <- Sockets1
    Owner <- Owner1
    Nodes = {"n1", "n2"}
    Home <- Home1
    Typing <- Typing1
    MaxDots = 3
    Scopes <- Scopes1
INVARIANTS NobodyLeftOut OnlyLeaversOverhear DotsGoOut
PROPERTIES EventuallyHears
CHECK_DEADLOCK FALSE
