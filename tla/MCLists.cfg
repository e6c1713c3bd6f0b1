SPECIFICATION Spec
CONSTANTS
    FewIds = 3
    FewKeys = 3
    Ids <- SomeIds
    Keys <- SomeKeys
    Limits = {1, 2}
    NoCursor = NoCursor
    Garbage = Garbage
INVARIANTS CursorSkipsNothing CursorRepeatsNothing NumberedPagesAgree
PROPERTIES CursorLeadsOn
