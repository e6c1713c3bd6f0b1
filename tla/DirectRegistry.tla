--------------------------- MODULE DirectRegistry ---------------------------
(***************************************************************************)
(* What POST /conversations with type DIRECT promises: a register from     *)
(* pairs of users to conversations.  The first call for a pair fills its   *)
(* entry, in one step and for ever; every call is given the entry.         *)
(***************************************************************************)
CONSTANTS Pairs, Convs, None

VARIABLES
    registry,   \* the conversation of each pair, None until there is one
    given       \* the answers so far, <<pair, conversation>>

Init ==
    /\ registry = [p \in Pairs |-> None]
    /\ given = {}

Register(p, c) ==
    /\ registry[p] = None
    /\ \A q \in Pairs : registry[q] # c
    /\ registry' = [registry EXCEPT ![p] = c]
    /\ UNCHANGED given

Give(p) ==
    /\ registry[p] # None
    /\ given' = given \cup {<<p, registry[p]>>}
    /\ UNCHANGED registry

Next == \E p \in Pairs : Give(p) \/ \E c \in Convs : Register(p, c)

Spec == Init /\ [][Next]_<<registry, given>>
=============================================================================
