----------------------------- MODULE MCPresence -----------------------------
(***************************************************************************)
(* Instances of Presence for TLC: up to three sockets on two processes.    *)
(***************************************************************************)
EXTENDS Tabs

CONSTANTS s1, s2, s3, i1, i2

TwoHomes == [s \in Sockets |-> IF s = s3 THEN i2 ELSE i1]

\* Sockets that close while they connect; a process that dies; a disconnect
\* handler that fails: each with a key that expires.  And what no handler dies of.
Seasons == {{"early", "expiry"},
            {"crash", "write", "expiry", "meet"},
            {"disconnect", "connect", "expiry"},
            {"connect", "expiry", "meet"},
            {"write", "patch", "meet"}}
Fair == {{}}
=============================================================================
