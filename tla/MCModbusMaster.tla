--------------------------- MODULE MCModbusMaster ---------------------------
(***************************************************************************)
(* An instance of ModbusMaster for TLC: a pool of ten registers, a slot of *)
(* six from register 3 on, a slave of eight registers.                     *)
(***************************************************************************)
EXTENDS ModbusMaster

Set(enabled, target, start, n) ==
    [enabled |-> enabled, target |-> target, start |-> start, n |-> n]

MCDefault == Set(FALSE, "good", 0, 2)

\* A block in its place, one that is longer than a request may be, one that reaches past
\* the slot, one that the pool has no room for, one the slave does not have, and two that
\* never connect.
MCConfigs ==
    {MCDefault,
     Set(TRUE, "good", 1, 2),
     Set(TRUE, "good", 2, 4),
     Set(TRUE, "good", 4, 3),
     Set(TRUE, "good", 5, 3),
     Set(TRUE, "good", 7, 2),
     Set(TRUE, "noip", 0, 2),
     Set(TRUE, "badslave", 0, 2)}
=============================================================================
