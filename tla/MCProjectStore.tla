--------------------------- MODULE MCProjectStore ---------------------------
(* Projects the VM takes, one it rejects, one without a ladder program; a   *)
(* file has two pieces.                                                     *)
EXTENDS ProjectStore

CONSTANTS blinky, pump, broken, pages, u1, u2, a1

MCProjects == {blinky, pump, broken, pages}
MCInvalid == {broken}
MCBare == {pages}
TwoUploaders == {u1, u2}
OneApplier == {a1}
=============================================================================
