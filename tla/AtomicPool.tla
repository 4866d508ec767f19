----------------------------- MODULE AtomicPool -----------------------------
(***************************************************************************)
(* What the register pool promises its users: a multi-word value is stored *)
(* in one step and a multi-word read sees one committed image of the       *)
(* registers.  RegPool, the seqlock of mdcu_pool.c, implements it.         *)
(***************************************************************************)
EXTENDS Naturals

CONSTANTS
    Regs,       \* the registers multi-word values live in
    Cells,      \* the multi-word values, each the set of registers it fills
    Values,     \* what a register can hold
    Readers,    \* callers of the read functions
    Ranges      \* the register ranges a reader may ask for

VARIABLES
    image,      \* [Regs -> Values], the committed content of every register
    out         \* out[r]: what the last read of r returned, by register

vars == <<image, out>>

Init ==
    /\ image = [x \in Regs |-> 0]
    /\ out = [r \in Readers |-> [x \in {} |-> 0]]

\* A setter of a multi-word value replaces every word of it at once.
Put(c, v) ==
    /\ image' = [x \in Regs |-> IF x \in c THEN v ELSE image[x]]
    /\ UNCHANGED out

\* A getter returns the current image of the range it was asked for.
Get(r, range) ==
    /\ out' = [out EXCEPT ![r] = [x \in range \cap Regs |-> image[x]]]
    /\ UNCHANGED image

Next ==
    \/ \E c \in Cells, v \in Values : Put(c, v)
    \/ \E r \in Readers, range \in Ranges : Get(r, range)

Spec == Init /\ [][Next]_vars
=============================================================================
