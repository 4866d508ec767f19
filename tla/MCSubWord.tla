----------------------------- MODULE MCSubWord ------------------------------
(***************************************************************************)
(* Instance of SubWord for TLC: one register of two bytes of two bits, and *)
(* calls of each kind, the ones out of range included.                     *)
(***************************************************************************)
EXTENDS SubWord

CONSTANTS p1, p2

MCProcs == {p1, p2}

Ones == [b \in 0..3 |-> 1]
Low  == [b \in 0..3 |-> b % 2]

Req(op, kind, reg, sub, word) ==
    [op |-> op, kind |-> kind, reg |-> reg, sub |-> sub, word |-> word]

MCRequests ==
    { Req("get", "u16", 0, 0, Low), Req("get", "u8", 0, 1, Low), Req("get", "bit", 0, 3, Low),
      Req("set", "bit", 0, 0, Ones), Req("set", "bit", 0, 2, Low), Req("set", "bit", 0, 4, Ones),
      Req("set", "u8", 0, 0, Ones), Req("set", "u8", 0, 1, Low), Req("set", "u8", 0, 2, Ones),
      Req("set", "u16", 0, 0, Low), Req("set", "u16", 1, 0, Ones) }

=============================================================================
