---------------------------- MODULE MCRestServer ----------------------------
(***************************************************************************)
(* Instance of RestServer for TLC: two registers, GETs within the map, at  *)
(* its end, beyond it and without a count, POSTs of one word, of both, of  *)
(* too many and of none.                                                   *)
(***************************************************************************)
EXTENDS RestServer

CONSTANTS w1, w2

MCWorkers == {w1, w2}

Get(t, s, n) == [op |-> "get", block |-> [table |-> t, start |-> s, count |-> n]]
Post(h, c)   == [op |-> "post", holding |-> h, coils |-> c]

MCRequests == {Get("holding", 0, 2), Get("coil", 1, 2), Get("holding", 0, 0),
               Post(1, 0), Post(3, 1)}
=============================================================================
