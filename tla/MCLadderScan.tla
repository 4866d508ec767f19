---------------------------- MODULE MCLadderScan ----------------------------
(* Small diagrams for LadderScan: one rung of every shape, and pairs of     *)
(* rungs of which the second reads the coil the first drives.               *)
EXTENDS LadderScan

In(n)  == [neg |-> FALSE, cls |-> "input", adr |-> n]
NotIn(n) == [neg |-> TRUE, cls |-> "input", adr |-> n]
Co(n)  == [neg |-> FALSE, cls |-> "coil", adr |-> n]
NotCo(n) == [neg |-> TRUE, cls |-> "coil", adr |-> n]

SomeContacts == {In(0), NotIn(1), Co(0), NotCo(1)}
Series == {<<k>> : k \in SomeContacts} \cup {<<k, m>> : k, m \in SomeContacts}
Parallel == {<<b>> : b \in Series} \cup {<<b, c>> : b, c \in Series}
              \cup {<<<<In(0)>>, <<NotIn(1), Co(0)>>, <<NotCo(1)>>>>}

OneRung ==
    {<<[branches |-> p, out |-> o, adr |-> 1]>> :
        p \in Parallel, o \in {"OUT", "OUT_NOT", "SET", "RST"}}

\* A seal-in circuit and its unlatch, an output out of range, a coil driven
\* twice.
TwoRungs ==
    {<<[branches |-> <<<<In(0)>>, <<Co(0), NotIn(1)>>>>, out |-> "OUT", adr |-> 0],
       [branches |-> <<b>>, out |-> o, adr |-> a]>> :
        b \in Series, o \in {"OUT", "OUT_NOT", "SET", "RST"}, a \in 0..2}

MCDiagrams == OneRung \cup TwoRungs
=============================================================================
