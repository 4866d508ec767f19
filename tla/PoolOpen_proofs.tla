-------------------------- MODULE PoolOpen_proofs --------------------------
(***************************************************************************)
(* Proofs about PoolOpen, for any number of processes, kills and writes.   *)
(***************************************************************************)
EXTENDS PoolOpen, TLAPS

-----------------------------------------------------------------------------
(* Types.                                                                   *)

Numbers ==
    /\ size \in {"absent", "empty", "full"}
    /\ seq \in Nat
    /\ data \in 0..MaxWrites
    /\ pc \in [Procs -> Opening \cup {"start", "open", "failed"}]
    /\ writes \in 0..MaxWrites
    /\ kills \in 0..MaxKills

Flags ==
    /\ magic \in BOOLEAN /\ version \in BOOLEAN
    /\ first \in [Procs -> BOOLEAN]
    /\ setting \in BOOLEAN
    /\ clash \in BOOLEAN

SetterOpen == setting => pc[Setter] = "open"

LEMMA TypeParts == TypeOK <=> Numbers /\ Flags /\ SetterOpen
BY DEF TypeOK, Numbers, Flags, SetterOpen

LEMMA InitTypes == Init => Numbers /\ Flags /\ SetterOpen
<1>1. Init => Numbers
    BY OpenAssumption DEF Init, Numbers
<1>2. Init => Flags /\ SetterOpen
    BY Zenon DEF Init, Flags, SetterOpen
<1> QED
    BY <1>1, <1>2

LEMMA StepNumbers == Numbers /\ [Next]_vars => Numbers'
<1> SUFFICES ASSUME Numbers, [Next]_vars PROVE Numbers'
    OBVIOUS
<1> USE OpenAssumption DEF Numbers, Opening, segment, Goto
<1>1. ASSUME NEW p \in Procs, ShmOpen(p) \/ Fail(p) PROVE Numbers'
    BY <1>1 DEF ShmOpen, Fail
<1>2. ASSUME NEW p \in Procs, Stat(p) PROVE Numbers'
    BY <1>2 DEF Stat
<1>3. ASSUME NEW p \in Procs, Truncate(p) \/ Map(p) \/ Check(p) PROVE Numbers'
    BY <1>3 DEF Truncate, Map, Check
<1>4. ASSUME NEW p \in Procs, ZeroHeader(p) \/ ZeroRegs(p) \/ SetMagic(p) \/ SetVersion(p)
      PROVE  Numbers'
    BY <1>4 DEF ZeroHeader, ZeroRegs, SetMagic, SetVersion
<1>5. ASSUME NEW p \in Procs, Kill(p) PROVE Numbers'
    BY <1>5 DEF Kill
<1>6. CASE BeginSet \/ EndSet
    BY <1>6 DEF BeginSet, EndSet
<1>7. CASE Done \/ UNCHANGED vars
    BY <1>7 DEF Done, vars
<1> QED
    BY <1>1, <1>2, <1>3, <1>4, <1>5, <1>6, <1>7 DEF Next, OpenStep

LEMMA StepFlags == Flags /\ [Next]_vars => Flags'
<1> SUFFICES ASSUME Flags, [Next]_vars PROVE Flags'
    OBVIOUS
<1> USE DEF Flags, segment, Goto
<1>1. ASSUME NEW p \in Procs, ShmOpen(p) PROVE Flags'
    BY <1>1, Zenon DEF ShmOpen
<1>2. ASSUME NEW p \in Procs, Fail(p) \/ Truncate(p) \/ Map(p) \/ Check(p) PROVE Flags'
    BY <1>2, Zenon DEF Fail, Truncate, Map, Check
<1>3. ASSUME NEW p \in Procs, Stat(p) PROVE Flags'
    <2>1. first' \in [Procs -> BOOLEAN]
        BY <1>3, (size # "full") \in BOOLEAN DEF Stat
    <2> QED
        BY <1>3, <2>1, Zenon DEF Stat
<1>4. ASSUME NEW p \in Procs, ZeroHeader(p) \/ ZeroRegs(p) \/ SetMagic(p) \/ SetVersion(p)
      PROVE  Flags'
    BY <1>4, Zenon DEF ZeroHeader, ZeroRegs, SetMagic, SetVersion
<1>5. ASSUME NEW p \in Procs, Kill(p) PROVE Flags'
    <2>1. first' \in [Procs -> BOOLEAN]
        BY <1>5 DEF Kill
    <2> QED
        BY <1>5, <2>1, Zenon DEF Kill
<1>6. CASE BeginSet \/ EndSet
    BY <1>6, Zenon DEF BeginSet, EndSet
<1>7. CASE Done \/ UNCHANGED vars
    BY <1>7, Zenon DEF Done, vars
<1> QED
    BY <1>1, <1>2, <1>3, <1>4, <1>5, <1>6, <1>7 DEF Next, OpenStep

LEMMA StepSetter == Numbers /\ SetterOpen /\ [Next]_vars => SetterOpen'
<1> SUFFICES ASSUME Numbers, SetterOpen, [Next]_vars PROVE SetterOpen'
    OBVIOUS
<1> USE OpenAssumption DEF Numbers, SetterOpen, segment
<1>1. ASSUME NEW p \in Procs, ShmOpen(p) \/ Fail(p) \/ OpenStep(p) PROVE SetterOpen'
    <2>1. setting' = setting
        BY <1>1, Zenon DEF ShmOpen, Fail, OpenStep, Stat, Truncate, Map, Check, ZeroHeader, ZeroRegs, SetMagic, SetVersion
    <2>2. pc[p] # "open"
        BY <1>1 DEF ShmOpen, Fail, OpenStep, Goto, Stat, Truncate, Map, Check, ZeroHeader, ZeroRegs, SetMagic, SetVersion
    <2>3. \A q \in Procs \ {p} : pc'[q] = pc[q]
        BY <1>1 DEF ShmOpen, Fail, OpenStep, Goto, Stat, Truncate, Map, Check, ZeroHeader, ZeroRegs, SetMagic, SetVersion
    <2> QED
        BY <2>1, <2>2, <2>3
<1>2. ASSUME NEW p \in Procs, Kill(p) PROVE SetterOpen'
    BY <1>2 DEF Kill
<1>3. CASE BeginSet \/ EndSet
    BY <1>3 DEF BeginSet, EndSet
<1>4. CASE Done \/ UNCHANGED vars
    BY <1>4 DEF Done, vars
<1> QED
    BY <1>1, <1>2, <1>3, <1>4 DEF Next

\* The variables keep their types, and the setter is never killed inside its write.
THEOREM TypeCorrect == Spec => []TypeOK
<1>1. Init => Numbers /\ Flags /\ SetterOpen
    BY InitTypes
<1>2. TypeOK /\ [Next]_vars => TypeOK'
    BY StepNumbers, StepFlags, StepSetter, TypeParts DEF TypeOK, Numbers, Flags, SetterOpen
<1> QED
    BY <1>1, <1>2, TypeParts, PTL DEF Spec

-----------------------------------------------------------------------------
(* The segment is never shorter than what is mapped.                        *)

Mapped == {"check", "open"} \cup Initialising
Backed == \A p \in Procs : pc[p] = "map" \/ pc[p] \in Mapped => size = "full"

LEMMA StepBacked == Numbers /\ Flags /\ Backed /\ [Next]_vars => Backed'
<1> SUFFICES ASSUME Numbers, Flags, Backed, [Next]_vars PROVE Backed'
    OBVIOUS
<1> USE DEF Numbers, Backed, Mapped, Initialising, segment, Goto
<1>1. ASSUME NEW p \in Procs, ShmOpen(p) \/ Fail(p) \/ Kill(p) PROVE Backed'
    BY <1>1 DEF ShmOpen, Fail, Kill
<1>2. ASSUME NEW p \in Procs, Stat(p) PROVE Backed'
    <2>1. size' = size /\ pc' = [pc EXCEPT ![p] = IF first'[p] THEN "truncate" ELSE "map"]
        BY <1>2, Zenon DEF Stat
    <2>2. size # "full" => first'[p]
        BY <1>2 DEF Stat, Flags
    <2> QED
        BY <2>1, <2>2
<1>3. ASSUME NEW p \in Procs, Truncate(p) \/ Map(p) PROVE Backed'
    BY <1>3 DEF Truncate, Map
<1>4. ASSUME NEW p \in Procs, Check(p) PROVE Backed'
    BY <1>4 DEF Check
<1>5. ASSUME NEW p \in Procs, ZeroHeader(p) \/ ZeroRegs(p) \/ SetMagic(p) \/ SetVersion(p)
      PROVE  Backed'
    BY <1>5 DEF ZeroHeader, ZeroRegs, SetMagic, SetVersion
<1>6. CASE BeginSet \/ EndSet \/ Done \/ UNCHANGED vars
    BY <1>6 DEF BeginSet, EndSet, Done, vars
<1> QED
    BY <1>1, <1>2, <1>3, <1>4, <1>5, <1>6 DEF Next, OpenStep

\* Nobody touches memory past the end of the segment, whoever created it.
THEOREM MappedMemoryIsBacked == Spec => []MappedIsBacked
<1>1. Init => Numbers /\ Flags /\ Backed
    BY InitTypes, OpenAssumption DEF Init, Backed, Mapped, Initialising
<1>2. Numbers /\ Flags /\ Backed /\ [Next]_vars => (Numbers /\ Flags /\ Backed)'
    BY StepNumbers, StepFlags, StepBacked
<1>3. Backed => MappedIsBacked
    BY DEF Backed, Mapped, MappedIsBacked
<1> QED
    BY <1>1, <1>2, <1>3, PTL DEF Spec

-----------------------------------------------------------------------------
(* Whoever finds or makes the header invalid puts it right before it has   *)
(* the pool open.                                                           *)

HeaderComes ==
    /\ magic \/ \E p \in Procs : pc[p] \notin {"version", "open"}
    /\ version \/ \E p \in Procs : pc[p] # "open"

LEMMA StepHeader == Numbers /\ HeaderComes /\ [Next]_vars => HeaderComes'
<1> SUFFICES ASSUME Numbers, HeaderComes, [Next]_vars PROVE HeaderComes'
    OBVIOUS
<1>1. ASSUME NEW p \in Procs, pc'[p] \notin {"version", "open"} PROVE HeaderComes'
    BY <1>1, Zenon DEF HeaderComes
<1>2. ASSUME NEW p \in Procs,
             \/ ShmOpen(p) \/ Fail(p) \/ Kill(p) \/ Stat(p) \/ Truncate(p) \/ Map(p)
             \/ ZeroHeader(p) \/ ZeroRegs(p)
      PROVE  HeaderComes'
    <2>1. pc'[p] \notin {"version", "open"}
        BY <1>2 DEF Numbers, Goto, ShmOpen, Fail, Kill, Stat, Truncate, Map, ZeroHeader, ZeroRegs
    <2> QED
        BY <1>1, <2>1
<1>3. ASSUME NEW p \in Procs, Check(p) PROVE HeaderComes'
    <2>1. CASE first[p] \/ ~magic \/ ~version
        <3>1. pc'[p] = "zero"
            BY <1>3, <2>1 DEF Check, Numbers
        <3> QED
            BY <1>1, <3>1
    <2>2. CASE ~(first[p] \/ ~magic \/ ~version)
        BY <1>3, <2>2, Zenon DEF Check, HeaderComes, segment
    <2> QED
        BY <2>1, <2>2
<1>4. ASSUME NEW p \in Procs, SetMagic(p) PROVE HeaderComes'
    <2>1. magic' = TRUE
        BY <1>4 DEF SetMagic
    <2>2. pc'[p] # "open"
        BY <1>4 DEF SetMagic, Goto, Numbers
    <2> QED
        BY <2>1, <2>2, Zenon DEF HeaderComes
<1>5. ASSUME NEW p \in Procs, SetVersion(p) PROVE HeaderComes'
    <2>1. version' = TRUE /\ magic' = magic
        BY <1>5, Zenon DEF SetVersion
    <2>2. \A q \in Procs : pc[q] \notin {"version", "open"} => pc'[q] = pc[q]
        BY <1>5 DEF SetVersion, Goto, Numbers
    <2> QED
        BY <2>1, <2>2, Zenon DEF HeaderComes
<1>6. CASE BeginSet \/ EndSet \/ Done \/ UNCHANGED vars
    BY <1>6, Zenon DEF BeginSet, EndSet, Done, vars, segment, HeaderComes
<1> QED
    BY <1>2, <1>3, <1>4, <1>5, <1>6 DEF Next, OpenStep

\* When every process has the pool open, the header is the one of this layout.
THEOREM OpenPoolIsReady == Spec => []AllOpenMeansReady
<1>1. Init => Numbers /\ Flags /\ Backed /\ HeaderComes
    <2>1. Init => Numbers /\ Flags /\ Backed
        BY InitTypes, OpenAssumption DEF Init, Backed, Mapped, Initialising
    <2>2. Init => HeaderComes
        <3>1. Init => pc[Setter] = "start"
            BY OpenAssumption DEF Init
        <3>2. "start" \notin {"version", "open"}
            OBVIOUS
        <3> QED
            BY <3>1, <3>2, OpenAssumption, Zenon DEF HeaderComes
    <2> QED
        BY <2>1, <2>2
<1>2. Numbers /\ Flags /\ Backed /\ HeaderComes /\ [Next]_vars
          => (Numbers /\ Flags /\ Backed /\ HeaderComes)'
    BY StepNumbers, StepFlags, StepBacked, StepHeader
<1>3. Backed /\ HeaderComes => AllOpenMeansReady
    <2>1. SUFFICES ASSUME Backed, HeaderComes, \A p \in Procs : pc[p] = "open"
                   PROVE  Ready
        BY DEF AllOpenMeansReady
    <2>2. size = "full"
        BY <2>1, OpenAssumption DEF Backed, Mapped
    <2>3. magic /\ version
        BY <2>1, Zenon DEF HeaderComes
    <2> QED
        BY <2>2, <2>3, Zenon DEF Ready
<1> QED
    BY <1>1, <1>2, <1>3, PTL DEF Spec

-----------------------------------------------------------------------------
(* While opens do not overlap, an initialisation is for a pool nobody has  *)
(* finished yet, so that nothing has been stored in it.                     *)

OneOpens == \A p, q \in Procs : pc[p] \in Opening /\ pc[q] \in Opening => p = q

\* Where p is on its way through the initialisation.
InitialisedBy(p) ==
    \/ pc[p] \in {"truncate", "map", "check"} /\ first[p]
    \/ pc[p] \in Initialising

Kept ==
    /\ OneOpens
    /\ version => magic /\ size = "full"
    /\ \A p \in Procs : pc[p] = "version" => magic
    /\ \A p \in Procs : pc[p] = "open" => version
    /\ \A p \in Procs : InitialisedBy(p) => ~version
    /\ writes # 0 => version
    /\ setting \/ data = writes

KeptInv == clash \/ Kept

LEMMA StepKept ==
    Numbers /\ Flags /\ SetterOpen /\ Backed /\ KeptInv /\ [Next]_vars => KeptInv'
<1> SUFFICES ASSUME Numbers, Flags, SetterOpen, Backed, Kept, ~clash', [Next]_vars PROVE Kept'
    <2>1. clash => clash' \/ ~[Next]_vars
        BY Zenon DEF Next, OpenStep, ShmOpen, Fail, Kill, Stat, Truncate, Map, Check, ZeroHeader, ZeroRegs,
                 SetMagic, SetVersion, BeginSet, EndSet, Done, vars
    <2> QED
        BY <2>1, Zenon DEF KeptInv
<1> USE DEF Numbers, Flags, Opening, Initialising, InitialisedBy, OneOpens, Goto, segment
<1>1. ASSUME NEW p \in Procs, ShmOpen(p) PROVE Kept'
    <2>1. \A q \in Procs : pc[q] \notin Opening
        BY <1>1, Zenon DEF ShmOpen
    <2> QED
        BY <1>1, <2>1 DEF ShmOpen, Kept
<1>2. ASSUME NEW p \in Procs, Fail(p) PROVE Kept'
    BY <1>2 DEF Fail, Kept
<1>3. ASSUME NEW p \in Procs, Kill(p) PROVE Kept'
    BY <1>3 DEF Kill, Kept
<1>4. ASSUME NEW p \in Procs, Stat(p) PROVE Kept'
    BY <1>4 DEF Stat, Kept
<1>5. ASSUME NEW p \in Procs, Truncate(p) \/ Map(p) PROVE Kept'
    BY <1>5 DEF Truncate, Map, Kept
<1>6. ASSUME NEW p \in Procs, Check(p) PROVE Kept'
    BY <1>6 DEF Check, Kept
<1>7. ASSUME NEW p \in Procs, ZeroHeader(p) PROVE Kept'
    BY <1>7 DEF ZeroHeader, Kept
<1>8. ASSUME NEW p \in Procs, ZeroRegs(p) PROVE Kept'
    BY <1>8 DEF ZeroRegs, Kept
<1>9. ASSUME NEW p \in Procs, SetMagic(p) PROVE Kept'
    BY <1>9 DEF SetMagic, Kept
<1>10. ASSUME NEW p \in Procs, SetVersion(p) PROVE Kept'
    BY <1>10 DEF SetVersion, Kept, Backed, Mapped
<1>11. CASE BeginSet
    BY <1>11, OpenAssumption DEF BeginSet, Kept
<1>12. CASE EndSet
    BY <1>12 DEF EndSet, Kept
<1>13. CASE Done \/ UNCHANGED vars
    BY <1>13 DEF Done, vars, Kept
<1> QED
    BY <1>1, <1>2, <1>3, <1>4, <1>5, <1>6, <1>7, <1>8, <1>9, <1>10, <1>11, <1>12, <1>13
    DEF Next, OpenStep

\* Unless two opens overlap, no restart and no open wipes a value that was set.
THEOREM ValuesStay == Spec => []SetValueStays
<1>1. Init => Numbers /\ Flags /\ SetterOpen /\ Backed /\ KeptInv
    <2>1. Init => Backed
        BY DEF Init, Backed, Mapped, Initialising
    <2>2. Init => Kept
        BY DEF Init, Kept, OneOpens, InitialisedBy, Opening, Initialising
    <2> QED
        BY <2>1, <2>2, InitTypes, Zenon DEF KeptInv
<1>2. Numbers /\ Flags /\ SetterOpen /\ Backed /\ KeptInv /\ [Next]_vars
          => (Numbers /\ Flags /\ SetterOpen /\ Backed /\ KeptInv)'
    BY StepNumbers, StepFlags, StepSetter, StepBacked, StepKept
<1>3. KeptInv => SetValueStays
    BY Zenon DEF KeptInv, Kept, SetValueStays
<1> QED
    BY <1>1, <1>2, <1>3, PTL DEF Spec
=============================================================================
