---------------------------- MODULE Pool_proofs -----------------------------
(***************************************************************************)
(* Proofs about the register pool: the sequence lock of RegPool and the    *)
(* single-word accessors of SubWord.                                       *)
(*                                                                         *)
(* RegPool, for every set of registers, layout of cells, number of readers *)
(* and number of writes: with one writer process that is not killed, the   *)
(* seqlock of mdcu_pool.c returns only committed images, and so implements *)
(* AtomicPool.  With any writers, killed or not, a read is accepted only   *)
(* while an even number of writes is unfinished.                           *)
(*                                                                         *)
(* SubWord, for any size of the pool and of a byte, any threads and any    *)
(* calls: the types, and that every accessor takes effect at one instant.  *)
(***************************************************************************)
EXTENDS RegPool, SubWord, FiniteSetTheorems, TLAPS

\* The HMI is the only process that calls the setters ...
OneWriterProcess == \A v, w \in Writers : v = w
\* ... and is not killed between the two bumps of seq.
NoCrash == MaxCrashes = 0

-----------------------------------------------------------------------------
\* The empty buffer a read starts with is a partial image.
LEMMA NothingIsImage == IsPartialImage(Nothing)
BY DEF IsPartialImage, Nothing

\* Type correctness needs neither assumption.
LEMMA InitTypeOK == Init => TypeOK
BY CellsAssumption, NothingIsImage DEF Init, TypeOK

\* A block is a set of registers (CellsAssumption).
LEMMA CellsAreRegs == \A c \in Cells : c \subseteq Regs
BY CellsAssumption

\* Loading one more word leaves a partial image of the registers.
LEMMA ExtendImage ==
    ASSUME NEW f, IsPartialImage(f), NEW x \in Regs, NEW v \in Nat
    PROVE  IsPartialImage([y \in DOMAIN f \cup {x} |-> IF y = x THEN v ELSE f[y]])
BY DEF IsPartialImage

\* Each step of a writer or a reader keeps the types.
LEMMA NextTypeOK == TypeOK /\ [Next]_vars => TypeOK'
<1> SUFFICES ASSUME TypeOK, [Next]_vars PROVE TypeOK'
    OBVIOUS
<1> USE DEF TypeOK
<1>1. ASSUME NEW w \in Writers, NEW c \in Blocks, BeginWrite(w, c) PROVE TypeOK'
    BY <1>1, CellsAreRegs, CellsAssumption DEF BeginWrite, Blocks, readerVars
<1>2. ASSUME NEW w \in Writers, NEW c \in Words, SetWord(w, c) PROVE TypeOK'
    BY <1>2, CellsAssumption DEF SetWord, Words, readerVars
<1>3. ASSUME NEW w \in Writers, Crash(w) PROVE TypeOK'
    BY <1>3, CellsAssumption DEF Crash, poolVars, readerVars
<1>4. ASSUME NEW w \in Writers, NEW x \in Regs, StoreWord(w, x) PROVE TypeOK'
    BY <1>4 DEF StoreWord, Blocks, readerVars
<1>5. ASSUME NEW w \in Writers, EndWrite(w) PROVE TypeOK'
    BY <1>5 DEF EndWrite, Blocks, readerVars
<1>6. ASSUME NEW r \in Readers, NEW range \in Ranges, CallRead(r, range) PROVE TypeOK'
    BY <1>6, CellsAssumption DEF CallRead, poolVars, writerVars
<1>7. ASSUME NEW r \in Readers, Spin(r) PROVE TypeOK'
    BY <1>7 DEF Spin, vars, poolVars, writerVars, readerVars
<1>8. ASSUME NEW r \in Readers, BeginRead(r) PROVE TypeOK'
    BY <1>8, NothingIsImage DEF BeginRead, poolVars, writerVars, Nothing
<1>9. ASSUME NEW r \in Readers, NEW x \in Regs, LoadWord(r, x) PROVE TypeOK'
    <2> DEFINE buf == [y \in DOMAIN rbuf[r] \cup {x} |-> IF y = x THEN regs[x] ELSE rbuf[r][y]]
    <2>1. IsPartialImage(buf)
        <3>1. IsPartialImage(rbuf[r]) /\ regs[x] \in Nat
            OBVIOUS
        <3> QED
            BY ONLY <3>1, ExtendImage, x \in Regs, Zenon
    <2>2. DOMAIN buf \subseteq rrange[r]
        BY <1>9 DEF LoadWord
    <2>3. rbuf' = [rbuf EXCEPT ![r] = buf]
        BY <1>9 DEF LoadWord
    <2> HIDE DEF buf
    <2> QED
        BY <1>9, <2>1, <2>2, <2>3 DEF LoadWord, poolVars, writerVars
<1>10. ASSUME NEW r \in Readers, Retry(r) PROVE TypeOK'
    BY <1>10 DEF Retry, poolVars, writerVars
<1>11. ASSUME NEW r \in Readers, Return(r) PROVE TypeOK'
    BY <1>11, NothingIsImage DEF Return, poolVars, writerVars
<1>12. CASE UNCHANGED vars
    BY <1>12 DEF vars, poolVars, writerVars, readerVars
<1> QED
    BY <1>1, <1>2, <1>3, <1>4, <1>5, <1>6, <1>7, <1>8, <1>9, <1>10, <1>11, <1>12
       DEF Next, WriterStep, ReaderStep

\* Every variable of the pool keeps its type, whoever writes and is killed.
THEOREM TypeCorrect == Spec => []TypeOK
BY InitTypeOK, NextTypeOK, PTL DEF Spec

-----------------------------------------------------------------------------
(* The sequence lock.                                                       *)

\* Bumping seq flips its parity.
LEMMA Parity == \A n \in Nat : n % 2 \in {0, 1} /\ ((n + 1) % 2 = 0 <=> n % 2 # 0)
OBVIOUS

\* A register of a block is in no other cell.
LEMMA BlocksDisjoint ==
    /\ \A c \in Blocks, d \in Cells : c # d => c \cap d = {}
    /\ \A c \in Words : c \cap BlockRegs = {}
BY CellsAssumption DEF Blocks, Words, BlockRegs

LEMMA InitSeqlockInv == Init => SeqlockInv
BY CellsAssumption DEF Init, SeqlockInv, AcceptedIsCommitted, BlockRegs, Blocks

Inv == TypeOK /\ SeqlockInv

\* A write begins: no read that is under way can be accepted any more.
LEMMA BeginWriteInv ==
    ASSUME OneWriterProcess, Inv, NEW w \in Writers, NEW c \in Blocks, BeginWrite(w, c)
    PROVE  SeqlockInv'
<1> USE DEF Inv, TypeOK, BeginWrite, readerVars
<1>1. seq' % 2 # 0 /\ wpc'[w] # "idle"
    BY Parity DEF SeqlockInv, OneWriterProcess
<1>2. \A r \in Readers : rpc[r] = "load" => rseq[r] <= seq' /\ rseq[r] % 2 = 0 /\ rseq[r] # seq'
    BY <1>1 DEF SeqlockInv
<1>3. \A v \in Writers : v = w /\ wcell[v] = {} /\ wcell'[v] = c /\ wleft'[v] = c
    BY DEF SeqlockInv, OneWriterProcess
<1> QED
    BY <1>1, <1>2, <1>3 DEF SeqlockInv, AcceptedIsCommitted

\* A word of the block is stored while seq is odd.
LEMMA StoreWordInv ==
    ASSUME OneWriterProcess, Inv, NEW w \in Writers, NEW x \in Regs, StoreWord(w, x)
    PROVE  SeqlockInv'
<1> USE DEF Inv, TypeOK, StoreWord, readerVars
<1>1. seq % 2 # 0 /\ x \in wcell[w]
    BY DEF SeqlockInv
<1>2. \A r \in Readers : rpc[r] = "load" => rseq[r] # seq
    BY <1>1 DEF SeqlockInv
<1>3. writes[wcell[w]] \in Nat
    BY CellsAssumption DEF Blocks
<1>4. \A v \in Writers : \A y \in wcell'[v] \ wleft'[v] : regs'[y] = writes'[wcell'[v]]
    BY <1>3 DEF SeqlockInv, OneWriterProcess
<1>5. \A y \in BlockRegs : (\A v \in Writers : y \notin wcell'[v]) => regs'[y] = image'[y]
    BY <1>1 DEF SeqlockInv
<1> QED
    BY <1>2, <1>4, <1>5 DEF SeqlockInv, AcceptedIsCommitted

\* A write ends: its words are all stored, the image takes them over.
LEMMA EndWriteInv ==
    ASSUME OneWriterProcess, Inv, NEW w \in Writers, EndWrite(w)
    PROVE  SeqlockInv'
<1> USE DEF Inv, TypeOK, EndWrite, readerVars
<1>1. seq % 2 # 0 /\ seq' % 2 = 0
    BY Parity DEF SeqlockInv
<1>2. \A v \in Writers : v = w /\ wpc'[v] = "idle" /\ wcell'[v] = {}
    BY DEF OneWriterProcess
<1>3. \A r \in Readers : rpc[r] = "load" => rseq[r] <= seq' /\ rseq[r] % 2 = 0 /\ rseq[r] # seq'
    BY <1>1 DEF SeqlockInv
<1>4. wcell[w] \in Blocks /\ \A x \in wcell[w] : regs[x] = writes[wcell[w]]
    BY DEF SeqlockInv
<1>5. \A x \in BlockRegs : regs'[x] = image'[x]
    BY <1>2, <1>4, CellsAssumption DEF SeqlockInv, BlockRegs, Blocks
<1>6. \A c \in Blocks : \A x, y \in c : image'[x] = image'[y]
    <2> SUFFICES ASSUME NEW c \in Blocks, NEW x \in c, NEW y \in c PROVE image'[x] = image'[y]
        OBVIOUS
    <2>1. x \in Regs /\ y \in Regs
        BY CellsAreRegs DEF Blocks
    <2>2. CASE c = wcell[w]
        BY <2>1, <2>2
    <2>3. CASE c # wcell[w]
        BY <2>1, <2>3, <1>4, BlocksDisjoint DEF SeqlockInv, Blocks
    <2> QED
        BY <2>2, <2>3
<1> QED
    BY <1>1, <1>2, <1>3, <1>5, <1>6 DEF SeqlockInv, AcceptedIsCommitted

\* A u16 store touches no block.
LEMMA SetWordInv ==
    ASSUME Inv, NEW w \in Writers, NEW c \in Words, SetWord(w, c)
    PROVE  SeqlockInv'
<1> USE DEF Inv, TypeOK, SetWord, readerVars
<1>1. \A x \in BlockRegs : x \in Regs /\ regs'[x] = regs[x] /\ image'[x] = image[x]
    BY BlocksDisjoint, CellsAssumption DEF BlockRegs, Blocks
<1>2. \A v \in Writers : \A x \in wcell[v] \ wleft[v] : x \in BlockRegs /\ wcell[v] \in Blocks
    BY DEF SeqlockInv, BlockRegs
<1>3. \A d \in Blocks : \A x \in d : x \in BlockRegs
    BY DEF BlockRegs
<1>4. \A d \in Blocks : writes'[d] = writes[d]
    BY CellsAssumption DEF Blocks, Words
<1>5. \A v \in Writers : \A x \in wcell'[v] \ wleft'[v] : regs'[x] = writes'[wcell'[v]]
    <2>1. \A v \in Writers : \A x \in wcell[v] \ wleft[v] : regs[x] = writes[wcell[v]]
        BY DEF SeqlockInv
    <2>2. wcell' = wcell /\ wleft' = wleft
        OBVIOUS
    <2> QED
        BY ONLY <2>1, <2>2, <1>1, <1>2, <1>4
<1>6. \A d \in Blocks : \A x, y \in d : image'[x] = image'[y]
    <2>1. \A d \in Blocks : \A x, y \in d : image[x] = image[y]
        BY DEF SeqlockInv
    <2> QED
        BY ONLY <2>1, <1>1, <1>3
<1>7. AcceptedIsCommitted'
    <2>1. AcceptedIsCommitted
        BY DEF SeqlockInv
    <2>2. rpc' = rpc /\ rseq' = rseq /\ seq' = seq /\ rbuf' = rbuf
        OBVIOUS
    <2> QED
        BY ONLY <2>1, <2>2, <1>1 DEF AcceptedIsCommitted
<1>8. \A x \in BlockRegs : (\A v \in Writers : x \notin wcell'[v]) => regs'[x] = image'[x]
    BY <1>1 DEF SeqlockInv
<1> QED
    BY <1>5, <1>6, <1>7, <1>8 DEF SeqlockInv

\* A read that begins finds no write in progress and has loaded nothing.
LEMMA BeginReadInv ==
    ASSUME Inv, NEW r \in Readers, BeginRead(r)
    PROVE  SeqlockInv'
<1> USE DEF Inv, TypeOK, BeginRead, poolVars, writerVars
<1>1. DOMAIN rbuf'[r] = {} /\ rseq'[r] = seq /\ seq % 2 = 0
    BY DEF Nothing
<1>2. \A q \in Readers : q # r => rbuf'[q] = rbuf[q] /\ rseq'[q] = rseq[q] /\ rpc'[q] = rpc[q]
    OBVIOUS
<1>3. AcceptedIsCommitted'
    BY <1>1, <1>2 DEF SeqlockInv, AcceptedIsCommitted
<1>4. \A q \in Readers : rpc'[q] = "load" => rseq'[q] <= seq' /\ rseq'[q] % 2 = 0
    BY <1>1, <1>2 DEF SeqlockInv
<1> QED
    BY <1>3, <1>4 DEF SeqlockInv

\* A word loaded while seq is the one the read began with is committed.
LEMMA LoadWordInv ==
    ASSUME Inv, NEW r \in Readers, NEW x \in Regs, LoadWord(r, x)
    PROVE  SeqlockInv'
<1> USE DEF Inv, TypeOK, LoadWord, poolVars, writerVars
<1>1. rseq[r] = seq /\ x \in BlockRegs => regs[x] = image[x]
    BY DEF SeqlockInv
<1>2. \A y \in DOMAIN rbuf'[r] : rbuf'[r][y] = IF y = x THEN regs[x] ELSE rbuf[r][y]
    OBVIOUS
<1>3. DOMAIN rbuf'[r] = DOMAIN rbuf[r] \cup {x} /\ \A q \in Readers : q # r => rbuf'[q] = rbuf[q]
    OBVIOUS
<1>4. AcceptedIsCommitted'
    BY <1>1, <1>2, <1>3 DEF SeqlockInv, AcceptedIsCommitted
<1> QED
    BY <1>4 DEF SeqlockInv

LEMMA NextSeqlockInv ==
    ASSUME OneWriterProcess, NoCrash
    PROVE  Inv /\ [Next]_vars => SeqlockInv'
<1> SUFFICES ASSUME Inv, [Next]_vars PROVE SeqlockInv'
    OBVIOUS
<1>1. ASSUME NEW w \in Writers, Crash(w) PROVE FALSE
    BY <1>1 DEF NoCrash, Inv, TypeOK, Crash
<1>2. ASSUME NEW r \in Readers, NEW range \in Ranges, CallRead(r, range) PROVE SeqlockInv'
    BY <1>2 DEF CallRead, Inv, TypeOK, SeqlockInv, AcceptedIsCommitted, poolVars, writerVars
<1>3. ASSUME NEW r \in Readers, Spin(r) PROVE SeqlockInv'
    BY <1>3 DEF Spin, Inv, SeqlockInv, AcceptedIsCommitted, vars, poolVars, writerVars, readerVars
<1>4. ASSUME NEW r \in Readers, Retry(r) PROVE SeqlockInv'
    BY <1>4 DEF Retry, Inv, TypeOK, SeqlockInv, AcceptedIsCommitted, poolVars, writerVars
<1>5. ASSUME NEW r \in Readers, Return(r) PROVE SeqlockInv'
    BY <1>5 DEF Return, Inv, TypeOK, SeqlockInv, AcceptedIsCommitted, poolVars, writerVars
<1>6. CASE UNCHANGED vars
    BY <1>6 DEF Inv, SeqlockInv, AcceptedIsCommitted, vars, poolVars, writerVars, readerVars
<1> QED
    BY <1>1, <1>2, <1>3, <1>4, <1>5, <1>6, BeginWriteInv, StoreWordInv, EndWriteInv, SetWordInv,
       BeginReadInv, LoadWordInv DEF Next, WriterStep, ReaderStep

\* With one writer process that is not killed, the sequence lock works: seq
\* is odd during writes only and an accepted buffer is a committed image.
THEOREM SeqlockCorrect ==
    ASSUME OneWriterProcess, NoCrash
    PROVE  Spec => []SeqlockInv
<1>1. Init => Inv
    BY InitTypeOK, InitSeqlockInv DEF Inv
<1>2. Inv /\ [Next]_vars => Inv'
    BY NextTypeOK, NextSeqlockInv DEF Inv
<1>3. Inv => SeqlockInv
    BY DEF Inv
<1> QED
    BY <1>1, <1>2, <1>3, PTL DEF Spec

-----------------------------------------------------------------------------
(* What the readers get.                                                    *)

\* What Return hands out are committed words.
LEMMA ReturnIsCommitted ==
    ASSUME Inv, NEW r \in Readers, Return(r)
    PROVE  /\ rout' = [rout EXCEPT ![r] = rbuf[r]]
           /\ DOMAIN rbuf[r] = rrange[r] /\ rrange[r] \in Ranges
           /\ \A x \in DOMAIN rbuf[r] \cap BlockRegs : rbuf[r][x] = image[x]
BY DEF Inv, TypeOK, SeqlockInv, AcceptedIsCommitted, Return

LEMMA NextUntornReads == Inv /\ UntornReads /\ [Next]_vars => UntornReads'
<1> SUFFICES ASSUME Inv, UntornReads, [Next]_vars PROVE UntornReads'
    OBVIOUS
<1>1. ASSUME NEW r \in Readers, Return(r) PROVE UntornReads'
    <2>1. \A c \in Blocks : \A x, y \in c \cap DOMAIN rbuf[r] : rbuf[r][x] = rbuf[r][y]
        BY <1>1, ReturnIsCommitted DEF Inv, SeqlockInv, BlockRegs
    <2>2. rout'[r] = rbuf[r] /\ \A q \in Readers : q # r => rout'[q] = rout[q]
        BY <1>1, ReturnIsCommitted DEF Inv, TypeOK
    <2> QED
        BY <2>1, <2>2 DEF UntornReads
<1>2. CASE rout' = rout
    BY <1>2 DEF UntornReads
<1>3. rout' = rout \/ \E r \in Readers : Return(r)
    BY DEF Next, WriterStep, ReaderStep, BeginWrite, SetWord, Crash, StoreWord, EndWrite,
           CallRead, Spin, BeginRead, LoadWord, Retry, vars, poolVars, writerVars, readerVars
<1> QED
    BY <1>1, <1>2, <1>3

\* With one writer process that is not killed, no reader ever gets a torn
\* multi-word value.
THEOREM NoTornRead ==
    ASSUME OneWriterProcess, NoCrash
    PROVE  Spec => []UntornReads
<1>1. Init => Inv
    BY InitTypeOK, InitSeqlockInv DEF Inv
<1>2. Init => UntornReads
    BY DEF Init, UntornReads, Nothing
<1>3. Inv /\ [Next]_vars => Inv'
    BY NextTypeOK, NextSeqlockInv DEF Inv
<1> QED
    BY <1>1, <1>2, <1>3, NextUntornReads, PTL DEF Spec

-----------------------------------------------------------------------------
(* The refinement.                                                          *)

LEMMA InitAtomic == Init => Atomic!Init
BY CellsAssumption DEF Init, Atomic!Init, BlockRegs, Blocks, Nothing

\* Steps of the seqlock that the users of the pool cannot tell apart.
LEMMA StutterAtomic ==
    ASSUME (\A x \in BlockRegs : image'[x] = image[x]), rout' = rout
    PROVE  UNCHANGED Atomic!vars
BY DEF Atomic!vars

LEMMA EndWriteAtomic ==
    ASSUME Inv, NEW w \in Writers, EndWrite(w)
    PROVE  Atomic!Next
<1> DEFINE c == wcell[w]
           v == writes[c]
<1>1. c \in Blocks /\ v \in 0..MaxWrites
    BY CellsAssumption DEF Inv, TypeOK, EndWrite, Blocks
<1>2. \A x \in BlockRegs : image'[x] = IF x \in c THEN v ELSE image[x]
    BY CellsAssumption DEF EndWrite, BlockRegs, Blocks
<1>3. rout' = rout
    BY DEF EndWrite, readerVars
<1>4. Atomic!Put(c, v)
    BY <1>2, <1>3 DEF Atomic!Put
<1> QED
    BY <1>1, <1>4 DEF Atomic!Next, Atomic!Put

LEMMA ReturnAtomic ==
    ASSUME Inv, NEW r \in Readers, Return(r)
    PROVE  Atomic!Next
<1>1. image' = image
    BY DEF Return, writerVars
<1>2. rrange[r] \in Ranges
    BY ReturnIsCommitted
<1>3. DOMAIN rout = Readers /\ DOMAIN rout' = Readers
    BY ReturnIsCommitted DEF Inv, TypeOK
<1>4. \A q \in Readers : q # r => rout'[q] = rout[q]
    BY <1>3, ReturnIsCommitted
<1>5. [x \in DOMAIN rout'[r] \cap BlockRegs |-> rout'[r][x]]
        = [x \in rrange[r] \cap BlockRegs |-> [y \in BlockRegs |-> image[y]][x]]
    <2>1. rout'[r] = rbuf[r]
        BY <1>3, ReturnIsCommitted
    <2>2. DOMAIN rbuf[r] = rrange[r] /\ \A x \in rrange[r] \cap BlockRegs : rbuf[r][x] = image[x]
        BY ReturnIsCommitted
    <2> QED
        BY ONLY <2>1, <2>2
<1>6. Atomic!Get(r, rrange[r])
    BY <1>1, <1>4, <1>5 DEF Atomic!Get
<1> QED
    BY <1>2, <1>6 DEF Atomic!Next, Atomic!Get

LEMMA NextAtomic == Inv /\ [Next]_vars => [Atomic!Next]_Atomic!vars
<1> SUFFICES ASSUME Inv, [Next]_vars PROVE [Atomic!Next]_Atomic!vars
    OBVIOUS
<1>1. ASSUME NEW w \in Writers, NEW c \in Words, SetWord(w, c) PROVE UNCHANGED Atomic!vars
    <2>1. \A x \in BlockRegs : image'[x] = image[x]
        BY <1>1, BlocksDisjoint, CellsAssumption DEF SetWord, BlockRegs, Blocks
    <2> QED
        BY <1>1, <2>1, StutterAtomic DEF SetWord, readerVars
<1>2. CASE image' = image /\ rout' = rout
    BY <1>2, StutterAtomic
<1>3. \/ image' = image /\ rout' = rout
      \/ \E w \in Writers : EndWrite(w) \/ \E c \in Words : SetWord(w, c)
      \/ \E r \in Readers : Return(r)
    BY DEF Next, WriterStep, ReaderStep, BeginWrite, Crash, StoreWord,
           CallRead, Spin, BeginRead, LoadWord, Retry, vars, poolVars, writerVars, readerVars
<1> QED
    BY <1>1, <1>2, <1>3, EndWriteAtomic, ReturnAtomic

\* With one writer process that is not killed, the seqlock implements a pool
\* whose multi-word reads and writes are single steps.
THEOREM SeqlockImplementsAtomicPool ==
    ASSUME OneWriterProcess, NoCrash
    PROVE  Spec => ImplementsAtomicPool
<1>1. Init => Inv
    BY InitTypeOK, InitSeqlockInv DEF Inv
<1>2. Inv /\ [Next]_vars => Inv'
    BY NextTypeOK, NextSeqlockInv DEF Inv
<1> QED
    BY <1>1, <1>2, InitAtomic, NextAtomic, PTL DEF Spec, ImplementsAtomicPool, Atomic!Spec

-----------------------------------------------------------------------------
(* Any number of writers, killed or not.                                    *)

\* The writers between their two bumps of seq.
Storing == {w \in Writers : wpc[w] = "store"}

\* seq is odd exactly when the writes begun and never finished are odd in
\* number: the ones under way and the ones a kill cut short.  No read begins
\* at an odd seq.
WindowInv ==
    /\ IsFiniteSet(Storing)
    /\ seq % 2 = (Cardinality(Storing) + crashes) % 2
    /\ \A r \in Readers : rpc[r] = "load" => rseq[r] % 2 = 0

\* Two numbers of the same parity keep it when both move by one.
LEMMA SameParity ==
    ASSUME NEW m \in Nat, NEW n \in Nat, m % 2 = n % 2
    PROVE  /\ (m + 1) % 2 = (n + 1) % 2
           /\ n > 0 => (m + 1) % 2 = (n - 1) % 2
OBVIOUS

LEMMA InitWindowInv == Init => WindowInv
<1> SUFFICES ASSUME Init PROVE WindowInv
    OBVIOUS
<1>1. Storing = {} /\ seq = 0 /\ crashes = 0 /\ \A r \in Readers : rpc[r] = "idle"
    BY DEF Init, Storing
<1>2. IsFiniteSet(Storing) /\ Cardinality(Storing) = 0
    BY <1>1, FS_EmptySet, Zenon
<1> QED
    BY <1>1, <1>2 DEF WindowInv

\* The first bump: one more write is under way.
LEMMA BeginWriteWindow ==
    ASSUME TypeOK, WindowInv, NEW w \in Writers, NEW c \in Cells, BeginWrite(w, c)
    PROVE  WindowInv'
<1>1. Storing' = Storing \cup {w} /\ w \notin Storing
    BY DEF BeginWrite, TypeOK, Storing
<1>2. IsFiniteSet(Storing') /\ Cardinality(Storing') = Cardinality(Storing) + 1
    BY <1>1, FS_AddElement, Zenon DEF WindowInv
<1>3. Cardinality(Storing) \in Nat
    BY FS_CardinalityType DEF WindowInv
<1>4. seq' = seq + 1 /\ crashes' = crashes /\ rpc' = rpc /\ rseq' = rseq
    BY DEF BeginWrite, readerVars
<1>5. seq' % 2 = (Cardinality(Storing') + crashes') % 2
    <2>1. seq \in Nat /\ Cardinality(Storing) + crashes \in Nat
        BY <1>3 DEF TypeOK
    <2> QED
        BY <1>2, <1>3, <1>4, <2>1, SameParity DEF WindowInv, TypeOK
<1> QED
    BY <1>2, <1>4, <1>5 DEF WindowInv

\* The second bump: one write less.
LEMMA EndWriteWindow ==
    ASSUME TypeOK, WindowInv, NEW w \in Writers, EndWrite(w)
    PROVE  WindowInv'
<1>1. Storing' = Storing \ {w} /\ w \in Storing
    BY DEF EndWrite, TypeOK, Storing
<1>2. IsFiniteSet(Storing') /\ Cardinality(Storing') = Cardinality(Storing) - 1
    BY <1>1, FS_RemoveElement, Zenon DEF WindowInv
<1>3. Cardinality(Storing) \in Nat /\ Cardinality(Storing) > 0
    <2>1. Cardinality(Storing) \in Nat
        BY FS_CardinalityType DEF WindowInv
    <2>2. Cardinality(Storing) # 0
        BY <1>1, FS_EmptySet, Zenon DEF WindowInv
    <2> QED
        BY <2>1, <2>2
<1>4. seq' = seq + 1 /\ crashes' = crashes /\ rpc' = rpc /\ rseq' = rseq
    BY DEF EndWrite, readerVars
<1>5. seq' % 2 = (Cardinality(Storing') + crashes') % 2
    <2>1. seq \in Nat /\ Cardinality(Storing) + crashes \in Nat /\ Cardinality(Storing) + crashes > 0
        BY <1>3 DEF TypeOK
    <2> QED
        BY <1>2, <1>3, <1>4, <2>1, SameParity DEF WindowInv, TypeOK
<1> QED
    BY <1>2, <1>4, <1>5 DEF WindowInv

\* A kill: the write counts as unfinished for ever.
LEMMA CrashWindow ==
    ASSUME TypeOK, WindowInv, NEW w \in Writers, Crash(w)
    PROVE  WindowInv'
<1>1. Storing' = Storing \ {w} /\ w \in Storing
    BY DEF Crash, TypeOK, Storing
<1>2. IsFiniteSet(Storing') /\ Cardinality(Storing') = Cardinality(Storing) - 1
    BY <1>1, FS_RemoveElement, Zenon DEF WindowInv
<1>3. Cardinality(Storing) \in Nat
    BY FS_CardinalityType DEF WindowInv
<1>4. seq' = seq /\ crashes' = crashes + 1 /\ rpc' = rpc /\ rseq' = rseq
    BY DEF Crash, poolVars, readerVars
<1>5. Cardinality(Storing') + crashes' = Cardinality(Storing) + crashes
    BY <1>2, <1>3, <1>4 DEF TypeOK
<1> QED
    BY <1>2, <1>4, <1>5 DEF WindowInv

LEMMA NextWindowInv == TypeOK /\ WindowInv /\ [Next]_vars => WindowInv'
<1> SUFFICES ASSUME TypeOK, WindowInv, [Next]_vars PROVE WindowInv'
    OBVIOUS
<1>1. ASSUME wpc' = wpc, seq' = seq, crashes' = crashes,
             \A r \in Readers : rpc'[r] = "load" => rseq'[r] % 2 = 0
      PROVE  WindowInv'
    <2>1. Storing' = Storing
        BY <1>1 DEF Storing
    <2> QED
        BY <1>1, <2>1 DEF WindowInv
<1>2. ASSUME NEW w \in Writers, NEW c \in Words, SetWord(w, c) PROVE WindowInv'
    BY <1>1, <1>2 DEF SetWord, readerVars, WindowInv
<1>3. ASSUME NEW w \in Writers, NEW x \in Regs, StoreWord(w, x) PROVE WindowInv'
    BY <1>1, <1>3 DEF StoreWord, readerVars, WindowInv
<1>4. ASSUME NEW r \in Readers, NEW range \in Ranges, CallRead(r, range) PROVE WindowInv'
    BY <1>1, <1>4 DEF CallRead, poolVars, writerVars, TypeOK, WindowInv
<1>5. ASSUME NEW r \in Readers, BeginRead(r) PROVE WindowInv'
    BY <1>1, <1>5 DEF BeginRead, poolVars, writerVars, TypeOK, WindowInv
<1>6. ASSUME NEW r \in Readers, NEW x \in Regs, LoadWord(r, x) PROVE WindowInv'
    BY <1>1, <1>6 DEF LoadWord, poolVars, writerVars, WindowInv
<1>7. ASSUME NEW r \in Readers, Retry(r) PROVE WindowInv'
    BY <1>1, <1>7 DEF Retry, poolVars, writerVars, TypeOK, WindowInv
<1>8. ASSUME NEW r \in Readers, Return(r) PROVE WindowInv'
    BY <1>1, <1>8 DEF Return, poolVars, writerVars, TypeOK, WindowInv
<1>9. CASE UNCHANGED vars
    BY <1>1, <1>9 DEF vars, poolVars, writerVars, readerVars, WindowInv
<1>10. Blocks \subseteq Cells
    BY DEF Blocks
<1> QED
    BY <1>2, <1>3, <1>4, <1>5, <1>6, <1>7, <1>8, <1>9, <1>10, BeginWriteWindow, EndWriteWindow, CrashWindow
       DEF Next, WriterStep, ReaderStep, Spin

\* Whoever writes and is killed, a read is accepted only while the writes
\* begun and not finished are even in number.
THEOREM WindowCorrect == Spec => []AcceptWindow
<1>1. Init => TypeOK /\ WindowInv
    BY InitTypeOK, InitWindowInv
<1>2. TypeOK /\ WindowInv /\ [Next]_vars => (TypeOK /\ WindowInv)'
    BY NextTypeOK, NextWindowInv
<1>3. WindowInv => AcceptWindow
    <2> SUFFICES ASSUME WindowInv, NEW r \in Readers, rpc[r] = "load", rseq[r] = seq
                 PROVE  (Cardinality(Storing) + crashes) % 2 = 0
        BY DEF AcceptWindow, Storing
    <2> QED
        BY DEF WindowInv
<1> QED
    BY <1>1, <1>2, <1>3, PTL DEF Spec

-----------------------------------------------------------------------------
(* Bits, bytes and words: SubWord.                                          *)

\* Replacing a field of a word gives a word.
LEMMA WithIsWord ==
    ASSUME NEW q \in Requests, NEW w \in A!Words
    PROVE  A!With(q, w) \in A!Words
<1>1. q.word \in A!Words
    BY WordAssumption
<1> QED
    BY <1>1 DEF A!With, A!Words

\* What is asked of a register the checks let through.
LEMMA AllowedRegister ==
    ASSUME NEW q \in Requests, A!Allowed(q)
    PROVE  q.reg \in 0..PoolRegs - 1
<1>1. q.reg \in Nat /\ PoolRegs \in Nat
    BY WordAssumption
<1> QED
    BY <1>1 DEF A!Allowed

\* Setting one bit, or all of them, is replacing the field.
LEMMA BitIsField ==
    ASSUME NEW q \in Requests, NEW w \in A!Words, q.kind = "bit", A!Allowed(q)
    PROVE  A!With(q, w) = [w EXCEPT ![q.sub] = q.word[q.sub]]
<1>1. q.sub \in Nat
    BY WordAssumption
<1>2. A!Field(q) = {q.sub}
    BY <1>1, WordAssumption DEF A!Field, A!Allowed, A!Bits
<1> QED
    BY <1>2 DEF A!With, A!Words

LEMMA WordIsField ==
    ASSUME NEW q \in Requests, NEW w \in A!Words, q.kind = "u16"
    PROVE  A!With(q, w) = q.word
<1>1. q.word \in A!Words
    BY WordAssumption
<1>2. A!Field(q) = A!Bits
    BY DEF A!Field
<1> QED
    BY <1>1, <1>2 DEF A!With, A!Words

LEMMA WordInitTypes == WordInit => WordTypeOK
<1>1. A!Zero \in A!Words
    BY DEF A!Zero, A!Words
<1> QED
    BY <1>1 DEF WordInit, A!Init, WordTypeOK

LEMMA WordStepTypes == WordTypeOK /\ [WordNext]_wordVars => WordTypeOK'
<1> SUFFICES ASSUME WordTypeOK, [WordNext]_wordVars PROVE WordTypeOK'
    OBVIOUS
<1> USE DEF WordTypeOK, A!Returns
<1>1. ASSUME NEW p \in Procs, NEW q \in Requests, Call(p, q) PROVE WordTypeOK'
    BY <1>1 DEF Call, A!Call
<1>2. ASSUME NEW p \in Procs, Refuse(p) PROVE WordTypeOK'
    BY <1>2 DEF Refuse, A!Refuse
<1>3. ASSUME NEW p \in Procs, Load(p) PROVE WordTypeOK'
    BY <1>3 DEF Load, At
<1>4. ASSUME NEW p \in Procs, SetBit(p) PROVE WordTypeOK'
    <2>1. asked[p] \in Requests /\ A!Allowed(asked[p]) /\ asked[p].kind = "bit"
        BY <1>4 DEF SetBit, At
    <2>2. mem[Reg(p)] \in A!Words
        BY <2>1, AllowedRegister DEF Reg
    <2>3. mem' = [mem EXCEPT ![Reg(p)] = A!With(asked[p], mem[Reg(p)])]
        BY <1>4, <2>1, <2>2, BitIsField DEF SetBit
    <2>4. A!With(asked[p], mem[Reg(p)]) \in A!Words
        BY <2>1, <2>2, WithIsWord
    <2>5. mem' \in [0..PoolRegs - 1 -> A!Words]
        BY <2>3, <2>4
    <2> QED
        BY <1>4, <2>5 DEF SetBit, At
<1>5. ASSUME NEW p \in Procs, SetU16(p) PROVE WordTypeOK'
    <2>1. asked[p].word \in A!Words
        BY <1>5, WordAssumption DEF SetU16, At
    <2> QED
        BY <1>5, <2>1 DEF SetU16, At
<1>6. ASSUME NEW p \in Procs, LoadOld(p) PROVE WordTypeOK'
    <2>1. mem[Reg(p)] \in A!Words
        BY <1>6, AllowedRegister DEF LoadOld, At, Reg
    <2> QED
        BY <1>6, <2>1 DEF LoadOld, At
<1>7. ASSUME NEW p \in Procs, Swap(p) PROVE WordTypeOK'
    <2>1. A!With(asked[p], old[p]) \in A!Words
        BY <1>7, WithIsWord DEF Swap
    <2> QED
        BY <1>7, <2>1 DEF Swap
<1>8. ASSUME NEW p \in Procs, Miss(p) PROVE WordTypeOK'
    <2>1. mem[Reg(p)] \in A!Words
        BY <1>8, AllowedRegister DEF Miss, Reg
    <2> QED
        BY <1>8, <2>1 DEF Miss
<1>9. CASE UNCHANGED wordVars
    BY <1>9 DEF wordVars
<1> QED
    BY <1>1, <1>2, <1>3, <1>4, <1>5, <1>6, <1>7, <1>8, <1>9 DEF WordNext, Step

\* The variables keep their types, and the loop of mdcu_set_u8 works on bytes that
\* exist.
THEOREM WordTypeCorrect == WordSpec => []WordTypeOK
BY WordInitTypes, WordStepTypes, PTL DEF WordSpec

-----------------------------------------------------------------------------
(* The refinement: LoadOld and Miss stutter, every other step is one of A.  *)

LEMMA WordStepRefines == WordTypeOK /\ [WordNext]_wordVars => [A!Next]_(A!vars)
<1> SUFFICES ASSUME WordTypeOK, [WordNext]_wordVars PROVE [A!Next]_(A!vars)
    OBVIOUS
<1>1. ASSUME NEW p \in Procs, NEW q \in Requests, Call(p, q) PROVE A!Next
    BY <1>1 DEF Call, A!Next
<1>2. ASSUME NEW p \in Procs, Refuse(p) PROVE A!Next
    BY <1>2 DEF Refuse, A!Next
<1>3. ASSUME NEW p \in Procs, Load(p) PROVE A!Next
    <2>1. A!Get(p)
        BY <1>3 DEF Load, At, A!Get, Reg
    <2> QED
        BY <2>1 DEF A!Next
<1>4. ASSUME NEW p \in Procs, asked[p] \in Requests, A!Allowed(asked[p]), asked[p].op = "set",
             mem' = [mem EXCEPT ![Reg(p)] = A!With(asked[p], @)],
             A!Returns(p, "done", A!Zero)
      PROVE  A!Next
    <2>1. A!Set(p)
        BY <1>4, WordAssumption DEF A!Set, Reg
    <2> QED
        BY <2>1 DEF A!Next
<1>5. ASSUME NEW p \in Procs, SetBit(p) \/ SetU16(p) PROVE A!Next
    <2>1. asked[p] \in Requests /\ A!Allowed(asked[p]) /\ asked[p].op = "set"
        BY <1>5 DEF SetBit, SetU16, At, WordTypeOK
    <2>2. mem[Reg(p)] \in A!Words
        BY <2>1, AllowedRegister DEF Reg, WordTypeOK
    <2>3. mem' = [mem EXCEPT ![Reg(p)] = A!With(asked[p], @)]
        <3>1. CASE SetBit(p)
            BY <2>1, <2>2, <3>1, BitIsField DEF SetBit, At
        <3>2. CASE SetU16(p)
            BY <2>1, <2>2, <3>2, WordIsField DEF SetU16, At
        <3> QED
            BY <1>5, <3>1, <3>2
    <2> QED
        BY <1>4, <1>5, <2>1, <2>3 DEF SetBit, SetU16
<1>6. ASSUME NEW p \in Procs, Swap(p) PROVE A!Next
    <2>1. asked[p] \in Requests /\ A!Allowed(asked[p]) /\ asked[p].op = "set"
        BY <1>6 DEF Swap, WordTypeOK
    <2>2. mem' = [mem EXCEPT ![Reg(p)] = A!With(asked[p], @)]
        BY <1>6 DEF Swap
    <2> QED
        BY <1>4, <1>6, <2>1, <2>2 DEF Swap
<1>7. ASSUME NEW p \in Procs, LoadOld(p) \/ Miss(p) PROVE UNCHANGED A!vars
    BY <1>7 DEF LoadOld, Miss, A!vars
<1>8. CASE UNCHANGED wordVars
    BY <1>8 DEF wordVars, A!vars
<1> QED
    BY <1>1, <1>2, <1>3, <1>5, <1>6, <1>7, <1>8 DEF WordNext, Step

\* Bits, bytes and words of one register can be set by any number of threads without
\* a lock: the calls behave as if each were one step.
THEOREM WordImplementsAtomic == WordSpec => ImplementsAtomicWord
<1>1. WordInit => A!Init
    BY DEF WordInit
<1> QED
    BY <1>1, WordInitTypes, WordStepTypes, WordStepRefines, PTL DEF WordSpec, A!Spec, ImplementsAtomicWord
=============================================================================
