------------------------- MODULE RestServer_proofs -------------------------
(***************************************************************************)
(* Proofs about RestServer, for any number of workers, requests and        *)
(* registers.                                                               *)
(***************************************************************************)
EXTENDS RestServer, TLAPS

-----------------------------------------------------------------------------
(* Types: those of the workers, then those of main and the handler.         *)

WorkTypes ==
    /\ map \in [Tables -> [0..Size - 1 -> 0..MaxRequests]]
    /\ mutex \in Workers \cup {Free}
    /\ wpc \in [Workers -> {"idle", "block", "copy", "done"}]
    /\ op \in [Workers -> {"get", "post"}]
    /\ block \in [Workers -> Blocks] /\ coils \in [Workers -> Nat]
    /\ \A w \in Workers : wpc[w] # "idle" =>
          block[w].count \in (IF op[w] = "get" THEN 1 ELSE 0) .. Size
    /\ left \in [Workers -> SUBSET (0..Size - 1)]
    /\ id \in [Workers -> 0..MaxRequests] /\ sizes \in [1..MaxRequests -> 0..Size]
    /\ requests \in 0..MaxRequests

MainTypes ==
    /\ mpc \in {"create", "serve", "assign", "test", "wait", "pause", "join", "exited"}
    /\ hpc \in {"none", "stop", "engine"}
    /\ sig \in BOOLEAN /\ signals \in 0..MaxSignals /\ quit \in BOOLEAN
    /\ server \in {"none", "up", "stopping", "stopped"} /\ http \in BOOLEAN
    /\ alive \in BOOLEAN /\ scan \in {"none", "run", "ended"} /\ early \in BOOLEAN

LEMMA TypeParts == TypeOK <=> WorkTypes /\ MainTypes
BY Zenon DEF TypeOK, WorkTypes, MainTypes

\* What a step of main or of the handler leaves alone.
MainSteps == ScanEnds \/ MainStep \/ Send \/ Handler

LEMMA MainKeepsWork == MainSteps => UNCHANGED work
BY Zenon DEF MainSteps, ScanEnds, MainStep, Send, Handler, Create, Serve, Assign, Test, Pause, Join,
    Handle, Stopped, Engine, SignalKeeps

LEMMA WorkKeepsMain ==
    ASSUME NEW w \in Workers, (\E q \in Requests : Take(w, q)) \/ Work(w)
    PROVE  UNCHANGED main
BY Zenon DEF Take, Work, Skip, Lock, Copy, Unlock, GoOn, Reply

LEMMA NextParts ==
    ASSUME Next
    PROVE  \/ \E w \in Workers : (\E q \in Requests : Take(w, q)) \/ Work(w)
           \/ \E x \in 0..Size - 1 : ScanSets(x)
           \/ MainSteps
BY DEF Next, MainSteps, MainStep, Handler

\* The blocks that requests lead to.
LEMMA AskedBlock ==
    ASSUME NEW b \in Blocks
    PROVE  Asked(b) \in Blocks /\ Asked(b).count \in 1..Size
BY RequestsAssumption DEF Blocks, Asked

LEMMA ArrayBlock ==
    ASSUME NEW t \in Tables, NEW n \in Nat
    PROVE  Array(t, n) \in Blocks /\ Array(t, n).count \in 0..Size
BY RequestsAssumption DEF Blocks, Array

LEMMA ValidWords ==
    ASSUME NEW b \in Blocks, ValidRange(b)
    PROVE  Words(b) \subseteq 0..Size - 1
BY RequestsAssumption DEF Blocks, ValidRange, Words

LEMMA InitTypes == Init => WorkTypes /\ MainTypes
<1>1. Init => WorkTypes
    BY RequestsAssumption DEF Init, WorkTypes, Tables, Blocks, NoBlock
<1>2. Init => signals \in 0..MaxSignals
    BY RequestsAssumption DEF Init
<1>3. Init => MainTypes
    BY <1>2, Zenon DEF Init, MainTypes
<1> QED
    BY <1>1, <1>3

LEMMA StepWorkTypes == WorkTypes /\ [Next]_vars => WorkTypes'
<1> SUFFICES ASSUME WorkTypes, [Next]_vars PROVE WorkTypes'
    OBVIOUS
<1>1. ASSUME NEW w \in Workers, NEW q \in Requests, Take(w, q) PROVE WorkTypes'
    <2>1. /\ requests' \in 1..MaxRequests
          /\ wpc' = [wpc EXCEPT ![w] = "block"] /\ op' = [op EXCEPT ![w] = q.op]
          /\ UNCHANGED <<map, mutex, left>>
        BY <1>1, RequestsAssumption DEF Take, WorkTypes, main
    <2>2. CASE q.op = "get"
        <3>1. /\ Asked(q.block) \in Blocks /\ Asked(q.block).count \in 1..Size
            BY <2>2, AskedBlock, RequestsAssumption
        <3>2. /\ block' = [block EXCEPT ![w] = Asked(q.block)]
              /\ UNCHANGED <<coils, id, sizes>>
            BY <1>1, <2>2, Zenon DEF Take
        <3>3. \A v \in Workers : wpc'[v] # "idle" =>
                  block'[v].count \in (IF op'[v] = "get" THEN 1 ELSE 0) .. Size
            BY <2>1, <2>2, <3>1, <3>2 DEF WorkTypes
        <3> QED
            BY <2>1, <2>2, <3>1, <3>2, <3>3 DEF WorkTypes
    <2>3. CASE q.op # "get"
        <3>1. q.op = "post" /\ q.holding \in Nat /\ q.coils \in Nat
            BY <2>3, RequestsAssumption
        <3>2. /\ Array("holding", q.holding) \in Blocks
              /\ Array("holding", q.holding).count \in 0..Size
            BY <3>1, ArrayBlock DEF Tables
        <3>3. /\ block' = [block EXCEPT ![w] = Array("holding", q.holding)]
              /\ coils' = [coils EXCEPT ![w] = q.coils] /\ id' = [id EXCEPT ![w] = requests']
              /\ sizes' = [sizes EXCEPT ![requests'] = Array("holding", q.holding).count]
            BY <1>1, <2>3, Zenon DEF Take
        <3>4. \A v \in Workers : wpc'[v] # "idle" =>
                  block'[v].count \in (IF op'[v] = "get" THEN 1 ELSE 0) .. Size
            BY <2>1, <2>3, <3>1, <3>2, <3>3 DEF WorkTypes
        <3> QED
            BY <2>1, <2>3, <3>1, <3>2, <3>3, <3>4 DEF WorkTypes
    <2> QED
        BY <2>2, <2>3
<1>2. ASSUME NEW w \in Workers, Skip(w) PROVE WorkTypes'
    BY <1>2 DEF Skip, WorkTypes
<1>3. ASSUME NEW w \in Workers, Lock(w) PROVE WorkTypes'
    <2>1. Words(block[w]) \subseteq 0..Size - 1
        BY <1>3, ValidWords DEF Lock, WorkTypes
    <2> QED
        BY <1>3, <2>1 DEF Lock, WorkTypes
<1>4. ASSUME NEW w \in Workers, NEW x \in 0..Size - 1, Copy(w, x) PROVE WorkTypes'
    <2>1. CASE op[w] = "get"
        BY <1>4, <2>1 DEF Copy, WorkTypes
    <2>2. CASE op[w] # "get"
        <3>1. block[w].table \in Tables /\ id[w] \in 0..MaxRequests
            BY DEF WorkTypes, Blocks
        <3>2. map' = [map EXCEPT ![block[w].table][x] = id[w]]
            BY <1>4, <2>2, Zenon DEF Copy
        <3>3. map' \in [Tables -> [0..Size - 1 -> 0..MaxRequests]]
            BY <3>1, <3>2 DEF WorkTypes
        <3>4. /\ left' = [left EXCEPT ![w] = @ \ {x}]
              /\ UNCHANGED <<mutex, wpc, op, block, coils, id, sizes, requests>>
            BY <1>4, Zenon DEF Copy
        <3>5. left' \in [Workers -> SUBSET (0..Size - 1)]
            BY <3>4 DEF WorkTypes
        <3> QED
            BY <3>3, <3>4, <3>5 DEF WorkTypes
    <2> QED
        BY <2>1, <2>2
<1>5. ASSUME NEW w \in Workers, Unlock(w) PROVE WorkTypes'
    BY <1>5 DEF Unlock, WorkTypes
<1>6. ASSUME NEW w \in Workers, GoOn(w) PROVE WorkTypes'
    <2>1. /\ Array("coil", coils[w]) \in Blocks
          /\ Array("coil", coils[w]).count \in 0..Size
        BY ArrayBlock DEF WorkTypes, Tables
    <2> QED
        BY <1>6, <2>1 DEF GoOn, WorkTypes
<1>7. ASSUME NEW w \in Workers, Reply(w) PROVE WorkTypes'
    BY <1>7 DEF Reply, WorkTypes
<1>8. ASSUME NEW x \in 0..Size - 1, ScanSets(x) PROVE WorkTypes'
    BY <1>8, RequestsAssumption DEF ScanSets, WorkTypes, Tables
<1>9. CASE UNCHANGED work
    BY <1>9 DEF work, WorkTypes
<1> QED
    BY <1>1, <1>2, <1>3, <1>4, <1>5, <1>6, <1>7, <1>8, <1>9, NextParts, MainKeepsWork DEF Work, vars

LEMMA StepMainTypes == MainTypes /\ [Next]_vars => MainTypes'
<1> SUFFICES ASSUME MainTypes, [Next]_vars PROVE MainTypes'
    OBVIOUS
<1>1. CASE UNCHANGED main
    BY <1>1 DEF main, MainTypes
<1>2. ASSUME NEW x \in 0..Size - 1, ScanSets(x) PROVE MainTypes'
    BY <1>1, <1>2, Zenon DEF ScanSets
<1>3. CASE ScanEnds
    BY <1>3 DEF ScanEnds, MainTypes
<1>4. CASE MainStep
    BY <1>4 DEF MainStep, Main, SignalKeeps, Create, Serve, Assign, Test, Pause, Join, MainTypes
<1>5. CASE Send
    BY <1>5, RequestsAssumption DEF Send, MainTypes
<1>6. CASE Handler
    BY <1>6, Zenon DEF Handler, Handle, Stopped, Engine, MainTypes
<1> QED
    BY <1>1, <1>2, <1>3, <1>4, <1>5, <1>6, NextParts, WorkKeepsMain DEF MainSteps, vars

\* The variables keep their types; no block is longer than the array it is copied to.
THEOREM TypeCorrect == Spec => []TypeOK
BY InitTypes, StepWorkTypes, StepMainTypes, TypeParts, PTL DEF Spec

-----------------------------------------------------------------------------
(* The mutex.                                                               *)

\* The owner of reg_mutex is the worker that copies.
Locked == \A w \in Workers : wpc[w] = "copy" <=> mutex = w

LEMMA LockedStays == WorkTypes /\ Locked /\ [Next]_vars => Locked'
<1> SUFFICES ASSUME WorkTypes, Locked, [Next]_vars PROVE Locked'
    OBVIOUS
<1> USE DEF WorkTypes, Locked
<1>1. ASSUME NEW w \in Workers, NEW q \in Requests, Take(w, q) PROVE Locked'
    BY <1>1 DEF Take
<1>2. ASSUME NEW w \in Workers, Skip(w) PROVE Locked'
    BY <1>2 DEF Skip
<1>3. ASSUME NEW w \in Workers, Lock(w) PROVE Locked'
    BY <1>3, RequestsAssumption DEF Lock
<1>4. ASSUME NEW w \in Workers, NEW x \in 0..Size - 1, Copy(w, x) PROVE Locked'
    BY <1>4 DEF Copy
<1>5. ASSUME NEW w \in Workers, Unlock(w) PROVE Locked'
    BY <1>5, RequestsAssumption DEF Unlock
<1>6. ASSUME NEW w \in Workers, GoOn(w) PROVE Locked'
    BY <1>6 DEF GoOn
<1>7. ASSUME NEW w \in Workers, Reply(w) PROVE Locked'
    BY <1>7 DEF Reply
<1>8. ASSUME NEW x \in 0..Size - 1, ScanSets(x) PROVE Locked'
    BY <1>8 DEF ScanSets
<1>9. CASE UNCHANGED work
    BY <1>9 DEF work
<1> QED
    BY <1>1, <1>2, <1>3, <1>4, <1>5, <1>6, <1>7, <1>8, <1>9, NextParts, MainKeepsWork DEF Work, vars

-----------------------------------------------------------------------------
(* The end of the daemon.                                                   *)

\* Main has not come to know of the server yet.
Early == mpc \in {"create", "serve", "assign"}

\* The stages of the server, and what main and the handler know of it.
Stages ==
    /\ mpc = "create" => scan = "none"
    /\ mpc \in {"create", "serve"} => server = "none"
    /\ Early => ~http
    /\ server \in {"none", "stopped"} => \A w \in Workers : wpc[w] = "idle"
    /\ ~Early /\ ~http => server \in {"none", "stopped"}
    /\ quit /\ ~early => ~Early /\ (hpc = "stop" \/ ~http)
    /\ mpc = "join" => quit
    /\ mpc = "exited" => scan # "run" /\ hpc = "none" /\ (quit \/ server = "none")

\* A worker moves only while the server is there and the daemon has not ended.
LEMMA WorkWhileUp ==
    ASSUME WorkTypes, Stages, NEW w \in Workers, (\E q \in Requests : Take(w, q)) \/ Work(w)
    PROVE  server \notin {"none", "stopped"} /\ mpc # "exited"
BY Zenon DEF Stages, Take, Work, Skip, Lock, Copy, Unlock, GoOn, Reply

LEMMA StagesStay == WorkTypes /\ MainTypes /\ Stages /\ [Next]_vars => Stages'
<1> SUFFICES ASSUME WorkTypes, MainTypes, Stages, [Next]_vars PROVE Stages'
    OBVIOUS
<1>1. ASSUME NEW w \in Workers, (\E q \in Requests : Take(w, q)) \/ Work(w) PROVE Stages'
    BY <1>1, WorkWhileUp, WorkKeepsMain, Zenon DEF main, Stages, Early
<1>2. ASSUME NEW x \in 0..Size - 1, ScanSets(x) PROVE Stages'
    BY <1>2, Zenon DEF ScanSets, main, Stages, Early
<1>3. CASE ScanEnds
    BY <1>3, MainKeepsWork DEF MainSteps, work, ScanEnds, Stages, Early
<1>4. CASE MainStep
    <2>1. wpc' = wpc
        BY <1>4, MainKeepsWork DEF MainSteps, work
    <2>2. CASE Create
        BY <2>1, <2>2 DEF Create, Main, SignalKeeps, Stages, Early, MainTypes
    <2>3. CASE Serve
        BY <2>1, <2>3 DEF Serve, Main, SignalKeeps, Stages, Early, MainTypes
    <2>4. CASE Assign
        BY <2>1, <2>4 DEF Assign, Main, SignalKeeps, Stages, Early, MainTypes
    <2>5. CASE Test
        BY <2>1, <2>5 DEF Test, Main, SignalKeeps, Stages, Early, MainTypes
    <2>6. CASE Pause
        BY <2>1, <2>6 DEF Pause, Main, SignalKeeps, Stages, Early, MainTypes
    <2>7. CASE Join
        BY <2>1, <2>7 DEF Join, Main, SignalKeeps, Stages, Early, MainTypes
    <2> QED
        BY <1>4, <2>2, <2>3, <2>4, <2>5, <2>6, <2>7 DEF MainStep
<1>5. CASE Send
    BY <1>5, MainKeepsWork DEF MainSteps, work, Send, Stages, Early
<1>6. CASE Handler
    <2>1. wpc' = wpc
        BY <1>6, MainKeepsWork DEF MainSteps, work
    <2>2. CASE Handle
        BY <2>1, <2>2 DEF Handle, Stages, Early, MainTypes
    <2>3. CASE Stopped
        BY <2>1, <2>3 DEF Stopped, Stages, Early, MainTypes
    <2>4. CASE Engine
        BY <2>1, <2>4 DEF Engine, Stages, Early, MainTypes
    <2> QED
        BY <1>6, <2>2, <2>3, <2>4 DEF Handler
<1>7. CASE UNCHANGED vars
    BY <1>7 DEF vars, work, main, Stages, Early
<1> QED
    BY <1>1, <1>2, <1>3, <1>4, <1>5, <1>6, <1>7, NextParts DEF MainSteps

\* The daemon ends with its scan thread ended and, unless the signal came before g_http
\* was set, with every request answered and the mutex free.
THEOREM ExitIsDrained == Spec => []DrainedExit
<1> DEFINE I == WorkTypes /\ MainTypes /\ Locked /\ Stages
<1>1. Init => I
    <2> SUFFICES ASSUME Init PROVE Locked /\ Stages
        BY InitTypes
    <2>1. /\ mutex = Free /\ wpc = [w \in Workers |-> "idle"]
          /\ mpc = "create" /\ ~http /\ ~quit /\ server = "none" /\ scan = "none"
        BY Zenon DEF Init
    <2> QED
        BY <2>1, RequestsAssumption DEF Locked, Stages, Early
<1>2. I /\ [Next]_vars => I'
    BY StepWorkTypes, StepMainTypes, LockedStays, StagesStay
<1>3. I => DrainedExit
    BY DEF I, Locked, Stages, Early, DrainedExit, WorkTypes, MainTypes
<1> QED
    BY <1>1, <1>2, <1>3, PTL DEF Spec

-----------------------------------------------------------------------------
(* The words in the map and in tmp.                                         *)

\* No word carries a number that is not taken yet; POSTs have numbers of their own.
Numbers ==
    /\ \A t \in Tables, x \in 0..Size - 1 : map[t][x] \in 0..requests
    /\ \A w \in Workers : id[w] \in 0..requests
    /\ \A v, w \in Workers : v # w /\ id[v] = id[w] => id[v] = 0
    /\ \A w \in Workers : op[w] = "post" /\ wpc[w] # "idle" => id[w] # 0

\* The words v are of the map.
Known(v) == \A x \in DOMAIN v : v[x] \in 0..requests

\* The words v that a GET of block b has: of the map, or none of them is.
Reported(b, v) ==
    IF ValidRange(b) THEN Known(v) ELSE \A x \in DOMAIN v : v[x] = Junk /\ b.count # 0

Tmp ==
    /\ DOMAIN buf = Workers /\ DOMAIN out = Workers
    /\ \A w \in Workers : op[w] = "get" =>
          /\ wpc[w] = "block" => DOMAIN buf[w] = {}
          /\ wpc[w] = "copy" => ValidRange(block[w]) /\ Known(buf[w])
          /\ wpc[w] = "done" => Reported(block[w], buf[w])
    /\ \A w \in Workers : out[w].block \in Blocks /\ Reported(out[w].block, out[w].values)

LEMMA InitTmp == Init => Numbers /\ Tmp
<1> SUFFICES ASSUME Init PROVE Numbers /\ Tmp
    OBVIOUS
<1>1. /\ map = [t \in Tables |-> [x \in 0..Size - 1 |-> 0]] /\ requests = 0
      /\ wpc = [w \in Workers |-> "idle"] /\ id = [w \in Workers |-> 0]
      /\ buf = [w \in Workers |-> [x \in {} |-> 0]]
      /\ out = [w \in Workers |-> [block |-> NoBlock, values |-> [x \in {} |-> 0]]]
    BY Zenon DEF Init
<1>2. Numbers
    BY <1>1 DEF Numbers
<1>3. NoBlock \in Blocks
    BY DEF NoBlock, Blocks, Tables
<1>4. Tmp
    BY <1>1, <1>3 DEF Tmp, Reported, Known
<1> QED
    BY <1>2, <1>4

LEMMA NumbersStay == WorkTypes /\ Numbers /\ [Next]_vars => Numbers' /\ requests' \in requests..MaxRequests
<1> SUFFICES ASSUME WorkTypes, Numbers, [Next]_vars PROVE Numbers' /\ requests' \in requests..MaxRequests
    OBVIOUS
<1>1. ASSUME NEW w \in Workers, NEW q \in Requests, Take(w, q)
      PROVE  Numbers' /\ requests' \in requests..MaxRequests
    <2>1. /\ requests' = requests + 1 /\ requests < MaxRequests /\ UNCHANGED map
          /\ wpc' = [wpc EXCEPT ![w] = "block"] /\ op' = [op EXCEPT ![w] = q.op]
          /\ IF q.op = "get" THEN UNCHANGED id ELSE id' = [id EXCEPT ![w] = requests']
        BY <1>1, Zenon DEF Take
    <2>2. requests \in Nat /\ requests' \in requests..MaxRequests
        BY <2>1, RequestsAssumption DEF WorkTypes
    <2>3. \A t \in Tables, x \in 0..Size - 1 : map'[t][x] \in 0..requests'
        BY <2>1, <2>2 DEF Numbers
    <2>4. \A v \in Workers : id[v] \in 0..requests
        BY DEF Numbers
    <2>5. \A v \in Workers : id'[v] = id[v] \/ (v = w /\ id'[v] = requests' /\ q.op # "get")
        <3>1. CASE q.op = "get"
            BY <2>1, <3>1
        <3>2. CASE q.op # "get"
            <4>1. id' = [id EXCEPT ![w] = requests']
                BY <2>1, <3>2
            <4> QED
                BY <3>2, <4>1 DEF WorkTypes
        <3> QED
            BY <3>1, <3>2
    <2>6. q.op # "get" => id'[w] = requests'
        BY <2>1 DEF WorkTypes
    <2>7. \A v \in Workers : op'[v] = "post" /\ wpc'[v] # "idle" => id'[v] # 0
        <3> SUFFICES ASSUME NEW v \in Workers, op'[v] = "post", wpc'[v] # "idle" PROVE id'[v] # 0
            OBVIOUS
        <3>1. CASE v = w
            BY <2>1, <2>2, <2>6, <3>1 DEF WorkTypes
        <3>2. CASE v # w
            BY <2>1, <2>5, <3>2 DEF Numbers, WorkTypes
        <3> QED
            BY <3>1, <3>2
    <2>8. \A u, v \in Workers : u # v /\ id'[u] = id'[v] => id'[u] = 0
        BY <2>1, <2>2, <2>4, <2>5 DEF Numbers
    <2> QED
        BY <2>1, <2>2, <2>3, <2>4, <2>5, <2>7, <2>8 DEF Numbers
<1>2. ASSUME NEW w \in Workers, NEW x \in 0..Size - 1, Copy(w, x) PROVE Numbers' /\ UNCHANGED requests
    <2>1. block[w].table \in Tables
        BY DEF WorkTypes, Blocks
    <2>2. UNCHANGED <<wpc, op, id, requests>>
        BY <1>2, Zenon DEF Copy
    <2>3. map' = map \/ map' = [map EXCEPT ![block[w].table][x] = id[w]]
        BY <1>2, Zenon DEF Copy
    <2>4. id[w] \in 0..requests
        BY DEF Numbers
    <2>5. \A t \in Tables, y \in 0..Size - 1 : map'[t][y] \in {map[t][y], id[w]}
        <3> DEFINE t == block[w].table
        <3> HIDE DEF t
        <3>1. t \in Tables /\ (map' = map \/ map' = [map EXCEPT ![t][x] = id[w]])
            BY <2>1, <2>3 DEF t
        <3> QED
            BY <3>1 DEF WorkTypes
    <2>6. \A t \in Tables, y \in 0..Size - 1 : map[t][y] \in 0..requests
        BY DEF Numbers
    <2> QED
        BY <2>2, <2>4, <2>5, <2>6 DEF Numbers
<1>3. ASSUME NEW w \in Workers, Skip(w) \/ Lock(w) \/ Unlock(w) \/ GoOn(w) \/ Reply(w)
      PROVE  Numbers' /\ UNCHANGED requests
    <2>1. UNCHANGED <<map, op, id, requests>>
        BY <1>3, Zenon DEF Skip, Lock, Unlock, GoOn, Reply
    <2>2. \A v \in Workers : wpc'[v] # "idle" => wpc[v] # "idle"
        BY <1>3 DEF Skip, Lock, Unlock, GoOn, Reply, WorkTypes
    <2> QED
        BY <2>1, <2>2 DEF Numbers
<1>4. ASSUME NEW x \in 0..Size - 1, ScanSets(x) PROVE Numbers' /\ UNCHANGED requests
    BY <1>4 DEF ScanSets, Numbers, WorkTypes, Tables
<1>5. ASSUME UNCHANGED work PROVE Numbers' /\ UNCHANGED requests
    BY <1>5 DEF work, Numbers
<1>6. requests \in requests..MaxRequests
    BY RequestsAssumption DEF WorkTypes
<1> QED
    BY <1>1, <1>2, <1>3, <1>4, <1>5, <1>6, NextParts, MainKeepsWork, Zenon DEF Work, vars, work

LEMMA TmpStays == WorkTypes /\ Numbers /\ Tmp /\ [Next]_vars => Tmp'
<1> SUFFICES ASSUME WorkTypes, Numbers, Tmp, [Next]_vars PROVE Tmp'
    OBVIOUS
<1>0. requests \in Nat /\ requests' \in Nat /\ requests <= requests'
    BY NumbersStay, RequestsAssumption DEF WorkTypes
<1>. DEFINE Step(w) == /\ \A v \in Workers \ {w} : /\ op'[v] = op[v] /\ wpc'[v] = wpc[v]
                                                   /\ block'[v] = block[v] /\ buf'[v] = buf[v]
                      /\ DOMAIN buf' = Workers
<1>1. ASSUME NEW w \in Workers, Step(w), UNCHANGED out,
             op'[w] = "get" =>
                 /\ wpc'[w] = "block" => DOMAIN buf'[w] = {}
                 /\ wpc'[w] = "copy" => ValidRange(block'[w]) /\ Known(buf[w])'
                 /\ wpc'[w] = "done" => Reported(block[w], buf[w])'
      PROVE  Tmp'
    BY <1>0, <1>1 DEF Tmp, Reported, Known, ValidRange
<1>2. ASSUME NEW w \in Workers, NEW q \in Requests, Take(w, q) PROVE Tmp'
    <2>1. /\ wpc' = [wpc EXCEPT ![w] = "block"] /\ op' = [op EXCEPT ![w] = q.op]
          /\ buf' = [buf EXCEPT ![w] = [x \in {} |-> 0]] /\ UNCHANGED out
          /\ block' = [block EXCEPT ![w] = block'[w]]
        BY <1>2 DEF Take, WorkTypes
    <2>2. DOMAIN buf'[w] = {} /\ wpc'[w] = "block"
        BY <2>1 DEF Tmp, WorkTypes
    <2>3. Step(w)
        BY <2>1 DEF Tmp, WorkTypes
    <2> QED
        BY <1>1, <2>1, <2>2, <2>3
<1>3. ASSUME NEW w \in Workers, Skip(w) PROVE Tmp'
    <2>1. /\ wpc' = [wpc EXCEPT ![w] = "done"]
          /\ buf' = [buf EXCEPT ![w] = [x \in Words(block[w]) |-> Junk]]
          /\ UNCHANGED <<out, op, block>> /\ ~ValidRange(block[w]) /\ wpc[w] = "block"
        BY <1>3, Zenon DEF Skip
    <2>2. wpc'[w] = "done" /\ buf'[w] = [x \in Words(block[w]) |-> Junk] /\ block'[w] = block[w]
        BY <2>1 DEF Tmp, WorkTypes
    <2>3. ASSUME op[w] = "get" PROVE block[w].count # 0
        <3>1. block[w].count \in 1..Size
            BY <2>1, <2>3 DEF WorkTypes
        <3> QED
            BY <3>1, RequestsAssumption
    <2>4. op[w] = "get" => Reported(block[w], buf[w])'
        BY <2>1, <2>2, <2>3 DEF Reported, ValidRange
    <2>5. Step(w)
        BY <2>1 DEF Tmp, WorkTypes
    <2> QED
        BY <1>1, <2>1, <2>2, <2>4, <2>5
<1>4. ASSUME NEW w \in Workers, Lock(w) PROVE Tmp'
    <2>1. /\ wpc' = [wpc EXCEPT ![w] = "copy"] /\ wpc[w] = "block"
          /\ UNCHANGED <<out, op, block, buf>> /\ ValidRange(block[w])
        BY <1>4, Zenon DEF Lock
    <2> QED
        BY <1>1, <2>1 DEF Tmp, WorkTypes, Known, ValidRange
<1>5. ASSUME NEW w \in Workers, NEW x \in 0..Size - 1, Copy(w, x) PROVE Tmp'
    <2>1. UNCHANGED <<wpc, out, op, block, requests>> /\ wpc[w] = "copy"
        BY <1>5, Zenon DEF Copy
    <2>2. CASE op[w] = "get"
        <3>1. buf' = [buf EXCEPT ![w] = [y \in DOMAIN @ \cup {x} |->
                          IF y = x THEN map[block[w].table][x] ELSE @[y]]]
            BY <1>5, <2>2, Zenon DEF Copy
        <3>2. map[block[w].table][x] \in 0..requests
            BY DEF WorkTypes, Numbers, Blocks
        <3>3. ValidRange(block'[w]) /\ Known(buf[w])'
            BY <2>1, <2>2, <3>1, <3>2 DEF Tmp, Known, ValidRange
        <3>4. Step(w)
            BY <2>1, <3>1 DEF Tmp
        <3> QED
            BY <1>1, <2>1, <3>3, <3>4
    <2>3. CASE op[w] # "get"
        <3>1. UNCHANGED buf
            BY <1>5, <2>3, Zenon DEF Copy
        <3> QED
            BY <1>1, <2>1, <2>3, <3>1 DEF Tmp
    <2> QED
        BY <2>2, <2>3
<1>6. ASSUME NEW w \in Workers, Unlock(w) PROVE Tmp'
    <2>1. /\ wpc' = [wpc EXCEPT ![w] = "done"] /\ wpc[w] = "copy"
          /\ UNCHANGED <<out, op, block, buf, requests>>
        BY <1>6, Zenon DEF Unlock
    <2> QED
        BY <1>1, <2>1 DEF Tmp, WorkTypes, Known, ValidRange, Reported
<1>7. ASSUME NEW w \in Workers, GoOn(w) PROVE Tmp'
    <2>1. /\ wpc' = [wpc EXCEPT ![w] = "block"] /\ op[w] = "post"
          /\ block' = [block EXCEPT ![w] = Array("coil", coils[w])]
          /\ UNCHANGED <<out, op, buf>>
        BY <1>7, Zenon DEF GoOn
    <2> QED
        BY <1>1, <2>1 DEF Tmp, WorkTypes
<1>8. ASSUME NEW w \in Workers, Reply(w) PROVE Tmp'
    <2>1. /\ wpc' = [wpc EXCEPT ![w] = "idle"] /\ UNCHANGED <<op, block, buf, requests>>
          /\ wpc[w] = "done"
          /\ out' = IF op[w] = "get"
                    THEN [out EXCEPT ![w] = [block |-> block[w], values |-> buf[w]]] ELSE out
        BY <1>8, Zenon DEF Reply
    <2>2. \A v \in Workers : out'[v].block \in Blocks /\ Reported(out[v].block, out[v].values)'
        <3> SUFFICES ASSUME NEW v \in Workers
                     PROVE  out'[v].block \in Blocks /\ Reported(out[v].block, out[v].values)'
            OBVIOUS
        <3>1. CASE out'[v] = out[v]
            BY <2>1, <3>1 DEF Tmp, Reported, Known, ValidRange
        <3>2. CASE out'[v] # out[v]
            <4>1. v = w /\ op[w] = "get" /\ out'[v] = [block |-> block[w], values |-> buf[w]]
                BY <2>1, <3>2 DEF Tmp
            <4>2. block[w] \in Blocks /\ Reported(block[w], buf[w])
                BY <2>1, <4>1 DEF Tmp, WorkTypes
            <4> QED
                BY <2>1, <4>1, <4>2 DEF Reported, Known, ValidRange
        <3> QED
            BY <3>1, <3>2
    <2>3. DOMAIN buf' = Workers /\ DOMAIN out' = Workers
        BY <2>1 DEF Tmp
    <2>4. \A v \in Workers : op'[v] = "get" =>
              /\ wpc'[v] = "block" => DOMAIN buf'[v] = {}
              /\ wpc'[v] = "copy" => ValidRange(block'[v]) /\ Known(buf[v])'
              /\ wpc'[v] = "done" => Reported(block[v], buf[v])'
        BY <2>1 DEF Tmp, WorkTypes, Known, ValidRange, Reported
    <2> QED
        BY <2>2, <2>3, <2>4 DEF Tmp
<1>9. ASSUME UNCHANGED <<wpc, op, block, buf, out, requests>> PROVE Tmp'
    BY <1>9 DEF Tmp, Known, ValidRange, Reported
<1>10. ASSUME NEW x \in 0..Size - 1, ScanSets(x) PROVE Tmp'
    BY <1>9, <1>10, Zenon DEF ScanSets
<1>11. CASE UNCHANGED work
    BY <1>9, <1>11, Zenon DEF work
<1> QED
    BY <1>2, <1>3, <1>4, <1>5, <1>6, <1>7, <1>8, <1>10, <1>11, NextParts, MainKeepsWork, Zenon
    DEF Work, vars

\* A GET reports uninitialised words exactly when its block reaches beyond the map.
THEOREM JunkIsBeyond == Spec => []JunkOnlyBeyond
<1> DEFINE I == WorkTypes /\ Numbers /\ Tmp
<1>1. Init => I
    BY InitTypes, InitTmp
<1>2. I /\ [Next]_vars => I'
    BY StepWorkTypes, NumbersStay, TmpStays
<1>3. I => JunkOnlyBeyond
    <2> SUFFICES ASSUME I, NEW w \in Workers, NEW x \in DOMAIN out[w].values
                 PROVE  out[w].values[x] = Junk <=> out[w].block.start + out[w].block.count > Size
        BY DEF JunkOnlyBeyond
    <2> DEFINE b == out[w].block
    <2>1. b.start \in Nat /\ b.count \in Nat
        BY DEF Tmp, Blocks
    <2>2. CASE ValidRange(b)
        <3>1. out[w].values[x] \in 0..requests
            BY <2>2 DEF Tmp, Reported, Known
        <3>2. requests \in Nat
            BY RequestsAssumption DEF WorkTypes
        <3> QED
            BY <2>1, <2>2, <3>1, <3>2, RequestsAssumption DEF ValidRange
    <2>3. CASE ~ValidRange(b)
        <3>1. out[w].values[x] = Junk /\ b.count # 0
            BY <2>3 DEF Tmp, Reported
        <3> QED
            BY <2>1, <2>3, <3>1, RequestsAssumption DEF ValidRange
    <2> QED
        BY <2>2, <2>3
<1> QED
    BY <1>1, <1>2, <1>3, PTL DEF Spec

-----------------------------------------------------------------------------
(* A block is of one instant.                                               *)

All  == 0..Size - 1
Held == map["holding"]

Holding(w) == block[w].table = "holding"
Writing(w) == op[w] = "post" /\ wpc[w] = "copy" /\ Holding(w)
Written(w) == Words(block[w]) \ left[w]

\* A POST stands in the map exactly where it has written; the other words agree.
Posts ==
    /\ \A w \in Workers : op[w] = "post" /\ wpc[w] \in {"block", "copy"} /\ Holding(w) =>
          /\ block[w].start = 0 /\ sizes[id[w]] = block[w].count
          /\ wpc[w] = "block" => \A x \in All : Held[x] # id[w]
    /\ \A w \in Workers : Writing(w) =>
          /\ ValidRange(block[w]) /\ \A x \in All : Held[x] = id[w] <=> x \in Written(w)
          /\ Agree(Held, All \ Written(w)) /\ left[w] \subseteq Words(block[w])
    /\ (\A w \in Workers : ~Writing(w)) => Agree(Held, All)

\* What a GET has copied is what the map holds, as long as it has the mutex.
Gets ==
    \A w \in Workers : op[w] = "get" /\ Holding(w) =>
        /\ wpc[w] = "copy" => /\ DOMAIN buf[w] \subseteq All
                              /\ \A x \in DOMAIN buf[w] : buf[w][x] = Held[x]
        /\ wpc[w] = "done" /\ ValidRange(block[w]) => Agree(buf[w], DOMAIN buf[w])

\* Agree, with the history sizes as a parameter.
AgreeBy(s, v, D) ==
    \A x, y \in D :
        v[x] # v[y] /\ v[x] \in 1..MaxRequests /\ y < s[v[x]]
            => v[y] \in 1..MaxRequests /\ x >= s[v[y]]

\* Sizes of later POSTs do not matter to words of earlier ones.
LEMMA LaterSizes ==
    ASSUME NEW s, NEW t, NEW n \in Nat, \A i \in 1..n : s[i] = t[i], NEW v, NEW D,
           \A x \in D : v[x] \in 0..n, AgreeBy(s, v, D)
    PROVE  AgreeBy(t, v, D)
<1> SUFFICES ASSUME NEW x \in D, NEW y \in D, v[x] # v[y], v[x] \in 1..MaxRequests, y < t[v[x]]
             PROVE  v[y] \in 1..MaxRequests /\ x >= t[v[y]]
    BY DEF AgreeBy
<1>1. s[v[x]] = t[v[x]]
    <2>1. v[x] \in 1..n
        OBVIOUS
    <2> QED
        BY <2>1
<1>2. v[y] \in 1..MaxRequests /\ x >= s[v[y]]
    BY <1>1 DEF AgreeBy
<1>3. v[y] \in 1..n
    BY <1>2
<1> QED
    BY <1>2, <1>3

LEMMA SizesStay ==
    WorkTypes /\ [Next]_vars => \A i \in 1..requests : sizes[i] = sizes'[i]
<1> SUFFICES ASSUME WorkTypes, [Next]_vars PROVE \A i \in 1..requests : sizes[i] = sizes'[i]
    OBVIOUS
<1>1. ASSUME NEW w \in Workers, NEW q \in Requests, Take(w, q)
      PROVE  \A i \in 1..requests : sizes[i] = sizes'[i]
    <2>1. /\ requests' = requests + 1 /\ requests < MaxRequests
          /\ \/ UNCHANGED sizes
             \/ sizes' = [sizes EXCEPT ![requests'] = Array("holding", q.holding).count]
        BY <1>1, Zenon DEF Take
    <2> QED
        BY <2>1, RequestsAssumption DEF WorkTypes
<1>2. ASSUME NEW w \in Workers, Work(w) PROVE UNCHANGED sizes
    BY <1>2, Zenon DEF Work, Skip, Lock, Copy, Unlock, GoOn, Reply
<1>3. ASSUME NEW x \in 0..Size - 1, ScanSets(x) PROVE UNCHANGED sizes
    BY <1>3, Zenon DEF ScanSets
<1>4. ASSUME UNCHANGED work PROVE UNCHANGED sizes
    BY <1>4, Zenon DEF work
<1> QED
    BY <1>1, <1>2, <1>3, <1>4, NextParts, MainKeepsWork, Zenon DEF vars, work

\* Words that agree still do when a request is taken.
LEMMA AgreeStays ==
    ASSUME WorkTypes, [Next]_vars, NEW v, NEW D, \A x \in D : v[x] \in 0..requests,
           AgreeBy(sizes, v, D)
    PROVE  AgreeBy(sizes', v, D)
<1>1. requests \in Nat
    BY RequestsAssumption DEF WorkTypes
<1> QED
    BY <1>1, SizesStay, LaterSizes

\* The map is of one instant when nobody writes to it: at a step of Lock, and at the end of
\* a block.
LEMMA MapAtLock ==
    ASSUME WorkTypes, Locked, Posts, mutex \notin Workers
    PROVE  Agree(Held, All) /\ \A w \in Workers : ~Writing(w)
BY DEF Locked, Posts, Writing

LEMMA MapAtUnlock ==
    ASSUME WorkTypes, Locked, Numbers, Posts, NEW w \in Workers, Unlock(w)
    PROVE  Agree(Held, All)
<1>1. wpc[w] = "copy" /\ left[w] = {} /\ mutex = w
    BY DEF Unlock, Locked
<1>2. CASE ~Writing(w)
    <2>1. \A v \in Workers : ~Writing(v)
        BY <1>1, <1>2 DEF Writing, Locked
    <2> QED
        BY <2>1 DEF Posts
<1>3. CASE Writing(w)
    <2> DEFINE n == block[w].count
               D == All \ Written(w)
    <2>1. /\ block[w].start = 0 /\ sizes[id[w]] = n /\ ValidRange(block[w])
          /\ \A x \in All : Held[x] = id[w] <=> x \in Written(w)
          /\ Agree(Held, D)
        BY <1>3, Zenon DEF Posts, Writing
    <2>2. n \in Nat /\ Size \in Nat /\ id[w] \in 0..MaxRequests /\ id[w] # 0
        BY <1>3, RequestsAssumption DEF WorkTypes, Blocks, Numbers, Writing
    <2>3. id[w] \in 1..MaxRequests
        BY <2>2, RequestsAssumption
    <2>4. \A x \in All : x \in Written(w) <=> x < n
        BY <1>1, <2>1, <2>2 DEF Written, Words, All
    <2>5. ASSUME NEW x \in All, NEW y \in All, Held[x] # Held[y], Held[x] \in 1..MaxRequests,
                 y < sizes[Held[x]]
          PROVE  Held[y] \in 1..MaxRequests /\ x >= sizes[Held[y]]
        <3>1. CASE x < n
            BY <2>1, <2>4, <2>5, <3>1
        <3>2. CASE ~(x < n) /\ y < n
            <4>1. x >= n
                BY <2>2, <3>2 DEF All
            <4> QED
                BY <2>1, <2>3, <2>4, <3>2, <4>1
        <3>3. CASE ~(x < n) /\ ~(y < n)
            <4>1. x \in D /\ y \in D
                BY <2>4, <3>3
            <4> QED
                BY <2>1, <2>5, <4>1 DEF Agree
        <3> QED
            BY <3>1, <3>2, <3>3
    <2> QED
        BY <2>5 DEF Agree
<1> QED
    BY <1>2, <1>3

\* A step that leaves the holding registers alone keeps Posts if the workers but w keep what
\* they are at, and w does not write them before or after it.
LEMMA PostsKeep ==
    ASSUME WorkTypes, Numbers, Posts, [Next]_vars, Held' = Held, NEW w \in Workers,
           \A v \in Workers \ {w} : /\ op'[v] = op[v] /\ wpc'[v] = wpc[v] /\ id'[v] = id[v]
                                    /\ block'[v] = block[v] /\ left'[v] = left[v],
           ~Writing(w), ~Writing(w)',
           (op[w] = "post" /\ wpc[w] = "block" /\ Holding(w))' =>
               /\ (block[w].start = 0 /\ sizes[id[w]] = block[w].count)'
               /\ \A x \in All : Held[x] # id'[w]
    PROVE  Posts'
<1>1. \A x \in All : Held[x] \in 0..requests
    BY DEF Numbers, Held, All, Tables
<1>2. ASSUME NEW D \in SUBSET All, Agree(Held, D) PROVE AgreeBy(sizes', Held', D)
    BY <1>1, <1>2, AgreeStays DEF Agree, AgreeBy
<1>3. \A v \in Workers \ {w} : /\ Holding(v)' <=> Holding(v)
                               /\ Writing(v)' <=> Writing(v)
                               /\ Written(v)' = Written(v)
    BY DEF Writing, Holding, Written, Words
<1>4. ASSUME NEW v \in Workers, (op[v] = "post" /\ wpc[v] \in {"block", "copy"} /\ Holding(v))'
      PROVE  /\ block'[v].start = 0 /\ sizes'[id'[v]] = block'[v].count
             /\ wpc'[v] = "block" => \A x \in All : Held'[x] # id'[v]
    <2>1. CASE v = w
        BY <1>4, <2>1 DEF Writing
    <2>2. CASE v # w
        <3>1. /\ op[v] = "post" /\ wpc[v] \in {"block", "copy"} /\ Holding(v)
              /\ id'[v] = id[v] /\ wpc'[v] = wpc[v] /\ block'[v] = block[v]
            BY <1>3, <1>4, <2>2
        <3>2. id[v] \in 1..requests
            <4>1. id[v] \in 0..requests /\ id[v] # 0
                BY <3>1 DEF Numbers
            <4> QED
                BY <4>1, RequestsAssumption DEF WorkTypes
        <3> QED
            BY <3>1, <3>2, SizesStay DEF Posts
    <2> QED
        BY <2>1, <2>2
<1>5. ASSUME NEW v \in Workers, Writing(v)'
      PROVE  /\ ValidRange(block[v])' /\ \A x \in All : Held'[x] = id'[v] <=> x \in Written(v)'
             /\ Agree(Held, All \ Written(v))' /\ left'[v] \subseteq Words(block[v])'
    <2>1. v # w /\ Writing(v)
        BY <1>3, <1>5
    <2>2. /\ ValidRange(block[v]) /\ \A x \in All : Held[x] = id[v] <=> x \in Written(v)
          /\ Agree(Held, All \ Written(v)) /\ left[v] \subseteq Words(block[v])
        BY <2>1 DEF Posts
    <2>3. AgreeBy(sizes', Held', All \ Written(v))
        BY <1>2, <2>2
    <2>4. Written(v)' = Written(v) /\ id'[v] = id[v] /\ block'[v] = block[v]
        BY <1>3, <2>1
    <2> QED
        BY <2>1, <2>2, <2>3, <2>4 DEF Agree, AgreeBy, ValidRange, All, Words
<1>6. (\A v \in Workers : ~Writing(v)') => Agree(Held, All)'
    <2> SUFFICES ASSUME \A v \in Workers : ~Writing(v)' PROVE Agree(Held, All)'
        OBVIOUS
    <2>1. \A v \in Workers : ~Writing(v)
        BY <1>3
    <2>2. AgreeBy(sizes', Held', All)
        BY <1>2, <2>1 DEF Posts
    <2> QED
        BY <2>2 DEF Agree, AgreeBy, All
<1> QED
    BY <1>4, <1>5, <1>6 DEF Posts, All

LEMMA PostsStay == WorkTypes /\ Locked /\ Numbers /\ Posts /\ [Next]_vars => Posts'
<1> SUFFICES ASSUME WorkTypes, Locked, Numbers, Posts, [Next]_vars PROVE Posts'
    OBVIOUS
<1>1. ASSUME NEW w \in Workers, NEW q \in Requests, Take(w, q) PROVE Posts'
    <2>1. /\ requests' = requests + 1 /\ requests < MaxRequests /\ wpc[w] = "idle"
          /\ wpc' = [wpc EXCEPT ![w] = "block"] /\ op' = [op EXCEPT ![w] = q.op]
          /\ UNCHANGED <<map, left>>
        BY <1>1, Zenon DEF Take
    <2>2. Held' = Held
        BY <2>1 DEF Held
    <2>3. \A v \in Workers \ {w} : /\ op'[v] = op[v] /\ wpc'[v] = wpc[v] /\ id'[v] = id[v]
                                    /\ block'[v] = block[v] /\ left'[v] = left[v]
        BY <1>1 DEF Take, WorkTypes
    <2>4. ~Writing(w) /\ ~Writing(w)'
        BY <2>1 DEF Writing, WorkTypes
    <2>5. ASSUME op'[w] = "post"
          PROVE  /\ block'[w].start = 0 /\ sizes'[id'[w]] = block'[w].count
                 /\ \A x \in All : Held[x] # id'[w]
        <3>1. q.op # "get"
            BY <2>1, <2>5 DEF WorkTypes
        <3> DEFINE b == Array("holding", q.holding)
        <3>2. /\ block' = [block EXCEPT ![w] = b] /\ id' = [id EXCEPT ![w] = requests']
              /\ sizes' = [sizes EXCEPT ![requests'] = b.count]
            BY <1>1, <3>1, Zenon DEF Take
        <3>3. requests \in Nat /\ requests' \in 1..MaxRequests
            BY <2>1, RequestsAssumption DEF WorkTypes
        <3>4. b.start = 0
            BY DEF Array
        <3>5. block'[w] = b /\ id'[w] = requests' /\ sizes'[requests'] = b.count
            BY <3>2, <3>3 DEF WorkTypes
        <3>6. \A x \in All : Held[x] \in 0..requests
            BY DEF Numbers, Held, All, Tables
        <3> QED
            BY <2>1, <3>3, <3>4, <3>5, <3>6
    <2> QED
        BY <2>2, <2>3, <2>4, <2>5, PostsKeep
<1>2. ASSUME NEW w \in Workers, Skip(w) PROVE Posts'
    <2>1. /\ wpc[w] = "block" /\ wpc' = [wpc EXCEPT ![w] = "done"]
          /\ UNCHANGED <<map, op, id, block, left>>
        BY <1>2, Zenon DEF Skip
    <2> QED
        BY <2>1, PostsKeep DEF Held, Writing, WorkTypes
<1>3. ASSUME NEW w \in Workers, Lock(w) PROVE Posts'
    <2>1. /\ wpc[w] = "block" /\ wpc' = [wpc EXCEPT ![w] = "copy"] /\ mutex = Free
          /\ left' = [left EXCEPT ![w] = Words(block[w])] /\ ValidRange(block[w])
          /\ UNCHANGED <<map, op, id, block, sizes, requests>>
        BY <1>3, Zenon DEF Lock
    <2>2. Agree(Held, All) /\ \A v \in Workers : ~Writing(v)
        BY <2>1, MapAtLock, RequestsAssumption
    <2>3. ~Writing(w)' \/ Writing(w)'
        OBVIOUS
    <2>4. \A v \in Workers : Writing(v)' => v = w
        BY <2>1, <2>2 DEF Writing, Holding, WorkTypes
    <2>5. Written(w)' = {}
        BY <2>1 DEF Written, Words, WorkTypes
    <2>6. \A v \in Workers : wpc'[v] \in {"block", "copy"} => wpc[v] \in {"block", "copy"}
        BY <2>1 DEF WorkTypes
    <2>7. \A v \in Workers : wpc'[v] = "block" => wpc[v] = "block"
        BY <2>1 DEF WorkTypes
    <2>8. Held' = Held /\ All' = All /\ Agree(Held, All)'
        BY <2>1, <2>2 DEF Held, All, Agree
    <2>9. \A v \in Workers : Holding(v)' <=> Holding(v)
        BY <2>1 DEF Holding
    <2>10. \A v \in Workers : (op[v] = "post" /\ wpc[v] \in {"block", "copy"} /\ Holding(v))' =>
              /\ block'[v].start = 0 /\ sizes'[id'[v]] = block'[v].count
              /\ wpc'[v] = "block" => \A x \in All : Held'[x] # id'[v]
        BY <2>1, <2>6, <2>7, <2>8, <2>9 DEF Posts
    <2>11. ASSUME Writing(w)'
           PROVE  /\ ValidRange(block[w])' /\ \A x \in All : Held'[x] = id'[w] <=> x \in Written(w)'
                  /\ Agree(Held, All \ Written(w))' /\ left'[w] \subseteq Words(block[w])'
        <3>1. \A x \in All : Held[x] # id[w]
            BY <2>1, <2>9, <2>11 DEF Posts, Writing
        <3>2. ValidRange(block[w])'
            BY <2>1 DEF ValidRange
        <3>3. Agree(Held, All \ Written(w))'
            BY <2>5, <2>8
        <3>4. left'[w] = Words(block[w])'
            BY <2>1 DEF WorkTypes, Words
        <3> QED
            BY <2>1, <2>5, <2>8, <3>1, <3>2, <3>3, <3>4
    <2> QED
        BY <2>4, <2>8, <2>10, <2>11 DEF Posts
<1>4. ASSUME NEW w \in Workers, NEW x \in 0..Size - 1, Copy(w, x) PROVE Posts'
    <2>1. /\ wpc[w] = "copy" /\ x \in left[w] /\ left' = [left EXCEPT ![w] = @ \ {x}]
          /\ UNCHANGED <<wpc, op, id, block, sizes, requests>>
        BY <1>4, Zenon DEF Copy
    <2>2. CASE ~Writing(w)
        <3>1. Held' = Held
            <4>1. CASE op[w] = "get"
                BY <1>4, <4>1 DEF Copy, Held
            <4>2. CASE op[w] # "get"
                <5>1. block[w].table # "holding" /\ map' = [map EXCEPT ![block[w].table][x] = id[w]]
                    BY <1>4, <2>1, <2>2, <4>2 DEF Copy, Writing, Holding, WorkTypes
                <5> QED
                    BY <5>1 DEF Held, WorkTypes, Tables
            <4> QED
                BY <4>1, <4>2
        <3>2. ~Writing(w)'
            BY <2>1, <2>2 DEF Writing, Holding
        <3> QED
            BY <2>1, <2>2, <3>1, <3>2, PostsKeep DEF WorkTypes
    <2>3. CASE Writing(w)
        <3>1. map' = [map EXCEPT !["holding"][x] = id[w]]
            BY <1>4, <2>3 DEF Copy, Writing, Holding
        <3>2. \A y \in All : Held'[y] = IF y = x THEN id[w] ELSE Held[y]
            BY <3>1 DEF Held, All, WorkTypes, Tables
        <3>3. \A v \in Workers : (Writing(v)' <=> Writing(v)) /\ (Holding(v)' <=> Holding(v))
            BY <2>1 DEF Writing, Holding
        <3>4. \A v \in Workers : Writing(v) => v = w
            BY <2>1 DEF Locked, Writing
        <3>5. id[w] # 0 /\ \A v \in Workers : v # w => id[v] # id[w]
            BY <2>3 DEF Numbers, Writing
        <3>6. ASSUME NEW v \in Workers, (op[v] = "post" /\ wpc[v] \in {"block", "copy"} /\ Holding(v))'
              PROVE  /\ block'[v].start = 0 /\ sizes'[id'[v]] = block'[v].count
                     /\ wpc'[v] = "block" => \A y \in All : Held'[y] # id'[v]
            <4>1. /\ block[v].start = 0 /\ sizes[id[v]] = block[v].count
                  /\ wpc[v] = "block" => \A y \in All : Held[y] # id[v]
                BY <2>1, <3>3, <3>6 DEF Posts
            <4>2. wpc[v] = "block" => v # w
                BY <2>1
            <4> QED
                BY <2>1, <3>2, <3>5, <4>1, <4>2
        <3>7. /\ ValidRange(block[w]) /\ \A y \in All : Held[y] = id[w] <=> y \in Written(w)
              /\ Agree(Held, All \ Written(w)) /\ left[w] \subseteq Words(block[w])
            BY <2>3 DEF Posts, Writing
        <3>8. Written(w)' = Written(w) \cup {x}
            BY <2>1, <3>7 DEF Written, Words, WorkTypes
        <3>9. \A y \in All : Held'[y] = id'[w] <=> y \in Written(w)'
            BY <2>1, <3>2, <3>7, <3>8
        <3>10. Agree(Held, All \ Written(w))'
            BY <2>1, <3>2, <3>7, <3>8 DEF Agree, All
        <3>11. ValidRange(block[w])'
            BY <2>1, <3>7 DEF ValidRange
        <3>12. left'[w] \subseteq Words(block[w])'
            BY <2>1, <3>7 DEF Words, WorkTypes
        <3> QED
            BY <2>3, <3>3, <3>4, <3>6, <3>9, <3>10, <3>11, <3>12 DEF Posts, All
    <2> QED
        BY <2>2, <2>3
<1>5. ASSUME NEW w \in Workers, Unlock(w) PROVE Posts'
    <2>1. /\ wpc[w] = "copy" /\ wpc' = [wpc EXCEPT ![w] = "done"]
          /\ UNCHANGED <<map, op, id, block, left, sizes, requests>>
        BY <1>5, Zenon DEF Unlock
    <2>2. Agree(Held, All)
        BY <1>5, MapAtUnlock
    <2>3. \A v \in Workers : ~Writing(v)'
        BY <2>1 DEF Writing, Locked, WorkTypes
    <2>4. \A v \in Workers : wpc'[v] \in {"block", "copy"} => wpc'[v] = wpc[v]
        BY <2>1 DEF WorkTypes
    <2>5. Agree(Held, All)'
        BY <2>1, <2>2 DEF Agree, Held, All
    <2>6. \A v \in Workers : (op[v] = "post" /\ wpc[v] \in {"block", "copy"} /\ Holding(v))' =>
              /\ block'[v].start = 0 /\ sizes'[id'[v]] = block'[v].count
              /\ wpc'[v] = "block" => \A x \in All : Held'[x] # id'[v]
        BY <2>1, <2>4 DEF Posts, Held, Holding
    <2> QED
        BY <2>3, <2>5, <2>6 DEF Posts, All
<1>6. ASSUME NEW w \in Workers, GoOn(w) PROVE Posts'
    <2>1. /\ wpc[w] = "done" /\ wpc' = [wpc EXCEPT ![w] = "block"]
          /\ block' = [block EXCEPT ![w] = Array("coil", coils[w])]
          /\ UNCHANGED <<map, op, id, left>>
        BY <1>6, Zenon DEF GoOn
    <2>2. ~Writing(w) /\ ~Writing(w)' /\ ~Holding(w)'
        BY <2>1 DEF Writing, Holding, Array, WorkTypes
    <2> QED
        BY <2>1, <2>2, PostsKeep DEF Held, WorkTypes
<1>7. ASSUME NEW w \in Workers, Reply(w) PROVE Posts'
    <2>1. /\ wpc[w] = "done" /\ wpc' = [wpc EXCEPT ![w] = "idle"]
          /\ UNCHANGED <<map, op, id, block, left>>
        BY <1>7, Zenon DEF Reply
    <2> QED
        BY <2>1, PostsKeep DEF Held, Writing, WorkTypes
<1>8. ASSUME UNCHANGED <<wpc, op, id, block, left, sizes>>, Held' = Held PROVE Posts'
    BY <1>8 DEF Posts, Writing, Written, Words, Holding, Agree, All, ValidRange
<1>9. ASSUME NEW x \in 0..Size - 1, ScanSets(x) PROVE Posts'
    <2>1. Held' = Held
        BY <1>9 DEF ScanSets, Held, WorkTypes, Tables
    <2> QED
        BY <1>8, <1>9, <2>1, Zenon DEF ScanSets
<1>10. CASE UNCHANGED work
    BY <1>8, <1>10, Zenon DEF work, Held
<1> QED
    BY <1>1, <1>2, <1>3, <1>4, <1>5, <1>6, <1>7, <1>9, <1>10, NextParts, MainKeepsWork, Zenon
    DEF Work, vars

LEMMA GetsStay ==
    WorkTypes /\ Locked /\ Numbers /\ Tmp /\ Posts /\ Gets /\ [Next]_vars => Gets'
<1> SUFFICES ASSUME WorkTypes, Locked, Numbers, Tmp, Posts, Gets, [Next]_vars PROVE Gets'
    OBVIOUS
<1> DEFINE Same(v) == /\ op'[v] = op[v] /\ wpc'[v] = wpc[v] /\ block'[v] = block[v]
                      /\ buf'[v] = buf[v]
           Copying(v) == /\ DOMAIN buf[v] \subseteq All
                         /\ \A x \in DOMAIN buf[v] : buf[v][x] = Held[x]
\* The workers but w stay, and those of them that copy find the map as it was.
<1>1. ASSUME NEW w \in Workers, \A v \in Workers \ {w} : Same(v),
             Held' = Held \/ \A v \in Workers \ {w} : wpc[v] # "copy",
             (op[w] = "get" /\ Holding(w))' =>
                 /\ wpc'[w] = "copy" => Copying(w)'
                 /\ wpc'[w] = "done" /\ ValidRange(block[w])' => Agree(buf[w], DOMAIN buf[w])'
      PROVE  Gets'
    <2> SUFFICES ASSUME NEW v \in Workers, v # w, (op[v] = "get" /\ Holding(v))'
                 PROVE  /\ wpc'[v] = "copy" => Copying(v)'
                        /\ wpc'[v] = "done" /\ ValidRange(block[v])'
                              => Agree(buf[v], DOMAIN buf[v])'
        BY <1>1 DEF Gets
    <2>1. Same(v) /\ op[v] = "get" /\ Holding(v)
        BY <1>1 DEF Holding
    <2>2. ASSUME wpc'[v] = "copy" PROVE Copying(v)'
        BY <1>1, <2>1, <2>2 DEF Gets, All
    <2>3. ASSUME wpc'[v] = "done", ValidRange(block[v])' PROVE Agree(buf[v], DOMAIN buf[v])'
        <3>1. wpc[v] = "done" /\ ValidRange(block[v])
            BY <2>1, <2>3 DEF ValidRange
        <3>2. AgreeBy(sizes, buf[v], DOMAIN buf[v])
            BY <2>1, <3>1 DEF Gets, Agree, AgreeBy
        <3>3. \A x \in DOMAIN buf[v] : buf[v][x] \in 0..requests
            BY <2>1, <3>1 DEF Tmp, Reported, Known
        <3>4. AgreeBy(sizes', buf[v], DOMAIN buf[v])
            BY <3>2, <3>3, AgreeStays
        <3> QED
            BY <2>1, <3>4 DEF Agree, AgreeBy
    <2> QED
        BY <2>2, <2>3
<1>2. ASSUME NEW w \in Workers, NEW q \in Requests, Take(w, q) PROVE Gets'
    <2>1. wpc' = [wpc EXCEPT ![w] = "block"] /\ UNCHANGED map
        BY <1>2, Zenon DEF Take
    <2>2. \A v \in Workers \ {w} : Same(v)
        BY <1>2 DEF Take, WorkTypes, Tmp
    <2> QED
        BY <1>1, <2>1, <2>2 DEF Held, WorkTypes
<1>3. ASSUME NEW w \in Workers, Skip(w) PROVE Gets'
    <2>1. /\ wpc' = [wpc EXCEPT ![w] = "done"] /\ ~ValidRange(block[w])
          /\ UNCHANGED <<map, op, block>>
        BY <1>3, Zenon DEF Skip
    <2>2. \A v \in Workers \ {w} : Same(v)
        BY <1>3, <2>1 DEF Skip, WorkTypes, Tmp
    <2>3. ~ValidRange(block[w])'
        BY <2>1 DEF ValidRange
    <2> QED
        BY <1>1, <2>1, <2>2, <2>3 DEF Held, WorkTypes
<1>4. ASSUME NEW w \in Workers, Lock(w) PROVE Gets'
    <2>1. /\ wpc[w] = "block" /\ wpc' = [wpc EXCEPT ![w] = "copy"]
          /\ UNCHANGED <<map, op, block, buf>>
        BY <1>4, Zenon DEF Lock
    <2>2. \A v \in Workers \ {w} : Same(v)
        BY <2>1 DEF WorkTypes
    <2>3. op[w] = "get" => DOMAIN buf[w] = {}
        BY <2>1 DEF Tmp
    <2> QED
        BY <1>1, <2>1, <2>2, <2>3 DEF Held, WorkTypes
<1>5. ASSUME NEW w \in Workers, NEW x \in 0..Size - 1, Copy(w, x) PROVE Gets'
    <2>1. wpc[w] = "copy" /\ UNCHANGED <<wpc, op, block, sizes>>
        BY <1>5, Zenon DEF Copy
    <2>2. \A v \in Workers \ {w} : wpc[v] # "copy"
        BY <2>1 DEF Locked
    <2>3. CASE op[w] = "get"
        <3>1. /\ buf' = [buf EXCEPT ![w] = [y \in DOMAIN @ \cup {x} |->
                             IF y = x THEN map[block[w].table][x] ELSE @[y]]]
              /\ map' = map
            BY <1>5, <2>3, Zenon DEF Copy
        <3>2. \A v \in Workers \ {w} : Same(v)
            BY <2>1, <3>1 DEF Tmp
        <3>3. buf'[w] = [y \in DOMAIN buf[w] \cup {x} |->
                             IF y = x THEN map[block[w].table][x] ELSE buf[w][y]]
            BY <3>1 DEF Tmp
        <3>4. Holding(w) => Copying(w)'
            BY <2>1, <2>3, <3>1, <3>3 DEF Gets, Holding, Held, All
        <3> QED
            BY <1>1, <2>1, <2>2, <3>2, <3>4 DEF Holding
    <2>4. CASE op[w] # "get"
        <3>1. buf' = buf
            BY <1>5, <2>4, Zenon DEF Copy
        <3> QED
            BY <1>1, <2>1, <2>2, <2>4, <3>1
    <2> QED
        BY <2>3, <2>4
<1>6. ASSUME NEW w \in Workers, Unlock(w) PROVE Gets'
    <2>1. /\ wpc[w] = "copy" /\ wpc' = [wpc EXCEPT ![w] = "done"]
          /\ UNCHANGED <<map, op, block, buf, sizes>>
        BY <1>6, Zenon DEF Unlock
    <2>2. \A v \in Workers \ {w} : Same(v)
        BY <2>1 DEF WorkTypes
    <2>3. ASSUME (op[w] = "get" /\ Holding(w))' PROVE Agree(buf[w], DOMAIN buf[w])'
        <3>1. Copying(w)
            BY <2>1, <2>3 DEF Gets, Holding
        <3>2. Agree(Held, All)
            BY <1>6, MapAtUnlock
        <3>3. Agree(buf[w], DOMAIN buf[w])
            BY <3>1, <3>2 DEF Agree
        <3> QED
            BY <2>1, <3>3 DEF Agree
    <2> QED
        BY <1>1, <2>1, <2>2, <2>3 DEF Held, WorkTypes
<1>7. ASSUME NEW w \in Workers, GoOn(w) \/ Reply(w) PROVE Gets'
    <2>1. /\ wpc'[w] \in {"block", "idle"} /\ map' = map
          /\ \A v \in Workers \ {w} : Same(v)
        BY <1>7 DEF GoOn, Reply, WorkTypes
    <2> QED
        BY <1>1, <2>1 DEF Held
<1>8. ASSUME UNCHANGED <<wpc, op, block, buf, sizes>>, Held' = Held PROVE Gets'
    BY <1>8 DEF Gets, Holding, Agree, All, ValidRange
<1>9. ASSUME NEW x \in 0..Size - 1, ScanSets(x) PROVE Gets'
    <2>1. Held' = Held
        BY <1>9 DEF ScanSets, Held, WorkTypes, Tables
    <2> QED
        BY <1>8, <1>9, <2>1, Zenon DEF ScanSets
<1>10. CASE UNCHANGED work
    BY <1>8, <1>10, Zenon DEF work, Held
<1> QED
    BY <1>2, <1>3, <1>4, <1>5, <1>6, <1>7, <1>9, <1>10, NextParts, MainKeepsWork, Zenon
    DEF Work, vars

LEMMA SnapshotStays ==
    WorkTypes /\ Tmp /\ Gets /\ BlockIsSnapshot /\ [Next]_vars => BlockIsSnapshot'
<1> SUFFICES ASSUME WorkTypes, Tmp, Gets, BlockIsSnapshot, [Next]_vars,
                    NEW v \in Workers, (out[v].block.table = "holding" /\ ValidRange(out[v].block))'
             PROVE  Agree(out[v].values, DOMAIN out[v].values)'
    BY DEF BlockIsSnapshot
<1>1. CASE out'[v] = out[v]
    <2>1. out[v].block.table = "holding" /\ ValidRange(out[v].block)
        BY <1>1 DEF ValidRange
    <2>2. AgreeBy(sizes, out[v].values, DOMAIN out[v].values)
        BY <2>1 DEF BlockIsSnapshot, Agree, AgreeBy
    <2>3. \A x \in DOMAIN out[v].values : out[v].values[x] \in 0..requests
        BY <2>1 DEF Tmp, Reported, Known
    <2>4. AgreeBy(sizes', out[v].values, DOMAIN out[v].values)
        BY <2>2, <2>3, AgreeStays
    <2> QED
        BY <1>1, <2>4 DEF Agree, AgreeBy
<1>2. CASE out'[v] # out[v]
    <2>1. PICK w \in Workers : Reply(w)
        <3>1. \A w \in Workers, x \in 0..Size - 1 : Copy(w, x) => out' = out
            BY Zenon DEF Copy
        <3>2. \A w \in Workers, q \in Requests : Take(w, q) => out' = out
            BY Zenon DEF Take
        <3>3. \A w \in Workers : Skip(w) \/ Lock(w) \/ Unlock(w) \/ GoOn(w) => out' = out
            BY Zenon DEF Skip, Lock, Unlock, GoOn
        <3>4. \A x \in 0..Size - 1 : ScanSets(x) => out' = out
            BY Zenon DEF ScanSets
        <3>5. UNCHANGED work => out' = out
            BY Zenon DEF work
        <3> QED
            BY <1>2, <3>1, <3>2, <3>3, <3>4, <3>5, NextParts, MainKeepsWork, Zenon DEF Work, vars
    <2>2. /\ wpc[w] = "done" /\ UNCHANGED sizes
          /\ out' = IF op[w] = "get"
                    THEN [out EXCEPT ![w] = [block |-> block[w], values |-> buf[w]]] ELSE out
        BY <2>1, Zenon DEF Reply
    <2>3. v = w /\ op[w] = "get" /\ out'[v] = [block |-> block[w], values |-> buf[w]]
        BY <1>2, <2>2 DEF Tmp
    <2>4. Holding(w) /\ ValidRange(block[w])
        BY <2>3 DEF Holding, ValidRange
    <2>5. Agree(buf[w], DOMAIN buf[w])
        BY <2>2, <2>3, <2>4 DEF Gets
    <2> QED
        BY <2>2, <2>3, <2>5 DEF Agree
<1> QED
    BY <1>1, <1>2

\* GET /api/registers reports holding registers of one instant: what a POST of several
\* registers stored is never seen in part.
THEOREM BlocksAreSnapshots == Spec => []BlockIsSnapshot
<1> DEFINE I == WorkTypes /\ Locked /\ Numbers /\ Tmp /\ Posts /\ Gets /\ BlockIsSnapshot
<1>1. Init => I
    <2> SUFFICES ASSUME Init PROVE I
        OBVIOUS
    <2>1. /\ map = [t \in Tables |-> [x \in 0..Size - 1 |-> 0]] /\ mutex = Free
          /\ wpc = [w \in Workers |-> "idle"]
          /\ out = [w \in Workers |-> [block |-> NoBlock, values |-> [x \in {} |-> 0]]]
        BY Zenon DEF Init
    <2>2. Locked
        BY <2>1, RequestsAssumption DEF Locked
    <2>3. \A x \in All : Held[x] = 0
        BY <2>1 DEF Held, All, Tables
    <2>4. Posts
        BY <2>1, <2>3 DEF Posts, Writing, Agree
    <2>5. Gets
        BY <2>1 DEF Gets
    <2>6. BlockIsSnapshot
        BY <2>1 DEF BlockIsSnapshot, ValidRange, NoBlock
    <2> QED
        BY <2>2, <2>4, <2>5, <2>6, InitTypes, InitTmp
<1>2. I /\ [Next]_vars => I'
    BY StepWorkTypes, LockedStays, NumbersStay, TmpStays, PostsStay, GetsStay, SnapshotStays
<1>3. I => BlockIsSnapshot
    OBVIOUS
<1> QED
    BY <1>1, <1>2, <1>3, PTL DEF Spec
=============================================================================
