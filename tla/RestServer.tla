----------------------------- MODULE RestServer -----------------------------
(***************************************************************************)
(* The firmware's HTTP workers at the register map while main starts,      *)
(* waits and is told to end: plc_main.c, the register handlers of          *)
(* rest_api.c and the block accessors of register_map.c, which copy word   *)
(* by word under one mutex.                                                *)
(*                                                                         *)
(* Data abstraction: a register holds the number of the POST that stored   *)
(* it, 0 for the scan thread and for the initial content.                  *)
(***************************************************************************)
EXTENDS Integers

CONSTANTS
    Workers,        \* the threads of civetweb
    Size,           \* REG_HOLDING_REGISTER_COUNT, REG_COIL_COUNT, length of tmp: all 512
    DefaultCount,   \* what a GET without a usable count gets (16)
    Requests,       \* what clients send: a GET of a block, a POST of two arrays
    MaxRequests, MaxSignals,    \* bounds
    Junk,           \* an uninitialised element of tmp
    Free            \* the owner of a mutex that is not held

Tables == {"holding", "coil"}
Blocks == [table: Tables, start: Nat, count: Nat]

ASSUME RequestsAssumption ==
    /\ Size \in Nat /\ DefaultCount \in 1..Size
    /\ MaxRequests \in Nat /\ MaxSignals \in Nat
    /\ Free \notin Workers /\ Junk \notin Nat
    /\ Requests \subseteq [op: {"get"}, block: Blocks] \cup [op: {"post"}, holding: Nat, coils: Nat]

VARIABLES
    map,        \* map[t]: the registers of table t
    mutex,      \* the thread that holds reg_mutex
    wpc,        \* wpc[w]: "idle", at a "block", in its "copy", or "done" with it
    op, block,  \* op[w], block[w]: what worker w does, and the block it is at
    coils,      \* coils[w]: how many coils follow the holding registers of a POST
    left, buf,  \* left[w]: words of the block not copied yet; buf[w]: tmp
    id,         \* id[w]: the number of its POST
    sizes,      \* history: sizes[i]: holding registers POST i writes
    out,        \* out[w]: the last block w reported, with its values
    requests,   \* requests taken so far
    mpc,        \* where main is
    hpc,        \* where the signal handler is, "none" if it does not run
    sig, signals, quit,     \* a signal is pending; signals sent; g_quit
    server, http,           \* civetweb's state; g_http # NULL
    alive, scan,            \* g_scan_alive; the scan thread
    early       \* history: a signal came before g_http was set

work  == <<map, mutex, wpc, op, block, coils, left, buf, id, sizes, out, requests>>
main  == <<mpc, hpc, sig, signals, quit, server, http, alive, scan, early>>
vars  == <<work, main>>

NoBlock == [table |-> "holding", start |-> 0, count |-> 0]

Init ==
    /\ map = [t \in Tables |-> [x \in 0..Size - 1 |-> 0]] /\ mutex = Free
    /\ wpc = [w \in Workers |-> "idle"] /\ op = [w \in Workers |-> "get"]
    /\ block = [w \in Workers |-> NoBlock] /\ coils = [w \in Workers |-> 0]
    /\ left = [w \in Workers |-> {}] /\ buf = [w \in Workers |-> [x \in {} |-> 0]]
    /\ id = [w \in Workers |-> 0] /\ sizes = [i \in 1..MaxRequests |-> 0]
    /\ out = [w \in Workers |-> [block |-> NoBlock, values |-> [x \in {} |-> 0]]]
    /\ requests = 0
    /\ mpc = "create" /\ hpc = "none" /\ sig = FALSE /\ signals = 0 /\ quit = FALSE
    /\ server = "none" /\ http = FALSE /\ alive = TRUE /\ scan = "none" /\ early = FALSE

-----------------------------------------------------------------------------
(* Workers.                                                                 *)

\* handle_registers_get: the block a GET is about, after the correction of its count.
Asked(b) == IF b.count = 0 \/ b.count > Size THEN [b EXCEPT !.count = DefaultCount] ELSE b

\* handle_registers_post: an array from register 0 on, cut at the length of tmp.
Array(t, n) == [table |-> t, start |-> 0, count |-> IF n > Size THEN Size ELSE n]

\* Words of a block.
Words(b) == b.start .. b.start + b.count - 1

\* Mutant of ValidRange: the last register is taken for the first that does not exist.
ValidRangeStrict(b) == b.count # 0 /\ b.start + b.count < Size

\* valid_range_u16.
ValidRange(b) == b.count # 0 /\ b.start + b.count <= Size

\* A worker takes a request while the server runs.
Take(w, q) ==
    /\ server = "up" /\ mpc # "exited" /\ wpc[w] = "idle" /\ requests < MaxRequests
    /\ requests' = requests + 1
    /\ wpc' = [wpc EXCEPT ![w] = "block"] /\ op' = [op EXCEPT ![w] = q.op]
    /\ IF q.op = "get"
       THEN /\ block' = [block EXCEPT ![w] = Asked(q.block)]
            /\ UNCHANGED <<coils, id, sizes>>
       ELSE /\ block' = [block EXCEPT ![w] = Array("holding", q.holding)]
            /\ coils' = [coils EXCEPT ![w] = q.coils]
            /\ id' = [id EXCEPT ![w] = requests']
            /\ sizes' = [sizes EXCEPT ![requests'] = Array("holding", q.holding).count]
    /\ buf' = [buf EXCEPT ![w] = [x \in {} |-> 0]]
    /\ UNCHANGED <<map, mutex, left, out, main>>

\* Mutant of Skip: the range is tested with the mutex held, and the early return keeps it.
SkipLocked(w) ==
    /\ mpc # "exited" /\ wpc[w] = "block" /\ ~ValidRange(block[w]) /\ mutex = Free
    /\ mutex' = w
    /\ wpc' = [wpc EXCEPT ![w] = "done"]
    /\ buf' = [buf EXCEPT ![w] = [x \in Words(block[w]) |-> Junk]]
    /\ UNCHANGED <<map, op, block, coils, left, id, sizes, out, requests, main>>

\* A block accessor returns at once if the range is not valid; what a GET then reports is
\* what happened to be in tmp.
Skip(w) ==
    /\ mpc # "exited" /\ wpc[w] = "block" /\ ~ValidRange(block[w])
    /\ wpc' = [wpc EXCEPT ![w] = "done"]
    /\ buf' = [buf EXCEPT ![w] = [x \in Words(block[w]) |-> Junk]]
    /\ UNCHANGED <<map, mutex, op, block, coils, left, id, sizes, out, requests, main>>

\* Mutant of Lock: the accessors do not lock.
LockNot(w) ==
    /\ mpc # "exited" /\ wpc[w] = "block" /\ ValidRange(block[w])
    /\ left' = [left EXCEPT ![w] = Words(block[w])]
    /\ wpc' = [wpc EXCEPT ![w] = "copy"]
    /\ UNCHANGED <<map, mutex, op, block, coils, buf, id, sizes, out, requests, main>>

\* A block accessor takes reg_mutex.
Lock(w) ==
    /\ mpc # "exited" /\ wpc[w] = "block" /\ ValidRange(block[w]) /\ mutex = Free
    /\ mutex' = w
    /\ left' = [left EXCEPT ![w] = Words(block[w])]
    /\ wpc' = [wpc EXCEPT ![w] = "copy"]
    /\ UNCHANGED <<map, op, block, coils, buf, id, sizes, out, requests, main>>

\* One word of the memcpy, in either direction.
Copy(w, x) ==
    /\ mpc # "exited" /\ wpc[w] = "copy" /\ x \in left[w]
    /\ left' = [left EXCEPT ![w] = @ \ {x}]
    /\ IF op[w] = "get"
       THEN /\ buf' = [buf EXCEPT ![w] = [y \in DOMAIN @ \cup {x} |->
                          IF y = x THEN map[block[w].table][x] ELSE @[y]]]
            /\ UNCHANGED map
       ELSE /\ map' = [map EXCEPT ![block[w].table][x] = id[w]]
            /\ UNCHANGED buf
    /\ UNCHANGED <<mutex, wpc, op, block, coils, id, sizes, out, requests, main>>

Unlock(w) ==
    /\ mpc # "exited" /\ wpc[w] = "copy" /\ left[w] = {}
    /\ mutex' = Free
    /\ wpc' = [wpc EXCEPT ![w] = "done"]
    /\ UNCHANGED <<map, op, block, coils, left, buf, id, sizes, out, requests, main>>

\* handle_registers_post goes on to the coils ...
GoOn(w) ==
    /\ mpc # "exited" /\ wpc[w] = "done" /\ op[w] = "post" /\ block[w].table = "holding"
    /\ block' = [block EXCEPT ![w] = Array("coil", coils[w])]
    /\ wpc' = [wpc EXCEPT ![w] = "block"]
    /\ UNCHANGED <<map, mutex, op, coils, left, buf, id, sizes, out, requests, main>>

\* ... or the handler replies.
Reply(w) ==
    /\ mpc # "exited" /\ wpc[w] = "done" /\ (op[w] = "post" => block[w].table = "coil")
    /\ out' = IF op[w] = "get"
              THEN [out EXCEPT ![w] = [block |-> block[w], values |-> buf[w]]] ELSE out
    /\ wpc' = [wpc EXCEPT ![w] = "idle"]
    /\ UNCHANGED <<map, mutex, op, block, coils, left, buf, id, sizes, requests, main>>

Work(w) == Skip(w) \/ Lock(w) \/ (\E x \in 0..Size - 1 : Copy(w, x)) \/ Unlock(w) \/ GoOn(w) \/ Reply(w)

-----------------------------------------------------------------------------
(* The scan thread: single accesses, each with the mutex.                   *)

ScanSets(x) ==
    /\ mpc # "exited" /\ scan = "run" /\ alive /\ mutex = Free
    /\ map' = [map EXCEPT !["coil"][x] = 0]
    /\ UNCHANGED <<mutex, wpc, op, block, coils, left, buf, id, sizes, out, requests, main>>

\* The loop of plc_engine_scan_thread_main finds g_scan_alive cleared.
ScanEnds ==
    /\ mpc # "exited" /\ scan = "run" /\ ~alive /\ scan' = "ended"
    /\ UNCHANGED <<work, mpc, hpc, sig, signals, quit, server, http, alive, early>>

-----------------------------------------------------------------------------
(* main, from the installation of the handlers on.                          *)

Main(from, to) == hpc = "none" /\ mpc = from /\ mpc' = to
SignalKeeps == UNCHANGED <<work, hpc, sig, signals, quit, alive, early>>

\* pthread_create.
Create ==
    /\ \/ Main("create", "serve") /\ scan' = "run"
       \/ Main("create", "exited") /\ UNCHANGED scan
    /\ SignalKeeps /\ UNCHANGED <<server, http>>

\* rest_api_start: mg_start, which may fail ...
Serve ==
    /\ \/ Main("serve", "assign") /\ server' = "up"
       \/ Main("serve", "test") /\ UNCHANGED server
    /\ SignalKeeps /\ UNCHANGED <<http, scan>>

\* ... and g_http = ctx.
Assign == Main("assign", "test") /\ http' = TRUE /\ SignalKeeps /\ UNCHANGED <<server, scan>>

\* while (!g_quit)
Test == Main("test", IF quit THEN "join" ELSE "wait") /\ SignalKeeps /\ UNCHANGED <<server, http, scan>>

\* pause()
Pause == Main("wait", "pause") /\ SignalKeeps /\ UNCHANGED <<server, http, scan>>

\* pthread_join, plugin_manager_shutdown, and the process ends.
Join == Main("join", "exited") /\ scan = "ended" /\ SignalKeeps /\ UNCHANGED <<server, http, scan>>

-----------------------------------------------------------------------------
(* Signals and on_signal, which runs in the main thread.                    *)

\* The init script, or a user, sends SIGTERM.
Send ==
    /\ mpc # "exited" /\ ~sig /\ signals < MaxSignals
    /\ sig' = TRUE /\ signals' = signals + 1
    /\ UNCHANGED <<work, mpc, hpc, quit, server, http, alive, scan, early>>

\* Mutant of Handle: without a server there is nothing to stop, and nothing is done.
HandleServerOnly ==
    /\ sig /\ hpc = "none" /\ mpc # "exited"
    /\ sig' = FALSE /\ hpc' = "stop"
    /\ quit' = (quit \/ http)
    /\ server' = IF http THEN "stopping" ELSE server
    /\ early' = (early \/ mpc \in {"create", "serve", "assign"})
    /\ UNCHANGED <<work, mpc, signals, http, alive, scan>>

\* on_signal sets g_quit and calls rest_api_stop, which asks the server to end.  The same
\* signal is blocked while its handler runs.
Handle ==
    /\ sig /\ hpc = "none" /\ mpc # "exited"
    /\ sig' = FALSE /\ hpc' = "stop" /\ quit' = TRUE
    /\ server' = IF http THEN "stopping" ELSE server
    /\ early' = (early \/ mpc \in {"create", "serve", "assign"})
    /\ UNCHANGED <<work, mpc, signals, http, alive, scan>>

\* Mutant of Stopped: the handler does not wait for the workers.
StoppedAtOnce ==
    /\ hpc = "stop"
    /\ server' = IF http THEN "stopped" ELSE server
    /\ http' = FALSE /\ hpc' = "engine"
    /\ UNCHANGED <<work, mpc, sig, signals, quit, alive, scan, early>>

\* mg_stop returns when every worker has finished its request; g_http = NULL.
Stopped ==
    /\ hpc = "stop" /\ (http => \A w \in Workers : wpc[w] = "idle")
    /\ server' = IF http THEN "stopped" ELSE server
    /\ http' = FALSE /\ hpc' = "engine"
    /\ UNCHANGED <<work, mpc, sig, signals, quit, alive, scan, early>>

\* Mutant of Engine: the handler forgets the scan thread.
EngineRunsOn ==
    /\ hpc = "engine" /\ hpc' = "none"
    /\ mpc' = IF mpc = "pause" THEN "test" ELSE mpc
    /\ UNCHANGED <<work, sig, signals, quit, server, http, alive, scan, early>>

\* plc_engine_request_stop, and the handler returns; pause returns with it.
Engine ==
    /\ hpc = "engine" /\ hpc' = "none" /\ alive' = FALSE
    /\ mpc' = IF mpc = "pause" THEN "test" ELSE mpc
    /\ UNCHANGED <<work, sig, signals, quit, server, http, scan, early>>

MainStep == Create \/ Serve \/ Assign \/ Test \/ Pause \/ Join
Handler  == Handle \/ Stopped \/ Engine

Next ==
    \/ \E w \in Workers : (\E q \in Requests : Take(w, q)) \/ Work(w)
    \/ (\E x \in 0..Size - 1 : ScanSets(x)) \/ ScanEnds
    \/ Create \/ Serve \/ Assign \/ Test \/ Pause \/ Join
    \/ Send \/ Handle \/ Stopped \/ Engine

Spec == Init /\ [][Next]_vars

\* Threads that can run do run.  Nobody has to send a request or a signal, and the scan
\* thread need not come round to its loop condition before g_scan_alive is cleared.
FairSpec ==
    /\ Spec
    /\ WF_vars(MainStep) /\ WF_vars(Handler) /\ WF_vars(ScanEnds)
    /\ \A w \in Workers : WF_vars(Work(w))

-----------------------------------------------------------------------------
(* Properties.                                                              *)

\* The types of the variables; a block at work is never empty for a GET and never longer
\* than tmp.
TypeOK ==
    /\ map \in [Tables -> [0..Size - 1 -> 0..MaxRequests]]
    /\ mutex \in Workers \cup {Free}
    /\ wpc \in [Workers -> {"idle", "block", "copy", "done"}]
    /\ op \in [Workers -> {"get", "post"}]
    /\ block \in [Workers -> Blocks] /\ coils \in [Workers -> Nat]
    /\ \A w \in Workers : wpc[w] # "idle" =>
          block[w].count \in (IF op[w] = "get" THEN 1 ELSE 0) .. Size
    /\ left \in [Workers -> SUBSET (0..Size - 1)]
    /\ id \in [Workers -> 0..MaxRequests] /\ sizes \in [1..MaxRequests -> 0..Size]
    /\ requests \in 0..MaxRequests
    /\ mpc \in {"create", "serve", "assign", "test", "wait", "pause", "join", "exited"}
    /\ hpc \in {"none", "stop", "engine"}
    /\ sig \in BOOLEAN /\ signals \in 0..MaxSignals /\ quit \in BOOLEAN
    /\ server \in {"none", "up", "stopping", "stopped"} /\ http \in BOOLEAN
    /\ alive \in BOOLEAN /\ scan \in {"none", "run", "ended"} /\ early \in BOOLEAN

\* The words D of v are of one instant: a word of one POST never stands next to a word
\* that the same POST had replaced.
Agree(v, D) ==
    \A x, y \in D :
        v[x] # v[y] /\ v[x] \in 1..MaxRequests /\ y < sizes[v[x]]
            => v[y] \in 1..MaxRequests /\ x >= sizes[v[y]]

\* GET /api/registers reports the holding registers of one instant, though POSTs and
\* GETs of other workers copy word by word.
BlockIsSnapshot ==
    \A w \in Workers :
        out[w].block.table = "holding" /\ ValidRange(out[w].block)
            => Agree(out[w].values, DOMAIN out[w].values)

\* A GET reports uninitialised words exactly when its block reaches beyond the map.
JunkOnlyBeyond ==
    \A w \in Workers : \A x \in DOMAIN out[w].values :
        out[w].values[x] = Junk <=> out[w].block.start + out[w].block.count > Size

\* When the daemon ends, no request is cut off in the middle and the scan thread is not
\* at the outputs, unless the signal came before main knew of the server.
DrainedExit ==
    mpc = "exited" =>
        /\ scan # "run"
        /\ ~early => mutex = Free /\ \A w \in Workers : wpc[w] = "idle"

\* A request is answered, also while the daemon is ending: neither the handler of the
\* signal nor the mutex stops it for good.
RequestsAnswered == \A w \in Workers : wpc[w] # "idle" ~> (wpc[w] = "idle" \/ mpc = "exited")

\* Once g_quit is set the daemon ends, or is in a pause it entered without seeing g_quit.
QuitEnds == quit ~> mpc \in {"exited", "pause"}

\* A signal that finds main in pause ends the daemon, if an earlier one was lost as well.
WakeEnds == (mpc = "pause" /\ sig) ~> mpc = "exited"
=============================================================================
