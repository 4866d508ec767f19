-------------------------- MODULE GpioLines_proofs --------------------------
(***************************************************************************)
(* Proofs about GpioLines: the types, for any number of workers, and, when *)
(* one worker at a time serves POST /api/config, that between requests all *)
(* lines are held or none, and that the settings in force are the ones     *)
(* saved.                                                                  *)
(***************************************************************************)
EXTENDS GpioLines, TLAPS

-----------------------------------------------------------------------------
(* Loading and saving.                                                      *)

\* An empty file gives the defaults.
LEMMA EmptyGivesDefaults == Loaded(NoFile) = Defaults
BY ConfigAssumption DEF Loaded, NoFile, WithScan, WithLists, WithChip

\* What is saved is what will be loaded.
LEMMA SavedIsLoaded ==
    ASSUME NEW c \in Configs
    PROVE  Loaded(Saved(c)) = c
<1> DEFINE f == Saved(c)
<1>1. /\ f.chip = c.chip /\ f.di = c.di /\ f.do = c.do /\ f.scan = c.scan
      /\ c.chip \in Chips /\ c.di \in [Channels -> Lines] /\ c.do \in [Channels -> Lines]
      /\ c.scan \in ScanPeriods
    BY DEF Saved, Configs
<1>2. ASSUME NEW list \in [Channels -> Lines]
      PROVE  list # Nil /\ Readable(list) /\ Numbers(list) = list
    <2>1. list \in Seq(Lines) /\ Len(list) = N
        BY ConfigAssumption DEF Channels
    <2> QED
        BY <2>1, ConfigAssumption DEF Readable, Numbers, Channels
<1>3. WithChip(f, Defaults) = [Defaults EXCEPT !.chip = c.chip]
    BY <1>1, ConfigAssumption DEF WithChip
<1>4. WithLists(f, WithChip(f, Defaults)) = [[WithChip(f, Defaults) EXCEPT !.di = c.di] EXCEPT !.do = c.do]
    BY <1>1, <1>2 DEF WithLists
<1>5. Loaded(f) = [chip |-> c.chip, di |-> c.di, do |-> c.do, scan |-> c.scan]
    BY <1>1, <1>3, <1>4, ConfigAssumption DEF Loaded, WithScan, Configs
<1> QED
    BY <1>5 DEF Configs

-----------------------------------------------------------------------------
(* Types.                                                                   *)

LEMMA LoadedInit == Init => Loaded(file) \in Configs
BY GpioAssumption DEF Init

LEMMA InitTypes == Init => TypeOK
<1> SUFFICES ASSUME Init PROVE TypeOK
    OBVIOUS
<1> USE ConfigAssumption, GpioAssumption
<1>1. Loaded(file) \in Configs /\ Loaded(NoFile) \in Configs
    BY LoadedInit, EmptyGivesDefaults
<1>2. cfg \in Configs /\ period \in ScanPeriods
    BY <1>1 DEF Init, Configs
<1>3. 1 \in Slots /\ 1 \in Channels
    BY DEF Slots, Channels
<1>4. body \in [Callers -> Bodies]
    BY DEF Init, NoBody, Bodies
<1> QED
    BY <1>1, <1>2, <1>3, <1>4 DEF Init, TypeOK, Places

LEMMA DieTypes == TypeOK /\ Die => TypeOK'
<1> SUFFICES ASSUME TypeOK, Die PROVE TypeOK'
    OBVIOUS
<1> USE ConfigAssumption, GpioAssumption
<1>1. Loaded(NoFile) \in Configs /\ Loaded(file)' \in Configs
    BY EmptyGivesDefaults DEF Die, TypeOK
<1>2. cfg' \in Configs /\ period' \in ScanPeriods
    BY DEF Die, Fresh, TypeOK, Configs
<1>3. 1 \in Slots /\ 1 \in Channels
    BY DEF Slots, Channels
<1>4. body' \in [Callers -> Bodies]
    BY DEF Die, Fresh, NoBody, Bodies
<1> QED
    BY <1>1, <1>2, <1>3, <1>4 DEF Die, Fresh, TypeOK, Places

\* A step of a caller that only changes the driver and where the caller is.
LEMMA DriverTypes ==
    ASSUME TypeOK,
           UNCHANGED <<up, settings, body, text, scan, coils>>,
           chip' \in Handles \cup {Nil}, line' \in [Slots -> Pointers \cup {Null}],
           gpioOk' \in BOOLEAN, open' \subseteq Handles, requested' \subseteq Pointers,
           pc' \in [Callers -> Places], slot' \in [Callers -> Slots],
           \A w \in Callers : pc'[w] \in {"scan", "period"} => pc'[w] = pc[w],
           then' \in [Callers -> {"again", "open", "fail"}],
           got' \in [Callers -> Pointers \cup {Null}],
           term' \in [Existing -> BOOLEAN]
    PROVE  TypeOK'
BY DEF TypeOK, settings, scan

LEMMA DriverStepTypes ==
    ASSUME TypeOK, NEW w \in Callers,
           \/ Release(w) \/ Clear(w) \/ Close(w) \/ Unchip(w) \/ Down(w) \/ OpenChip(w)
           \/ Request(w) \/ RequestFails(w) \/ Keep(w) \/ SetOk(w)
    PROVE  TypeOK'
<1> DEFINE PcKept == /\ pc' \in [Callers -> Places]
                     /\ \A v \in Callers : pc'[v] \in {"scan", "period"} => pc'[v] = pc[v]
<1>1. /\ chip \in Handles \cup {Nil} /\ line \in [Slots -> Pointers \cup {Null}]
      /\ gpioOk \in BOOLEAN /\ open \subseteq Handles /\ requested \subseteq Pointers
      /\ pc \in [Callers -> Places] /\ slot \in [Callers -> Slots]
      /\ then \in [Callers -> {"again", "open", "fail"}]
      /\ got \in [Callers -> Pointers \cup {Null}] /\ term \in [Existing -> BOOLEAN]
    BY DEF TypeOK
<1>2. 1 \in Slots /\ \A s \in Slots : (IF s = 2 * N THEN 1 ELSE s + 1) \in Slots
    BY ConfigAssumption DEF Slots
<1>3. {"release", "clear", "close", "unchip", "down", "open", "request", "keep", "ok", "save", "idle"} \subseteq Places
    BY DEF Places
<1>4. CASE Release(w)
    <2>1. slot' \in [Callers -> Slots] /\ requested' \subseteq Pointers /\ PcKept
        BY <1>1, <1>2, <1>3, <1>4 DEF Release, Goto
    <2> QED
        BY <1>1, <1>4, <2>1, DriverTypes DEF Release, process
<1>5. CASE Clear(w)
    <2>1. slot' \in [Callers -> Slots] /\ line' \in [Slots -> Pointers \cup {Null}] /\ PcKept
        BY <1>1, <1>2, <1>3, <1>5 DEF Clear, Goto
    <2> QED
        BY <1>1, <1>5, <2>1, DriverTypes DEF Clear, process
<1>6. CASE Close(w)
    <2>1. open' \subseteq Handles /\ requested' \subseteq Pointers
        BY <1>1, <1>6 DEF Close
    <2>2. PcKept /\ then' \in [Callers -> {"again", "open", "fail"}]
        BY <1>1, <1>3, <1>6 DEF Close, EndRelease, Goto, AfterInit
    <2> QED
        BY <1>1, <1>6, <2>1, <2>2, DriverTypes DEF Close, process
<1>7. CASE Unchip(w)
    <2>1. PcKept /\ then' \in [Callers -> {"again", "open", "fail"}]
        BY <1>1, <1>3, <1>7 DEF Unchip, EndRelease, Goto, AfterInit
    <2> QED
        BY <1>1, <1>7, <2>1, DriverTypes DEF Unchip, process
<1>8. CASE Down(w)
    <2>1. PcKept /\ then' \in [Callers -> {"again", "open", "fail"}]
        BY <1>1, <1>3, <1>8 DEF Down, Goto
    <2> QED
        BY <1>1, <1>8, <2>1, DriverTypes DEF Down, process
<1>9. CASE OpenChip(w)
    <2>1. chip' \in Handles \cup {Nil} /\ open' \subseteq Handles /\ PcKept
        BY <1>1, <1>3, <1>9 DEF OpenChip, Unused, Goto, AfterInit
    <2> QED
        BY <1>1, <1>9, <2>1, DriverTypes DEF OpenChip, process
<1>10. CASE Request(w)
    <2> DEFINE l == Wired(slot[w], cfg)
    <2>1. <<chip, l>> \in Pointers /\ l \in Existing
        BY <1>1, <1>10 DEF Request, Free, Pointers
    <2>2. term' \in [Existing -> BOOLEAN] /\ requested' \subseteq Pointers
        BY <1>1, <1>10, <2>1 DEF Request
    <2>3. PcKept /\ got' \in [Callers -> Pointers \cup {Null}]
        BY <1>1, <1>3, <1>10, <2>1 DEF Request, Goto
    <2> QED
        BY <1>1, <1>10, <2>2, <2>3, DriverTypes DEF Request, process
<1>11. CASE RequestFails(w)
    <2>1. /\ PcKept /\ slot' \in [Callers -> Slots]
          /\ then' \in [Callers -> {"again", "open", "fail"}]
        BY <1>1, <1>2, <1>3, <1>11 DEF RequestFails, Goto
    <2> QED
        BY <1>1, <1>11, <2>1, DriverTypes DEF RequestFails, driver, process
<1>12. CASE Keep(w)
    <2>1. /\ PcKept /\ slot' \in [Callers -> Slots]
          /\ line' \in [Slots -> Pointers \cup {Null}] /\ got' \in [Callers -> Pointers \cup {Null}]
        BY <1>1, <1>2, <1>3, <1>12 DEF Keep, Goto
    <2> QED
        BY <1>1, <1>12, <2>1, DriverTypes DEF Keep, process
<1>13. CASE SetOk(w)
    <2>1. PcKept
        BY <1>1, <1>3, <1>13 DEF SetOk, Goto, AfterInit
    <2> QED
        BY <1>1, <1>13, <2>1, DriverTypes DEF SetOk, process
<1> QED
    BY <1>4, <1>5, <1>6, <1>7, <1>8, <1>9, <1>10, <1>11, <1>12, <1>13

LEMMA StoredTypes ==
    ASSUME NEW set \in Setting, NEW c \in Configs
    PROVE  Stored(set, c) \in Configs
<1>1. CASE set \in {"chip"} \X {1} \X Chips
    BY <1>1 DEF Stored, Configs
<1>2. CASE set \in {"di", "do"} \X Channels \X Lines
    BY <1>2 DEF Stored, Configs
<1> QED
    BY <1>1, <1>2 DEF Setting

LEMMA SettingsStepTypes ==
    ASSUME TypeOK, NEW w \in Callers,
           \/ SetScan(w) \/ SetPeriod(w) \/ Set(w) \/ EndSet(w)
           \/ Save(w) \/ Truncate(w) \/ Write(w) \/ SaveFails(w)
    PROVE  TypeOK'
<1>1. /\ cfg \in Configs /\ period \in ScanPeriods /\ body \in [Callers -> Bodies]
      /\ pc \in [Callers -> Places] /\ then \in [Callers -> {"again", "open", "fail"}]
      /\ Loaded(file) \in Configs /\ text \in [Callers -> Configs \cup {NoFile}]
      /\ slot \in [Callers -> Slots] /\ 1 \in Slots
      /\ \A v \in Callers : pc[v] \in {"scan", "period"} => body[v].scan \in ScanPeriods
    BY ConfigAssumption DEF TypeOK, Slots
<1>2. /\ Loaded(NoFile) \in Configs /\ NoBody \in Bodies
      /\ \A c \in Configs : Saved(c) = c /\ Loaded(c) \in Configs
    BY EmptyGivesDefaults, SavedIsLoaded, ConfigAssumption DEF NoBody, Bodies, Saved, Configs
<1>3. {"idle", "period", "set", "release", "save", "truncate", "write"} \subseteq Places
    BY DEF Places
<1>4. ASSUME UNCHANGED <<up, driver, got, scan, process>>, slot' \in [Callers -> Slots],
             cfg' \in Configs, period' \in ScanPeriods, lost' \in BOOLEAN,
             Loaded(file') \in Configs, text' \in [Callers -> Configs \cup {NoFile}],
             body' \in [Callers -> Bodies], pc' \in [Callers -> Places],
             then' \in [Callers -> {"again", "open", "fail"}],
             \A v \in Callers : pc'[v] \in {"scan", "period"} => body'[v].scan \in ScanPeriods
      PROVE  TypeOK'
    BY <1>4 DEF TypeOK, driver, scan, process
<1>5. CASE SetScan(w)
    <2>1. cfg' \in Configs
        BY <1>1, <1>5 DEF SetScan, At, Configs
    <2>2. pc' \in [Callers -> Places] /\ \A v \in Callers : pc'[v] \in {"scan", "period"} => body'[v].scan \in ScanPeriods
        BY <1>1, <1>3, <1>5 DEF SetScan, At, Goto
    <2> QED
        BY <1>1, <1>4, <1>5, <2>1, <2>2 DEF SetScan, TypeOK
<1>6. CASE SetPeriod(w)
    <2>1. pc' \in [Callers -> Places] /\ \A v \in Callers : pc'[v] \in {"scan", "period"} => body'[v].scan \in ScanPeriods
        BY <1>1, <1>3, <1>6 DEF SetPeriod, At, Goto
    <2>2. period' \in ScanPeriods
        BY <1>1, <1>6 DEF SetPeriod, At
    <2> QED
        BY <1>1, <1>4, <1>6, <2>1, <2>2 DEF SetPeriod, TypeOK
<1>7. CASE Set(w)
    <2>1. body[w].sets \in Seq(Setting) /\ body[w].sets # <<>>
        BY <1>1, <1>7 DEF Set, Bodies
    <2>2. cfg' \in Configs
        BY <1>1, <1>7, <2>1, StoredTypes DEF Set
    <2>3. Tail(body[w].sets) \in Seq(Setting)
        BY <2>1
    <2>4. body' \in [Callers -> Bodies] /\ \A v \in Callers : body'[v].scan = body[v].scan
        BY <1>1, <1>7, <2>3 DEF Set, Bodies
    <2> QED
        BY <1>1, <1>4, <1>7, <2>2, <2>4 DEF Set, TypeOK
<1>8. CASE EndSet(w)
    <2>1. /\ pc' \in [Callers -> Places] /\ then' \in [Callers -> {"again", "open", "fail"}]
          /\ slot' \in [Callers -> Slots]
          /\ \A v \in Callers : pc'[v] \in {"scan", "period"} => body'[v].scan \in ScanPeriods
        BY <1>1, <1>3, <1>8 DEF EndSet, At, Goto
    <2> QED
        BY <1>1, <1>4, <1>8, <2>1 DEF EndSet, TypeOK, settings
<1>9. CASE Save(w)
    <2>1. /\ pc' \in [Callers -> Places] /\ text' \in [Callers -> Configs \cup {NoFile}]
          /\ \A v \in Callers : pc'[v] \in {"scan", "period"} => body'[v].scan \in ScanPeriods
        BY <1>1, <1>2, <1>3, <1>9 DEF Save, At, Goto
    <2> QED
        BY <1>1, <1>4, <1>9, <2>1 DEF Save, TypeOK, settings
<1>10. CASE Truncate(w)
    <2>1. /\ pc' \in [Callers -> Places] /\ Loaded(file') \in Configs
          /\ \A v \in Callers : pc'[v] \in {"scan", "period"} => body'[v].scan \in ScanPeriods
        BY <1>1, <1>2, <1>3, <1>10 DEF Truncate, At, Goto
    <2> QED
        BY <1>1, <1>4, <1>10, <2>1 DEF Truncate, TypeOK
<1>11. CASE Write(w) \/ SaveFails(w)
    <2>1. pc' = [pc EXCEPT ![w] = "idle"] /\ body' = [body EXCEPT ![w] = NoBody] /\ text' = [text EXCEPT ![w] = NoFile]
        BY <1>11 DEF Write, SaveFails, Goto
    <2>2. /\ pc' \in [Callers -> Places] /\ text' \in [Callers -> Configs \cup {NoFile}]
          /\ body' \in [Callers -> Bodies]
          /\ \A v \in Callers : pc'[v] \in {"scan", "period"} => body'[v].scan \in ScanPeriods
        BY <1>1, <1>2, <1>3, <2>1
    <2>3. Loaded(file') \in Configs
        BY <1>1, <1>2, <1>11 DEF Write, SaveFails
    <2> QED
        BY <1>1, <1>4, <1>11, <2>2, <2>3 DEF Write, SaveFails, TypeOK
<1> QED
    BY <1>5, <1>6, <1>7, <1>8, <1>9, <1>10, <1>11

LEMMA BeginPostTypes ==
    ASSUME TypeOK, NEW w \in Workers, NEW b \in Posts, BeginPost(w, b)
    PROVE  TypeOK'
<1>1. b \in Bodies /\ w \in Callers /\ "scan" \in Places /\ "set" \in Places
    BY GpioAssumption DEF Callers, Places
<1>2. body' \in [Callers -> Bodies] /\ pc' \in [Callers -> Places]
    BY <1>1 DEF BeginPost, Goto, TypeOK
<1>3. \A v \in Callers : pc'[v] \in {"scan", "period"} => body'[v].scan \in ScanPeriods
    BY <1>1 DEF BeginPost, Goto, TypeOK
<1> QED
    BY <1>2, <1>3 DEF BeginPost, TypeOK, settings, driver, scan, process

LEMMA ScanStepTypes == TypeOK /\ ScanStep => TypeOK'
<1> SUFFICES ASSUME TypeOK, ScanStep PROVE TypeOK'
    OBVIOUS
<1> USE DEF settings, driver, caller, process, scan
<1>1. CASE Test
    BY <1>1 DEF Test, TypeOK
<1>2. CASE ReadInput
    <2>1. ptr' \in Pointers \cup {Null}
        BY <1>2, ConfigAssumption DEF ReadInput, InSlot, Slots, Channels, TypeOK
    <2> QED
        BY <1>2, <2>1 DEF ReadInput, TypeOK
<1>3. CASE Get
    <2>1. ch' \in Channels
        BY <1>3, ConfigAssumption DEF Get, Channels, TypeOK
    <2> QED
        BY <1>3, <2>1 DEF Get, TypeOK
<1>4. CASE ReadOutput
    <2>1. ptr' \in Pointers \cup {Null}
        BY <1>4, ConfigAssumption DEF ReadOutput, OutSlot, Slots, Channels, TypeOK
    <2>2. val' \in BOOLEAN
        BY <1>4 DEF ReadOutput, TypeOK
    <2> QED
        BY <1>4, <2>1, <2>2 DEF ReadOutput, TypeOK
<1>5. CASE Put
    <2>1. ch' \in Channels
        BY <1>5, ConfigAssumption DEF Put, Channels, TypeOK
    <2>2. term' \in [Existing -> BOOLEAN]
        BY <1>5 DEF Put, TypeOK
    <2> QED
        BY <1>5, <2>1, <2>2 DEF Put, TypeOK
<1> QED
    BY <1>1, <1>2, <1>3, <1>4, <1>5 DEF ScanStep

LEMMA NextTypes == TypeOK /\ [Next]_vars => TypeOK'
<1> SUFFICES ASSUME TypeOK, [Next]_vars PROVE TypeOK'
    OBVIOUS
<1>1. ASSUME NEW w \in Callers, CallStep(w) PROVE TypeOK'
    BY <1>1, DriverStepTypes, SettingsStepTypes DEF CallStep
<1>2. ASSUME NEW c \in Forced, NEW v \in BOOLEAN, ForceCoil(c, v) PROVE TypeOK'
    <2>1. coils' \in [Channels -> BOOLEAN]
        BY <1>2, GpioAssumption DEF ForceCoil, TypeOK
    <2> QED
        BY <1>2, <2>1 DEF ForceCoil, TypeOK, settings, driver, caller, scan
<1>3. CASE Kill \/ Fault
    BY <1>3, DieTypes DEF Kill, Fault
<1>4. CASE Restart
    BY <1>4 DEF Restart, TypeOK, settings, driver, caller, scan, process
<1>5. CASE UNCHANGED vars
    BY <1>5 DEF vars, TypeOK, settings, driver, caller, scan, process
<1> QED
    BY <1>1, <1>2, <1>3, <1>4, <1>5, BeginPostTypes, ScanStepTypes DEF Next

\* The variables keep their types, for any number of workers.
THEOREM Types == Spec => []TypeOK
BY InitTypes, NextTypes, PTL DEF Spec

-----------------------------------------------------------------------------
(* One worker at a time serves POST /api/config.                            *)

OneWorker == \A v, w \in Workers : v = w

\* It is enough to look at the one caller that is not idle.
LEMMA Concluded ==
    ASSUME NEW w \in Callers, Alone(w)', PointersTell(w)', Progress(w)', Settled(w)'
    PROVE  ServingInv'
<1>1. OneCaller'
    BY DEF OneCaller, Alone
<1>2. ASSUME NEW x \in Callers, Alone(x)', x # w
      PROVE  PointersTell(x)' /\ Progress(x)' /\ Settled(x)'
    <2>1. pc'[x] = "idle" /\ pc'[w] = "idle"
        BY <1>2 DEF Alone
    <2>2. PointersTell(x)'
        BY <2>1 DEF PointersTell
    <2>3. Progress(x)'
        BY <2>1 DEF Progress, Releasing
    <2>4. Settled(x)'
        BY <2>1 DEF Settled
    <2> QED
        BY <2>2, <2>3, <2>4
<1> QED
    BY <1>1, <1>2 DEF ServingInv

\* Whoever is not idle is alone.
LEMMA BusyIsAlone ==
    ASSUME ServingInv, NEW w \in Callers, pc[w] # "idle"
    PROVE  Alone(w) /\ PointersTell(w) /\ Progress(w) /\ Settled(w)
<1>1. Alone(w)
    BY DEF ServingInv, OneCaller, Alone
<1> QED
    BY <1>1 DEF ServingInv

LEMMA ReleaseKeeps ==
    ASSUME TypeOK, NEW w \in Callers, PointersTell(w), Progress(w), Release(w) \/ Clear(w)
    PROVE  PointersTell(w)' /\ Progress(w)'
<1>1. CASE Release(w)
    <2>1. PointersTell(w)'
        BY <1>1 DEF Release, At, Goto, PointersTell, Progress, TypeOK
    <2>2. Progress(w)'
        BY <1>1 DEF Release, At, Goto, Progress, TypeOK, Releasing, Slots
    <2> QED
        BY <2>1, <2>2
<1>2. CASE Clear(w)
    <2> DEFINE n == slot[w]
    <2>1. /\ pc[w] = "clear" /\ pc'[w] \in {"close", "release"} /\ n \in Slots
          /\ line'[n] = Null /\ \A s \in Slots \ {n} : line'[s] = line[s]
          /\ requested' = requested /\ open' = open /\ chip' = chip
        BY <1>2 DEF Clear, At, Goto, TypeOK
    <2>2. \A p \in Pointers : p # Null
        BY DEF Pointers, Null
    <2>3. \A p \in Pointers : p \in requested <=> \E s \in Slots : line[s] = p /\ s # n
        BY <2>1 DEF PointersTell
    <2>4. \A p \in Pointers : p \in requested' <=> \E s \in Slots : line'[s] = p
        BY ONLY <2>1, <2>2, <2>3
    <2>5. PointersTell(w)'
        BY <2>1, <2>4 DEF PointersTell
    <2>6. Progress(w)'
        BY <1>2 DEF Clear, At, Goto, Progress, TypeOK, Releasing, Slots
    <2> QED
        BY <2>5, <2>6
<1> QED
    BY <1>1, <1>2

\* With all pointers Null nothing is requested.
LEMMA NothingHeld ==
    ASSUME TypeOK, NEW w \in Callers, PointersTell(w), pc[w] # "keep",
           \A s \in Slots : line[s] = Null
    PROVE  requested = {} /\ line = [s \in Slots |-> Null]
<1>1. \A p \in Pointers : p # Null
    BY DEF Pointers, Null
<1>2. \A p \in requested : FALSE
    BY <1>1 DEF PointersTell, TypeOK
<1>3. line = [s \in Slots |-> Null]
    BY DEF TypeOK
<1> QED
    BY <1>2, <1>3

\* Where a caller is that has found or left nothing requested.
LEMMA EmptyTells ==
    ASSUME NEW w \in Callers, (line = [s \in Slots |-> Null])', requested' = {},
           open' = IF chip' = Nil \/ pc'[w] = "unchip" THEN {} ELSE {chip'},
           pc'[w] \notin {"clear", "keep"}
    PROVE  PointersTell(w)'
<1>1. \A s \in Slots : line'[s] = Null
    OBVIOUS
<1>2. \A p \in Pointers : p # Null
    BY DEF Pointers, Null
<1> QED
    BY <1>1, <1>2 DEF PointersTell

LEMMA CloseKeeps ==
    ASSUME TypeOK, NEW w \in Callers, PointersTell(w), Progress(w),
           Close(w) \/ Unchip(w) \/ Down(w) \/ OpenChip(w)
    PROVE  PointersTell(w)' /\ Progress(w)'
<1>1. /\ requested = {} /\ line = [s \in Slots |-> Null] /\ \A s \in Slots : line[s] = Null
      /\ pc[w] \in {"close", "unchip", "down", "open"} /\ slot[w] = 1
      /\ open = IF chip = Nil \/ pc[w] = "unchip" THEN {} ELSE {chip}
    <2>1. pc[w] \in {"close", "unchip", "down", "open"}
        BY DEF Close, Unchip, Down, OpenChip, At
    <2>2. slot[w] = 1 /\ \A s \in Slots : line[s] = Null
        BY <2>1 DEF Progress
    <2> QED
        BY <2>1, <2>2, NothingHeld DEF PointersTell
<1>2. /\ line' = line /\ requested' = requested /\ slot' = slot
      /\ pc' = [pc EXCEPT ![w] = pc'[w]]
      /\ pc'[w] \in {"unchip", "down", "idle", "save", "open", "release", "request"}
    <2>1. CASE Close(w)
        BY <1>1, <2>1 DEF Close, EndRelease, AfterInit, Goto, TypeOK
    <2>2. CASE Unchip(w) \/ Down(w) \/ OpenChip(w)
        BY <1>1, <2>2 DEF Unchip, Down, OpenChip, EndRelease, AfterInit, Goto, TypeOK
    <2> QED
        BY <2>1, <2>2
<1>3. CASE Close(w) \/ Unchip(w)
    <2>1. /\ open' = {} /\ gpioOk' = gpioOk
          /\ pc'[w] = "unchip" <=> chip' # Nil
          /\ pc'[w] \in {"unchip", "down", "idle", "save"}
          /\ pc'[w] \in {"idle", "save"} => then[w] = "fail"
          /\ pc'[w] = "unchip" => then' = then
        BY <1>1, <1>3 DEF Close, Unchip, EndRelease, AfterInit, At, Goto, TypeOK, Progress
    <2>2. pc[w] \in Releasing /\ (then[w] # "again" => ~gpioOk)
        BY <1>3 DEF Close, Unchip, At, Progress, Releasing
    <2>3. PointersTell(w)'
        BY <1>1, <1>2, <2>1, EmptyTells
    <2>4. pc'[w] \in {"idle", "save"} => HoldsNothing'
        BY <1>1, <1>2, <2>1, <2>2 DEF HoldsNothing
    <2>5. Progress(w)'
        BY <1>1, <1>2, <2>1, <2>2, <2>4 DEF Progress, Releasing
    <2> QED
        BY <2>3, <2>5
<1>4. CASE Down(w)
    <2>1. PointersTell(w)'
        BY <1>1, <1>2, <1>4, EmptyTells DEF Down, Progress, At, Goto, TypeOK
    <2>2. Progress(w)'
        BY <1>1, <1>2, <1>4 DEF Down, At, Goto, Progress, TypeOK, Releasing
    <2> QED
        BY <2>1, <2>2
<1>5. CASE OpenChip(w)
    <2>1. /\ ~gpioOk' /\ open' = IF chip' = Nil THEN {} ELSE {chip'}
          /\ pc'[w] \in {"request", "idle", "save"}
          /\ pc'[w] = "request" => chip' # Nil
          /\ pc'[w] \in {"idle", "save"} => chip' = Nil
        <3>1. Unused \subseteq Handles /\ Nil \notin Handles
            BY GpioAssumption DEF Unused
        <3>2. chip = Nil /\ open = {} /\ ~gpioOk
            BY <1>1, <1>5 DEF OpenChip, At, Progress
        <3> QED
            BY <1>2, <1>5, <3>1, <3>2 DEF OpenChip, AfterInit, Goto, TypeOK
    <2>2. PointersTell(w)'
        BY <1>1, <1>2, <2>1, EmptyTells
    <2>3. pc'[w] \in {"idle", "save"} => HoldsNothing'
        BY <1>1, <1>2, <2>1 DEF HoldsNothing
    <2>4. pc'[w] = "request" => /\ \A s \in 1..(slot'[w] - 1) : FALSE
                                /\ \A s \in slot'[w]..(2 * N) : line'[s] = Null
        BY <1>1, <1>2 DEF Slots
    <2>5. Progress(w)'
        BY <1>2, <2>1, <2>3, <2>4 DEF Progress, Releasing
    <2> QED
        BY <2>2, <2>5
<1> QED
    BY <1>3, <1>4, <1>5

LEMMA RequestKeeps ==
    ASSUME TypeOK, NEW w \in Callers, PointersTell(w), Progress(w),
           Request(w) \/ RequestFails(w) \/ Keep(w) \/ SetOk(w)
    PROVE  PointersTell(w)' /\ Progress(w)'
<1> DEFINE n == slot[w]
           p0 == <<chip, Wired(n, cfg)>>
<1>1. \A p \in Pointers : p # Null
    BY DEF Pointers, Null
<1>2. n \in Slots /\ n \in 1..(2 * N) /\ N \in Nat
    BY ConfigAssumption DEF TypeOK, Slots
<1>3. CASE Request(w)
    <2>1. /\ pc[w] = "request" /\ pc'[w] = "keep" /\ p0 \in Pointers /\ got'[w] = p0
          /\ requested' = requested \cup {p0} /\ \A p \in requested : p[2] # Wired(n, cfg)
          /\ line' = line /\ open' = open /\ chip' = chip /\ slot' = slot /\ cfg' = cfg
          /\ gpioOk' = gpioOk /\ chip # Nil
        BY <1>3, <1>2 DEF Request, Free, At, Goto, TypeOK, settings, Pointers
    <2>2. \A s \in Slots : line[s] # p0
        <3>1. p0 \notin requested
            BY <2>1
        <3> QED
            BY <2>1, <3>1 DEF PointersTell
    <2>3. PointersTell(w)'
        <3>1. \A p \in Pointers : p \in requested' <=> p = p0 \/ \E s \in Slots : line[s] = p
            BY <2>1 DEF PointersTell
        <3> QED
            BY <2>1, <3>1 DEF PointersTell
    <2>4. Progress(w)'
        BY <2>1, <2>2 DEF Progress, Releasing
    <2> QED
        BY <2>3, <2>4
<1>4. CASE RequestFails(w)
    <2>1. /\ pc[w] = "request" /\ pc'[w] = "release" /\ slot'[w] = 1
          /\ line' = line /\ open' = open /\ chip' = chip /\ gpioOk' = gpioOk
          /\ requested' = requested
        BY <1>4 DEF RequestFails, driver, At, Goto, TypeOK
    <2>2. PointersTell(w)'
        BY <2>1 DEF PointersTell
    <2>3. Progress(w)'
        BY <2>1 DEF Progress, Releasing
    <2> QED
        BY <2>2, <2>3
<1>5. CASE Keep(w)
    <2>1. /\ pc[w] = "keep" /\ line'[n] = got[w] /\ \A s \in Slots \ {n} : line'[s] = line[s]
          /\ pc'[w] = (IF n = 2 * N THEN "ok" ELSE "request")
          /\ slot'[w] = (IF n = 2 * N THEN 1 ELSE n + 1)
          /\ requested' = requested /\ open' = open /\ chip' = chip /\ cfg' = cfg /\ gpioOk' = gpioOk
          /\ line' \in [Slots -> Pointers \cup {Null}]
        BY <1>5, <1>2 DEF Keep, At, Goto, TypeOK, settings
    <2>2. /\ got[w] = p0 /\ chip # Nil /\ ~gpioOk /\ \A s \in Slots : line[s] # got[w]
          /\ \A s \in 1..(n - 1) : line[s] = <<chip, Wired(s, cfg)>>
          /\ \A s \in n..(2 * N) : line[s] = Null
        BY <2>1 DEF Progress
    <2>3. line[n] = Null
        BY <1>2, <2>2
    <2>4. PointersTell(w)'
        <3>1. \A p \in Pointers : p \in requested' <=> \E s \in Slots : line'[s] = p
            <4>1. \A p \in Pointers : p \in requested <=> p = got[w] \/ \E s \in Slots : line[s] = p
                BY <2>1 DEF PointersTell
            <4> QED
                BY ONLY <1>1, <1>2, <2>1, <2>3, <4>1
        <3>2. \A s \in Slots : line'[s] # Null => line'[s] = <<chip, line'[s][2]>>
            BY <2>1, <2>2 DEF PointersTell
        <3>3. \A s, t \in Slots : line'[s] # Null /\ line'[s] = line'[t] => s = t
            BY <2>1, <2>2 DEF PointersTell
        <3> QED
            BY <2>1, <3>1, <3>2, <3>3 DEF PointersTell
    <2>5. /\ \A s \in 1..n : line'[s] = <<chip, Wired(s, cfg)>>
          /\ \A s \in (n + 1)..(2 * N) : line'[s] = Null
        BY ONLY <1>2, <2>1, <2>2 DEF Slots
    <2>6. n = 2 * N => line' = [s \in Slots |-> <<chip, Wired(s, cfg)>>]
        BY <2>1, <2>5 DEF Slots
    <2>7. n # 2 * N => \A s \in 1..(slot'[w] - 1) : line'[s] = <<chip, Wired(s, cfg)>>
        BY <1>2, <2>1, <2>5
    <2>8. Progress(w)'
        BY <2>1, <2>2, <2>5, <2>6, <2>7 DEF Progress, Releasing
    <2> QED
        BY <2>4, <2>8
<1>6. CASE SetOk(w)
    <2>1. /\ pc[w] = "ok" /\ pc'[w] \in {"idle", "save"} /\ gpioOk'
          /\ requested' = requested /\ open' = open /\ chip' = chip /\ cfg' = cfg /\ line' = line
        BY <1>6 DEF SetOk, AfterInit, At, Goto, TypeOK, settings
    <2>2. chip # Nil /\ line = [s \in Slots |-> <<chip, Wired(s, cfg)>>]
        BY <2>1 DEF Progress
    <2>3. \A s \in Slots : line[s] \in Pointers
        BY <2>2 DEF TypeOK, Null
    <2>4. requested = {line[s] : s \in Slots}
        <3>1. \A p \in Pointers : p \in requested <=> \E s \in Slots : line[s] = p
            BY <2>1 DEF PointersTell
        <3> QED
            BY <2>3, <3>1 DEF TypeOK
    <2>5. HoldsAll'
        BY <2>1, <2>2, <2>4 DEF HoldsAll, PointersTell
    <2>6. PointersTell(w)'
        BY <2>1 DEF PointersTell
    <2>7. Progress(w)'
        BY <2>1, <2>5 DEF Progress, Releasing
    <2> QED
        BY <2>6, <2>7
<1> QED
    BY <1>3, <1>4, <1>5, <1>6

\* The driver leaves the settings alone.
LEMMA DriverSettled ==
    ASSUME TypeOK, NEW w \in Callers, Settled(w),
           \/ Release(w) \/ Clear(w) \/ Close(w) \/ Unchip(w) \/ Down(w) \/ OpenChip(w)
           \/ Request(w) \/ RequestFails(w) \/ Keep(w) \/ SetOk(w)
    PROVE  Settled(w)'
<1>1. /\ UNCHANGED <<file, cfg, period, lost>>
      /\ pc[w] \notin {"idle", "scan", "period", "truncate", "write"}
      /\ pc'[w] \notin {"scan", "period", "truncate", "write"}
      /\ pc'[w] # "set"
      /\ IF w = Main THEN pc'[w] # "save" ELSE pc'[w] # "idle"
    BY DEF Release, Clear, Close, Unchip, Down, OpenChip, Request, RequestFails, Keep, SetOk,
           EndRelease, AfterInit, At, Goto, TypeOK, settings
<1> QED
    BY <1>1 DEF Settled

LEMMA SettingsKeep ==
    ASSUME TypeOK, NEW w \in Callers, PointersTell(w), Progress(w), Settled(w),
           \/ SetScan(w) \/ SetPeriod(w) \/ Set(w) \/ EndSet(w)
           \/ Save(w) \/ Truncate(w) \/ Write(w) \/ SaveFails(w)
    PROVE  PointersTell(w)' /\ Progress(w)' /\ Settled(w)'
<1>1. /\ UNCHANGED <<chip, line, gpioOk, open, requested>>
      /\ pc[w] \in {"scan", "period", "set", "save", "truncate", "write"}
      /\ pc'[w] \in {"period", "set", "release", "save", "truncate", "write", "idle"}
    BY DEF SetScan, SetPeriod, Set, EndSet, Save, Truncate, Write, SaveFails, At, Goto, TypeOK, driver
<1>2. PointersTell(w)' /\ w # Main
    BY <1>1 DEF PointersTell, Settled
<1>3. HoldsNothing => HoldsNothing'
    BY <1>1 DEF HoldsNothing
<1>4. (\A s \in Slots : Wired(s, cfg)' = Wired(s, cfg)) /\ HoldsAll => HoldsAll'
    BY <1>1 DEF HoldsAll
<1>5. CASE Set(w)
    <2>1. pc[w] = "set" /\ pc'[w] = "set" /\ body[w].sets # <<>> /\ body'[w].gpio = body[w].gpio
        BY <1>5 DEF Set, At, TypeOK, Bodies
    <2>2. body[w].gpio
        BY <2>1 DEF Progress, TypeOK, Bodies
    <2>3. cfg'.scan = cfg.scan
        <3>1. Head(body[w].sets) \in Setting
            BY <1>5, <2>1 DEF TypeOK, Bodies
        <3>2. ASSUME NEW set \in Setting PROVE Stored(set, cfg).scan = cfg.scan
            BY DEF Stored, Setting, TypeOK, Configs
        <3> QED
            BY <1>5, <3>1, <3>2 DEF Set
    <2>4. Progress(w)'
        BY <2>1, <2>2 DEF Progress, Releasing
    <2>5. Settled(w)'
        BY <1>2, <1>5, <2>1, <2>3 DEF Settled, Set
    <2> QED
        BY <1>2, <2>4, <2>5
<1>6. CASE SetScan(w)
    <2>1. pc[w] = "scan" /\ pc'[w] = "period" /\ cfg'.scan = body[w].scan /\ body' = body
        BY <1>6 DEF SetScan, At, Goto, TypeOK, Configs
    <2>2. \A s \in Slots : Wired(s, cfg)' = Wired(s, cfg)
        BY <1>6 DEF SetScan, Wired, TypeOK, Configs
    <2>3. Progress(w)'
        BY <1>3, <1>4, <2>1, <2>2 DEF Progress, Releasing
    <2>4. Settled(w)'
        BY <1>2, <2>1 DEF Settled
    <2> QED
        BY <1>2, <2>3, <2>4
<1>7. CASE SetPeriod(w) \/ EndSet(w) \/ Save(w) \/ Truncate(w) \/ Write(w) \/ SaveFails(w)
    <2>1. cfg' = cfg
        BY <1>7 DEF SetPeriod, EndSet, Save, Truncate, Write, SaveFails, settings
    <2>2. \A s \in Slots : Wired(s, cfg)' = Wired(s, cfg)
        BY <2>1 DEF Wired
    <2>3. CASE SetPeriod(w)
        <3>1. pc[w] = "period" /\ pc'[w] = "set" /\ period' = body[w].scan /\ body' = body
            BY <2>3 DEF SetPeriod, At, Goto, TypeOK
        <3>2. Progress(w)'
            BY <1>3, <1>4, <2>2, <3>1 DEF Progress, Releasing
        <3>3. cfg.scan = body[w].scan
            BY <3>1 DEF Settled
        <3>4. Settled(w)'
            <4>1. period' = cfg'.scan
                BY <2>1, <3>1, <3>3
            <4> QED
                BY <1>2, <3>1, <4>1 DEF Settled
        <3> QED
            BY <1>2, <3>2, <3>4
    <2>4. CASE EndSet(w)
        <3>1. /\ pc[w] = "set" /\ pc'[w] = (IF body[w].gpio THEN "release" ELSE "save")
              /\ body[w].gpio => then'[w] = "again"
              /\ slot'[w] = 1
              /\ UNCHANGED <<period, file, lost>>
            BY <2>4 DEF EndSet, At, Goto, TypeOK, settings
        <3>2. Progress(w)'
            BY <1>3, <1>4, <2>2, <3>1 DEF Progress, Releasing
        <3>3. period' = cfg'.scan
            BY <2>1, <3>1 DEF Settled
        <3>4. Settled(w)'
            BY <1>2, <3>1, <3>3 DEF Settled
        <3> QED
            BY <1>2, <3>2, <3>4
    <2>5. CASE Save(w) \/ Truncate(w) \/ Write(w) \/ SaveFails(w)
        <3>1. /\ pc[w] \in {"save", "truncate", "write"} /\ pc'[w] \in {"truncate", "write", "idle"}
              /\ period' = period
            BY <2>5 DEF Save, Truncate, Write, SaveFails, At, Goto, TypeOK, settings
        <3>2. Progress(w)'
            BY <1>3, <1>4, <2>2, <3>1 DEF Progress, Releasing
        <3>3. pc'[w] \in {"truncate", "write"} => Loaded(text'[w]) = cfg
            <4>1. cfg \in Configs /\ text \in [Callers -> Configs \cup {NoFile}]
                BY DEF TypeOK
            <4>2. Save(w) => text'[w] = Saved(cfg)
                BY <4>1 DEF Save
            <4>3. Truncate(w) => text' = text /\ pc[w] = "truncate"
                BY DEF Truncate, At
            <4>4. Write(w) \/ SaveFails(w) => pc'[w] = "idle"
                BY DEF Write, SaveFails, Goto, TypeOK
            <4> QED
                BY <2>5, <4>1, <4>2, <4>3, <4>4, SavedIsLoaded DEF Settled
        <3>4. pc'[w] = "idle" /\ ~lost' => Loaded(file') = cfg
            <4>1. Write(w) => file' = text[w] /\ pc[w] = "write"
                BY DEF Write, At
            <4>2. SaveFails(w) => lost'
                BY DEF SaveFails
            <4>3. Save(w) \/ Truncate(w) => pc'[w] # "idle"
                BY DEF Save, Truncate, Goto, TypeOK
            <4> QED
                BY <2>5, <4>1, <4>2, <4>3 DEF Settled
        <3>5. Settled(w)'
            BY <1>2, <2>1, <3>1, <3>3, <3>4 DEF Settled
        <3> QED
            BY <1>2, <3>2, <3>5
    <2> QED
        BY <1>7, <2>3, <2>4, <2>5
<1> QED
    BY <1>5, <1>6, <1>7

LEMMA BeginPostKeeps ==
    ASSUME OneWorker, TypeOK, ServingInv, NEW w \in Workers, NEW b \in Posts, BeginPost(w, b)
    PROVE  ServingInv'
<1>1. w \in Callers /\ w # Main /\ b \in Bodies /\ (b.sets # <<>> => b.gpio)
    BY GpioAssumption DEF Callers
<1>2. Alone(w) /\ pc[w] = "idle"
    BY DEF BeginPost, At, Alone, Callers, OneWorker
<1>3. PointersTell(w) /\ Progress(w) /\ Settled(w)
    BY <1>1, <1>2 DEF ServingInv
<1>4. /\ UNCHANGED <<driver, settings>> /\ body'[w] = b
      /\ pc'[w] = IF b.scan \in ScanPeriods THEN "scan" ELSE "set"
      /\ \A v \in Callers : v # w => pc'[v] = pc[v]
    BY <1>1 DEF BeginPost, Goto, TypeOK
<1>5. Alone(w)'
    BY <1>2, <1>4 DEF Alone
<1>6. PointersTell(w)'
    BY <1>2, <1>3, <1>4 DEF PointersTell, driver
<1>7. Progress(w)'
    <2>1. (HoldsAll => HoldsAll') /\ (HoldsNothing => HoldsNothing')
        BY <1>4 DEF HoldsAll, HoldsNothing, Wired, driver, settings
    <2>2. HoldsAll \/ HoldsNothing
        BY <1>2, <1>3 DEF Progress, Releasing
    <2>3. ~b.gpio => b.sets = <<>>
        BY <1>1 DEF Bodies
    <2> QED
        BY <1>4, <2>1, <2>2, <2>3 DEF Progress, Releasing
<1>8. Settled(w)'
    BY <1>1, <1>2, <1>3, <1>4 DEF Settled, settings
<1> QED
    BY <1>1, <1>5, <1>6, <1>7, <1>8, Concluded

LEMMA CallStepKeeps ==
    ASSUME TypeOK, ServingInv, NEW w \in Callers, CallStep(w)
    PROVE  ServingInv'
<1>1. pc[w] # "idle"
    BY DEF CallStep, Release, Clear, Close, Unchip, Down, OpenChip, Request, RequestFails, Keep, SetOk,
           SetScan, SetPeriod, Set, EndSet, Save, Truncate, Write, SaveFails, At
<1>2. Alone(w) /\ PointersTell(w) /\ Progress(w) /\ Settled(w)
    BY <1>1, BusyIsAlone
<1>3. \A v \in Callers : v # w => pc'[v] = pc[v]
    BY DEF CallStep, Release, Clear, Close, Unchip, Down, OpenChip, Request, RequestFails, Keep, SetOk,
           SetScan, SetPeriod, Set, EndSet, Save, Truncate, Write, SaveFails, EndRelease, Goto, TypeOK
<1>4. Alone(w)'
    BY <1>2, <1>3 DEF Alone
<1>5. PointersTell(w)' /\ Progress(w)' /\ Settled(w)'
    BY <1>2, ReleaseKeeps, CloseKeeps, RequestKeeps, DriverSettled, SettingsKeep DEF CallStep
<1> QED
    BY <1>4, <1>5, Concluded

\* A process that starts anew has nothing but its settings.
LEMMA InitServing == Init => ServingInv
<1> SUFFICES ASSUME Init PROVE ServingInv
    OBVIOUS
<1>1. Main \in Callers /\ pc[Main] = "release" /\ \A w \in Callers : w # Main => pc[w] = "idle"
    BY DEF Init, Callers
<1>2. OneCaller /\ \A w \in Callers : Alone(w) => w = Main
    BY <1>1 DEF OneCaller, Alone
<1>3. \A p \in Pointers : p # Null
    BY DEF Pointers, Null
<1>4. PointersTell(Main)
    BY <1>1, <1>3 DEF Init, PointersTell
<1>5. Progress(Main)
    BY <1>1 DEF Init, Progress, Releasing
<1>6. Settled(Main)
    BY <1>1 DEF Init, Settled
<1> QED
    BY <1>2, <1>4, <1>5, <1>6 DEF ServingInv

LEMMA DieServing == Die => ServingInv'
<1> SUFFICES ASSUME Die PROVE ServingInv'
    OBVIOUS
<1>1. Main \in Callers /\ pc'[Main] = "release" /\ \A w \in Callers : w # Main => pc'[w] = "idle"
    BY DEF Die, Fresh, Callers
<1>2. Alone(Main)'
    BY <1>1 DEF Alone
<1>3. \A p \in Pointers : p # Null
    BY DEF Pointers, Null
<1>4. (line = [s \in Slots |-> Null])' /\ requested' = {} /\ chip' = Nil /\ open' = {} /\ ~gpioOk'
    BY DEF Die
<1>5. PointersTell(Main)'
    BY <1>1, <1>4, EmptyTells
<1>6. Progress(Main)'
    BY <1>1, <1>4 DEF Die, Fresh, Progress, Releasing
<1>7. Settled(Main)'
    BY <1>1 DEF Die, Fresh, Settled
<1> QED
    BY <1>1, <1>2, <1>5, <1>6, <1>7, Concluded

\* Steps of others.
LEMMA OthersKeep ==
    ASSUME ServingInv, UNCHANGED <<settings, driver, caller>>
    PROVE  ServingInv'
BY DEF ServingInv, OneCaller, Alone, PointersTell, Progress, Settled, HoldsAll, HoldsNothing, Wired,
       settings, driver, caller

LEMMA NextServing == OneWorker /\ TypeOK /\ ServingInv /\ [Next]_vars => ServingInv'
<1> SUFFICES ASSUME OneWorker, TypeOK, ServingInv, [Next]_vars PROVE ServingInv'
    OBVIOUS
<1>1. ASSUME NEW w \in Callers, CallStep(w) PROVE ServingInv'
    BY <1>1, CallStepKeeps
<1>2. ASSUME NEW w \in Workers, NEW b \in Posts, BeginPost(w, b) PROVE ServingInv'
    BY <1>2, BeginPostKeeps
<1>3. CASE ScanStep
    BY <1>3, OthersKeep DEF ScanStep, Test, ReadInput, Get, ReadOutput, Put
<1>4. ASSUME NEW c \in Forced, NEW v \in BOOLEAN, ForceCoil(c, v) PROVE ServingInv'
    BY <1>4, OthersKeep DEF ForceCoil
<1>5. CASE Kill \/ Fault
    BY <1>5, DieServing DEF Kill, Fault
<1>6. CASE Restart
    BY <1>6, OthersKeep DEF Restart
<1>7. CASE UNCHANGED vars
    BY <1>7, OthersKeep DEF vars
<1> QED
    BY <1>1, <1>2, <1>3, <1>4, <1>5, <1>6, <1>7 DEF Next

THEOREM Serving == OneWorker /\ Spec => []ServingInv
<1>1. OneWorker /\ TypeOK /\ ServingInv /\ [Next]_vars => ServingInv'
    BY NextServing
<1>2. CASE ~OneWorker
    BY <1>2
<1>3. CASE OneWorker
    BY <1>1, <1>3, InitServing, Types, PTL DEF Spec
<1> QED
    BY <1>2, <1>3

\* With one worker at a time in POST /api/config, between requests either all
\* lines of the settings are held or none is.
THEOREM LinesAllOrNothing == OneWorker /\ Spec => []AllOrNothing
<1>1. ServingInv => AllOrNothing
    <2>1. SUFFICES ASSUME ServingInv, AtRest PROVE HoldsAll \/ HoldsNothing
        BY DEF AllOrNothing
    <2>2. Main \in Callers /\ pc[Main] = "idle" /\ Progress(Main)
        BY <2>1 DEF AtRest, ServingInv, Alone, Callers
    <2> QED
        BY <2>2 DEF Progress, Releasing
<1> QED
    BY <1>1, Serving, PTL

\* Under the same condition the settings in force are those the next start
\* loads, unless the last save failed.
THEOREM SavedSettingsRun == OneWorker /\ Spec => []SavedIsRunning
<1>1. ServingInv => SavedIsRunning
    <2>1. SUFFICES ASSUME ServingInv, AtRest
                   PROVE  period = cfg.scan /\ (~lost => Loaded(file) = cfg)
        BY DEF SavedIsRunning
    <2>2. Main \in Callers /\ pc[Main] = "idle" /\ Settled(Main)
        BY <2>1 DEF AtRest, ServingInv, Alone, Callers
    <2> QED
        BY <2>2 DEF Settled
<1> QED
    BY <1>1, Serving, PTL
=============================================================================
