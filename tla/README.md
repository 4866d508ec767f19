# MiniPLC: a TLA+ model of the controller

MiniPLC turns a Raspberry Pi class board into a small PLC. Two daemons run on
the device and meet in a shared-memory register pool:

* the **firmware** (`plc-firmware-src`): a scan thread that executes a ladder
  program every few milliseconds, and an HTTP server (civetweb, four workers)
  through which programs are uploaded, applied, started and stopped, outputs
  forced, settings changed and registers read;
* the **HMI** (`miniplc-hmi`): an LVGL program that polls a Modbus TCP slave,
  shows system values, mirrors both into the pool and edits the network settings,
  which a script applies in the background.

A browser UI polls the HTTP server. This directory models the parts in which
these actors share state. Paths below are relative to
`src/meta-miniplc/recipes-miniplc/`.

## Inventory

| Component | State | Operations | Meets | What is hard | What makes it correct |
|---|---|---|---|---|---|
| Register pool (`libmdcu-pool/files/mdcu_pool.c`) | `seq`, `regs` in `/dev/shm` | u16, u32, u64, f32/f64 and block accessors; bits and bytes by fetch-and-or and compare-and-swap | written by the HMI, read by the firmware's REST workers | lock-free readers, crash inside a write, a second writer, mixed widths on one word | no torn value, no lost bit, accessors return |
| Opening the pool (`mdcu_pool_open`) | segment size, header | open, first-time initialisation | both daemons, at boot and after every restart | two first opens at once, kill half-way, left-over layout | one valid header, no wipe of a pool in use |
| Ladder VM (`ladder/ladder_vm.c`) | `g_instr`, `g_instr_count`, `g_loaded`, the stack | clear, load, scan | scan thread scans, REST workers load; no lock | load under a scan | stays in bounds; a scan means what the diagram means |
| Scan engine (`core/plc_engine.c`) | `g_logic_run`, `g_scan_alive`, thread, statistics | start, stop, cycle, end | VM, GPIO, register map, signal handler | stop or load between decision and scan | every cycle ends, outputs follow coils |
| Register map (`core/register_map.c`) | coils, discrete inputs, holding and input registers under a mutex | single and block accessors | scan thread, REST workers | blocks are copied word by word | a block is of one instant; ranges are checked |
| GPIO driver (`io/gpio_gpiod.c`) | chip, lines, `gpio_ok` | init, shutdown, sample, apply | scan thread; POST /api/config re-initialises | lines released under the scan, requests that fail half-way | all lines held or none; outputs come back |
| Project store (`project/project_store.c`) | upload zip, staging directory, `program.bin` | apply, load at boot | REST workers, VM, file system | power loss, full card, upload during apply | what runs is what boots |
| REST API (`api/rest_api.c`) | `g_http` | handlers for status, control, I/O, registers, configuration, upload, apply, pool | everything above | four workers run them at once | requests are answered |
| Main (`plc_main.c`) | `g_quit` | start, signal handler, wait, join | engine, HTTP server | signal before `pause`, before `g_http` is set, inside a request | the daemon ends, drained |
| Device configuration (`config/device_config.c`) | `/etc/plc/config.json`, running copy | load, save | REST workers, GPIO | malformed lists, failing saves | what is saved is what runs |
| Plugin manager (`plugin/`) | one counter | init, shutdown | nothing | | |
| Modbus master (`miniplc-hmi/files/modbus.c`) | settings, one libmodbus context | load settings, connect, poll, drop | HMI loop, pool, slave | failures at each call, retries, mirror offsets | one context; the mirror tells addresses; polling comes back |
| HMI loop (`menu.c`, `main.c`) | tab on display, poll time, heartbeat | tick, refresh one tab, switch tabs | Modbus master, pool | only the tab on display is refreshed | the heartbeat goes on |
| Theme (`menu.c`) | `theme_dark`, `THEME_FILE`, a pending rebuild | toggle, save, rebuild the screen | the dialog below | the rebuild deletes open dialogs | no pointer to a deleted object; no restart brings the light theme for the dark one |
| Network settings (`menu.c`, `mdcu-net-apply`) | `network.conf`, interfaces file, `resolv.conf`, interfaces | save, apply in the background and at boot | ifdown/ifup | overlapping applies, kill or power loss in a save | the file is whole; what is saved is applied |
| Web UI (`web/src`) | per-page poll | poll, unmount | REST API | late answers | one request in flight |

The remaining directories (recipes, host scripts, LVGL configuration, artwork,
page layout) keep no state that another part uses. The hazards found in each
part, each at its line, are in `PROJECT.json`.

## Modules

| Module | Models | Kind |
|---|---|---|
| `AtomicPool` | what the pool promises: a value is stored in one step, a read sees one image | abstract specification |
| `RegPool`, `MCRegPool`, `Pool_proofs` | the seqlock | implements `AtomicPool` |
| `AtomicWord` | what the accessors of one register promise: a bit, a byte or a word is read and replaced in one step | abstract specification |
| `SubWord`, `MCSubWord`, `Pool_proofs` | those accessors, per atomic access | implements `AtomicWord` |
| `PoolOpen`, `MCPoolOpen`, `PoolOpen_proofs` | `mdcu_pool_open` in several processes | |
| `LadderOps` | the instructions of the VM, as operators | shared by the next two |
| `LadderScan`, `MCLadderScan`, `Programs_proofs` | one scan against the meaning of the ladder diagram | reference definition |
| `PlcRuntime`, `MCPlcRuntime`, `PlcRuntime_proofs` | scan thread, program loads and operators, interleaved | composes engine, VM, GPIO |
| `ProjectStore`, `MCProjectStore`, `Programs_proofs` | upload, apply, install, boot, power loss | |
| `DeviceConfig` | what loading makes of a settings file, and what saving puts into it | operators |
| `GpioLines`, `MCGpioLines`, `GpioLines_proofs` | POST /api/config and the lines under the scan thread | composes REST, settings, GPIO driver, engine |
| `RestServer`, `MCRestServer`, `RestServer_proofs` | workers at the register map, main, signal handler and scan thread, from start to exit | composes REST, register map, main, engine |
| `ModbusMaster`, `MCModbusMaster`, `ModbusMaster_proofs` | the HMI thread as a Modbus master, with the loop that drives it | composes HMI loop, Modbus master, pool |
| `NetSettings`, `MCNetSettings`, `NetSettings_proofs` | theme, network dialog, `network.conf` and the scripts that apply it | composes HMI, script, interfaces |

Operators and actions whose comment begins with "Mutant of" are not part of any
specification: each is a definition with a plausible bug in it, kept to see
that the property it is aimed at notices.

### RegPool

`seq` and `regs` are the fields of `mdcu_shm_t`. Every atomic access in the C
code is an action: the bumps of `seq_begin_write` and `seq_end_write`
(`BeginWrite`, `EndWrite`), every store (`StoreWord`) and load (`LoadWord`) of
a word, the load of `seq` that starts a read (`Spin`, `BeginRead`) and the one
that accepts or repeats it (`Return`, `Retry`). The accesses inside a critical
section are relaxed, so they happen in any order. Memory is otherwise
sequentially consistent: the target has one core (ARM1176).

A register holds the *number of the write* that stored it. All words of one
multi-word value carry one number, so a torn value is two numbers in a cell,
and nothing else about the payload matters. `seq` is not wrapped at 2^32: a
reader would have to sleep for exactly 2^31 writes.

`Crash` is `stop` or `restart` of the init script (SIGKILL after its retry
period) between the two bumps. `image` and `rout` are history: the registers as
of the last completed write, and what a read handed out.

### AtomicWord and SubWord

A register is a function from bits to 0 and 1. `AtomicWord` has one action per
call that reads or replaces the bits the call is about (`Field`) and leaves the
others. `SubWord` has the accesses of the code: one load (`Load`), one
fetch-and-or or fetch-and-and (`SetBit`), one store (`SetU16`), and for a byte
the load before the loop (`LoadOld`) and the weak compare-and-swap that takes
place (`Swap`) or does not and loads again (`Miss`, also for no reason at all).
`Refuse` is the range checks. A call takes effect at one instant although bits,
bytes and words of one register are set by different instructions.

### PoolOpen

One action per system call or store of `mdcu_pool_open`. `magic` and `version`
say whether the header has the right value. The segment is absent at power-on,
or left behind by software with another version. `BeginSet` and `EndSet` are a
setter in the HMI, so that an initialisation that comes late has something to
wipe. `Fail` is a failing shm_open, fstat, ftruncate or mmap; both callers then
go on without a pool. `clash` is history: an open began while another was under
way. Without one no value is ever wiped (`SetValueStays`), whoever is killed
where.

### LadderOps and LadderScan

`Push`, `Top` and `Drop` are the bounded stack (a push on a full one is
dropped, a pop of an empty one is FALSE). `StackAfter` and `CoilsAfter` are the
switch of `ladder_vm_execute_scan`: AND and OR take both operands from the
stack, AND_NOT and OR_NOT one of them from memory. `LadderScan` compiles a
ladder diagram (parallel branches of contacts in series, closed into a coil)
into these instructions (`Program`, kept in `code` as in `g_instr`), executes the
scan one instruction a step and compares it with the meaning read off the
drawing (`Meaning`). The compiler is not in the repository; the translation is
the one the opcodes suggest, and what is shown is that the VM's instructions
suffice for it, on a stack of three values. The program of a diagram is put
together with `FlattenSeq`, its meaning is a recursive function over the rungs.

### PlcRuntime

The scan thread goes through `Sample`, `Decide`, `Enter`, then `Test` (the loop
condition), `Fetch` (the opcode) and `Operate` (the operands) per instruction, `Apply` per output channel, `Sleep`. A loading
worker goes through the stores of `ladder_vm_clear_program` and
`ladder_vm_load_blob` in program order: `Unload`, `Uncount`, `Wipe` per slot,
then `Reject`, or `Accept` followed by `CopyOpcode` and `CopyOperands` per
instruction, `SetCount`, `SetLoaded`. `clash` is history: two loads overlapped,
and none has emptied the memory by itself since. The program memory has no lock, and the
scan reads the opcode of a slot and its operands at different times, so all of
these interleave. Register accesses are single steps: each takes the mutex.
`Start`, `Stop` and `ForceCoil` are the handlers of the same purpose.

`Init` covers a start without a persisted program and with each one that may
have been loaded, because it is loaded before the thread starts. Instructions
are copied slot by slot in ascending order, the opcode and the operands each in
one step: the order inside `memcpy` and operands torn byte by byte are left out.
So are the statistics of the engine and a GPIO driver that failed to initialise
(`GpioLines` has that).

### ProjectStore

`zip`, `staged` and `program` are the files of `core/paths.h`; `card` is
`program.bin` on the medium, to which the kernel writes back whenever it likes
(`WriteBack`) and completely on `sync()`. A file is a few chunks, a chunk holds
the project it came from. `Content` is what unzip and the CRC of the VM make of
a file: one whole project, or none; the CRCs are taken to catch every mixture.
Upload and apply handlers run as actions per file operation, so uploads overlap
each other and an apply, and a zip may be missing, cut off, or removed by a
failing write. `unzip` and `read_file_alloc` are single steps (the latter may fail, for want of
memory, and then leaves the VM as it is); what a failing
unzip leaves in the staging directory is not modelled, the next apply wipes it.
A project may have pages and no ladder program, which installs nothing.
`CopyFails` and `CloseFails` are a full card noticed by `fwrite` (-EIO) and
unnoticed by `fclose` (`project_store.c` ignores its result, so apply returns 0
with a short `program.bin`); `failed` remembers that either happened, and
`RunsWhatBoots` is stated for projects installed without such a failure. Memory
of the daemon is lost by `Restart`, files in `/tmp` and unsynced chunks by
`Outage`.

### DeviceConfig and GpioLines

`Loaded` is `device_config_load_file`: a list that is malformed brings *all*
defaults back, also what was read before it, and what follows is read still
(`WithLists`); a period out of range is ignored (`WithScan`). A setting a file
lacks is `Nil`; a file that is absent, empty or not JSON is `NoFile`.

In `GpioLines` the callers of the driver are main, once at start, and the
workers that handle POST /api/config. A caller goes through the stores of
`release_lines` (`Release`, `Clear` per line, `Close`, `Unchip`), of
`gpio_gpiod_shutdown` (`Down`) and of `gpio_gpiod_init` (`OpenChip`, `Request`
and `Keep` per line, `SetOk`; `RequestFails` goes back to `Release`). The
handler calls shutdown and then init, which calls shutdown itself, so lines are
released twice; `then` says what follows a release. Around this are the stores
of the handler into the running configuration (`SetScan`, `SetPeriod`, `Set`)
and the save (`Save`, `Truncate`, `Write`, `SaveFails`). The scan thread tests
`gpio_ok` (`Test`), then reads one pointer (`ReadInput`, `ReadOutput`) and uses
it (`Get`, `Put`) per channel. Nothing here has a lock.

libgpiod is external: `requested` and `open` are its lines and chips. A pointer
is the pair of the handle under which the chip was opened and the line number,
so a pointer into a chip that was closed is told from a new one to the same
line. Using a NULL pointer kills the process; using a freed one either kills it
(`Fault`) or is answered with an error (`Get`, `Put`). Freed
memory that is reused for another line is not modelled. `Kill` and `Restart`
are the init script, or the supervisor after a fault; the settings file is all
that stays. The power is not lost: what the page cache holds is written.

### RestServer

A worker takes a request (`Take`: the clamp of a GET's count, the cut of a
POST's arrays), enters a block accessor (`Lock`, or `Skip` when
`valid_range_u16` refuses), copies word by word in any order (`Copy`), unlocks,
goes on from the holding registers of a POST to its coils (`GoOn`) and replies.
The scan thread stores single coils under the same mutex (`ScanSets`). A
register holds the number of the POST that stored it; `sizes` remembers how far
each POST reaches, so `BlockIsSnapshot` can tell a block that mixes two instants
from one in which a short POST overwrote part of a long one. A GET beyond the
map copies nothing, and what it reports is `Junk`, the uninitialised array.

main goes through `Create` (the scan thread), `Serve` (`mg_start`), `Assign`
(`g_http = ctx`), `Test`, `Pause` and `Join`, and can be interrupted by
`on_signal` at each of these places: `Handle` sets `g_quit` and tells the server
to end, `Stopped` is the return of `mg_stop` once every worker is idle, `Engine`
clears `g_scan_alive`. civetweb is external: it takes requests while its state
is "up" and waits for its workers in `mg_stop`. A signal between `Test` and
`Pause` is lost until the next one; a signal between `Serve` and `Assign` finds
no server to stop (`early`).

### ModbusMaster

One thread: `pc` is the call into libmodbus it is about to make. `Start` is
`mb_init` and what `menu_create` does with an enabled master, `NewTcp`,
`SetSlave`, `OpenLink` the three calls of `mb_connect` with their early returns,
`Read` and `ReadFails` the two ends of `mb_read_registers`, of which
`protocols_update` shows the result (`Show`); `Overview` (with `SetBeat`, the store
of the heartbeat it has read), `Protocols` and `OtherTab` are the refresh of the tab on display once a second
has passed (`Second`), `SwitchTab` is a callback from `lv_timer_handler`.
`contexts` counts libmodbus contexts allocated and not freed, next to
`modbus_ctx` (`ctx`) and `connected`, which the code keeps apart. A register of
the pool holds the address at the slave of the word mirrored into it. `SlaveDown`
and `SlaveUp` are the other side of the connection, `Restart` the init script.
The store of a block into the pool is one step: `RegPool` has its words. A change
of theme, which builds the tiles anew, is left to `NetSettings`.

### NetSettings

The HMI half runs callbacks of LVGL one at a time. A pointer is the number of
the dialog it refers to and 0 is NULL, `windows` and `boards` are the objects
that exist, so a pointer to a deleted object is a number outside them. The
pointers to the fields of the dialog, which are read only while it exists, are
left out. `theme_toggle_event_cb` is `Toggle` (the palette, and the file emptied
by `fopen`) and `SaveTheme` (the write, which may come short, and
`lv_async_call`), or `ToggleRefused` where `fopen` fails; `ui_rebuild` is `Forget`
and `Rebuild`. `themeLost` remembers whether the last write of the theme was
refused or cut short, by a kill between the two calls as well.

Saving goes from `PressSave` call by call: `OpenTmp` empties the temporary file,
`WriteTmp` fills it, whole or short (`Cuts`: what the readers make of a file cut
short, whose writer ignores the results of `fprintf` and `fclose`; `lost`
remembers it), `Rename` moves it over `network.conf`, `Spawn` starts the script,
or `SpawnFails`; `SaveFails` is a failing `fopen` or `rename`. The HMI may be
killed between any two of them. Nothing is synced, so `past` holds every
`network.conf` there has been since power-on, and `Outage` brings any of them
back. rename is taken to leave the old file or the new one with its data, as ext4
does by default for a file renamed over another.

The other half is `mdcu-net-apply`, one action per command, in as many processes
as there were saves, and one at boot (script 0, which S05 runs to its end before
S91 starts the HMI; it meets no save). `mktemp` is on `/tmp`, so the `mv` of the
interfaces file is a copy (`Copy`, `Copied`), and copies that overlap leave a
mixture (`Part`). `GiveUp` is `set -e`: reading, mktemp, writing or moving fails and
the script ends where it is, with the interfaces file cut or whole and nothing
restarted. ifdown and ifup are external: ifdown may refuse what the file does not
name, an interface that is up stays as it is, and one that is absent, or static
without an address, does not come up (`Runs`, `Upped`); the dialog accepts both
(`Choices` may hold any static configuration, the address read only in static
mode). `stale` says that `network.conf` has not been copied to the interfaces file
undisturbed: a rename makes it stale, and so does a copy that meets another, that
has sourced an older file, or that is given up; the next copy that begins alone
with the present `network.conf` ends it. Interfaces may be restarted by any number
of scripts meanwhile. `Kill` ends the HMI and leaves the scripts; `Outage` empties
`/tmp`, takes the interfaces down, may cut the interfaces file and runs script 0.

## Runs

| Run | Instance | Shows |
|---|---|---|
| `pool` | one writer (u32, u16 and a block), one reader, two writes per cell | `UntornReads`, `SeqlockInv` and `ImplementsAtomicPool`; under fairness `ReadsReturn` |
| `pool_crash` | two writers, one write per cell, two kills | `AcceptWindow`: a read is accepted exactly while an even number of writes is unfinished |
| `subword` | two threads, three calls out of eleven on one register of two bytes of two bits | `ImplementsAtomicWord`; under fairness `AccessorsReturn` |
| `open` | two processes, two kills, two writes, segment absent or of another version | `MappedIsBacked`, `AllOpenMeansReady`, `SetValueStays`; under fairness `OpensReturn` |
| `ladder_scan` | all rungs with up to two branches of up to two contacts over 4 contacts, one with three branches, and two-rung diagrams with a seal-in | `ScanMeansDiagram`, `ScanIsBalanced` from every state of 2 inputs and 2 coils |
| `runtime` | two programs and the empty one, 3 slots, stack of 1, one loading worker | `VmInBounds`, `LoadedIsWhole`; under fairness `ScanEnds`, `CoilsReachTerminals` |
| `runtime_swapped` | the same | `OthersKeep` **fails** |
| `store` | two good projects, one rejected and one with pages only, two uploaders, one applier, 3 uploads, 2 applies, 2 outages, full card | `OnlyValidInstalled`, `RunsWhatBoots`, `AppliedSurvives` |
| `gpio` | one channel on two lines of one chip, one worker, four requests: exchange the lines, give one line twice, put it right, a period out of range; a first file with an empty list and a bad period | `AllOrNothing`, `ServingInv`, `SavedIsRunning`; under fairness `OutputsRecover` |
| `restserver` | two workers, two registers, two requests out of five (inside the map, across its end, without a count; a POST of one word, and one of too many), two signals | `BlockIsSnapshot`, `JunkOnlyBeyond`, `DrainedExit`; under fairness `RequestsAnswered`, `QuitEnds`, `WakeEnds` |
| `modbus` | a pool of ten registers, a slot of six, a slave of eight, eight settings (in place, too long, past the slot, beyond the pool, beyond the slave, two that never connect, none), two outages, one restart | `LinkInv`, `MirrorPlaced`; under fairness `SlavePolled`, `HeartbeatGoesOn` |
| `netsettings` | two interfaces, DHCP and three static configurations, one of them without an address; four acts of the user (toggles, dialogs, saves; two saves at most); two faults (kills, power losses, failing calls) | `PointersTell`, `LookKept`, `ConfWhole`, `SettledIsSaved`; under fairness `SavedIsApplied` |

`store` also checks the type invariant of its module. Those of the other modules
(`TypeOK`) are proved for every instance, see below, and no run repeats that;
the same goes for the inductive invariants behind the other theorems. CHECK_DEADLOCK is FALSE in `subword`,
`netsettings` and `restserver`: their calls and requests are bounded, and the
firmware really ends.

**Why the bounds are enough.** In `pool` a reader has to meet the end of one
write and the beginning of another, and to retry more than once: two writes of
every cell give six writes around one read. Its ranges cut a value in two and
span two of them, as a block read of the REST API may; single-word registers
lie between. A second reader adds nothing: readers write nothing. In `subword`
three calls let the compare-and-swap loop of one thread miss twice, and two bits
a byte tell a lost bit from a lost byte. In `open` two processes are all there
are; two kills let either die twice or both once. In `runtime` a stack of one
overflows at the second push of `Deep`, three slots let a load stand before, at
and behind the slot the scan is at, and the empty program lets a load only
clear. In `store` three uploads let one overtake another and an apply. Two
chunks tell whole files from partial ones. In `gpio` a single channel has an
input and an output, so a request can fail with nothing held and with one line
held, and the two lists can collide; one pointer can be stale at a time (the
scan thread's), so two handles never run out. More channels and chips are
covered by the theorems, two workers at once are not. In `restserver` two
workers are at the mutex at once, and two words are the shortest block that can
be torn; the second signal ends a daemon that lost the first. In `modbus` the
pool is short enough for a block to be refused, the slave for a read to be, and
the heartbeat wraps after three beats. In `netsettings`
four acts are a toggle, a dialog and two saves in any order, so a rebuild can
come at any place of the dialog and two scripts can overlap at any two of their
commands; with two faults either script can fail under the other, or the power be
lost after a kill. An interface that is absent is left to the theorem, as are two
loading workers of `runtime`, which square its states. The
theorems lift these bounds.

**Fairness.** `RegPool`: a call that has begun is carried on; nobody is obliged
to begin one. That writes are finite stands for the pause between the ticks of
the HMI: a reader that restarts finds a quiet moment. `SubWord`: a thread in a
call runs, and an exchange that could succeed is not refused for ever; calls are
finite, so a loop is not overtaken for ever either. `PoolOpen`: an open that has
begun is carried on. `PlcRuntime`: the scan thread is always runnable, and a
handler that was entered returns (its steps wait for nobody but the mutex, held
for one access). `GpioLines`: main, a handler that was entered and the scan
thread are carried on, and the use of a NULL pointer ends the process.
`RestServer`: main, the signal handler, each worker in a request, and the end of
the scan thread once `g_scan_alive` is clear. Requests are finite, which keeps a
worker from waiting for the mutex for ever; the mutex of the C library gives no
such promise by itself. `ModbusMaster`: the thread runs and the clock goes on;
the slave need not come back and nobody has to touch the panel. `NetSettings`:
a callback and a script that have begun are carried on. Requests, signals, kills,
restarts, starting, stopping, uploading, forcing and saving are never assumed to
happen.

## Disagreements with the documentation

One run shows a disagreement:

* *One full scan of the loaded program* (`ladder_vm.h:24`): a load under a scan
  lets it pair the opcode of one program with the operands of another
  (`runtime_swapped`). It stays in bounds (`ScanStaysInBounds`).

The others were met while reading; the models say under which condition the
property that is meant holds.

* *One writer per range is enough* (`mdcu_pool.h:31-33`): all ranges share one
  counter, and two writers that overlap leave it even in the middle of both. The
  program has one writing process today, for which `pool` and the theorems hold.
* *Writers bump twice* (`mdcu_pool.h:32`): a writer killed after the first bump
  does not. `seq` stays odd and a reader spins until somebody writes; after that
  write `seq` is odd outside writes and even inside them, until another kill
  (`AcceptWindow` in `pool_crash` says when exactly a read is accepted).
* *First-time init, idempotent* (`mdcu_pool.c:85`, `mdcu_pool.h:51`): two first
  opens may both initialise, and the second memset wipes what a setter has
  stored in between. `SetValueStays` holds while opens do not overlap.
* *Install ladder, reload VM, 0 is ok* (`project_store.h:5-6`): with two applies
  at once 0 is returned twice while `program.bin` is not what the VM runs.
  `RunsWhatBoots` is stated for one applier.
* *No-op if GPIO unavailable* (`gpio_gpiod.h:9,12`): `gpio_ok` is tested once
  per cycle and the pointers are used after it; POST /api/config can take the
  lines away in between. `GpioLines` has the use of a line that is gone
  (`Fault`), and `OutputsRecover` says what follows.
* *start_address lands at pool offset 0 of the slot* (`modbus.c:19-22`,
  `modbus.c:132-135`): the code does not do that. The mirror adds `start_addr` to
  the base (`modbus.c:137`), so a start other than 0 moves the block, past the
  slot of 1000 words into that of the next instance and at last beyond the pool,
  where nothing is mirrored. `MirrorPlaced` states what the code does, and `modbus`
  has settings of each kind: the word of address `a` is at offset `a`, whatever
  the start, and is past the slot when the settings reach that far.
* *Heartbeat, bumped every HMI tick* (`mdcu_regmap.h:49`): it is bumped while
  the Overview tab is on display only; `HeartbeatGoesOn` is stated for that.
* *Write /etc/network/interfaces atomically* (`mdcu-net-apply:42`): the temporary
  file is in `/tmp`, so `mv` copies, and a script that gives up or meets another in
  the copy leaves a cut or mixed file. `SettledIsSaved` is stated for copies that
  nothing disturbed.
* *Atomic-ish write: tmp + rename* (`menu.c:1224`): the results of the writes are
  not looked at, so a short temporary file is renamed all the same. `ConfWhole`
  excuses that case alone (`lost`).

## Proofs

All of them hold for every value of the constants under the assumptions the
modules state.

`Pool_proofs` about `RegPool` (for any sets of registers, values, ranges and
readers):

* `TypeCorrect`: types, for any number of writers and crashes.
* `SeqlockCorrect`, `NoTornRead`, `SeqlockImplementsAtomicPool`: under
  `OneWriterProcess` and `NoCrash`, the conditions the code needs.
  `UntornReads` is not inductive: it speaks of results, not of how they came
  about. `SeqlockInv` adds that `seq` is odd exactly during a write, that
  outside the cell being written the registers are the committed image, that
  stored words carry the new number, and that a buffer whose `seq` is still
  current agrees with the image. Return then hands out an image, which is the
  step `Get` of `AtomicPool`; `EndWrite` is `Put`; all others stutter.
* `WindowCorrect`, for any number of writers, killed or not. `AcceptWindow`
  speaks of the moments a read is accepted; `WindowInv` says why: `seq` has the
  parity of the writes begun and never finished (the writers that store now, a
  finite set, and the crashes), and a read that loads began at an even `seq`.

`Pool_proofs` about `SubWord` (for any threads, registers and byte widths):

* `WordTypeCorrect`, which also says that the loop is entered for bytes that
  exist.
* `WordImplementsAtomic`: the refinement. `Load` is `Get`; `SetBit`, `SetU16` and
  `Swap` are `Set`, the last because the register still holds the value the
  other half was taken from; `LoadOld` and `Miss` stutter.

`PoolOpen_proofs` (for any number of processes, writes and kills):

* `TypeCorrect`; `MappedMemoryIsBacked`, from `Backed`: the segment has its full
  size from the place before mmap on.
* `OpenPoolIsReady`, from `HeaderComes`: while magic or version is wrong, some
  process has yet to pass the stores that put it right.
* `ValuesStay`, from `Kept`: without a clash at most one process is opening
  (`OneOpens`), a process that is to initialise finds a header that is not valid
  (`InitialisedBy`), and nothing is stored before a header is.

`PlcRuntime_proofs` (for any programs, sizes and channels):

* `Types` and `ScanStaysInBounds`, for any number of loading workers: the stack
  is within its depth and the slot being executed within the program memory,
  because `g_instr_count` never exceeds the array. No lock is needed for that.
* `LoadedProgramIsWhole`, for any number of loading workers too: they may leave a
  mixture under `g_loaded`, and it stays until a load empties the memory alone;
  from then on, while no second load begins, what is loaded is one whole program.
  `LoadInv` is the strengthening: a load without a clash is the only one, from
  `Unload` to `SetLoaded` nothing is loaded, and the slots before the one being
  copied are those of the blob, whatever was in them.

`GpioLines_proofs` (for any number of channels, any chips, lines, requests):

* `Types`, for any number of workers.
* `Serving`, `LinesAllOrNothing` and `SavedSettingsRun`, under `OneWorker`.
  `AllOrNothing` speaks of the moments between requests only. `ServingInv` says
  what holds at every step: one caller at a time (`OneCaller`); the lines
  requested are those the pointers name, but for the one in hand
  (`PointersTell`); how many lines are given back, or requested, at each place
  of the caller (`Progress`); and where its settings are (`Settled`). The scan
  thread may interfere anywhere, fault and restart included: it changes none of
  this. Two workers break `OneCaller`, and with it all of it.

`RestServer_proofs` (for any workers, registers, requests and signals):

* `TypeCorrect`; `JunkIsBeyond`, from `Tmp`: the words in the buffer of a GET
  are uninitialised exactly when its block was refused.
* `ExitIsDrained`, from `Stages`: how far main, handler, server and scan thread
  may be apart. Workers are in a request only while the server is up or stopping,
  and once `g_quit` is set the handler is in `mg_stop` or `g_http` is NULL again.
* `BlocksAreSnapshots`. The property compares words a worker has handed out; the
  invariant has to say why they agree. `Locked`: copying is done by the holder
  of the mutex. `Numbers`: every register carries a POST that was taken, and
  every POST in work has a number and a size of its own. `Posts`: while nobody
  copies into the holding registers, their words agree; while a POST does, the
  ones it has not written agree, and the ones it has carry its number. `Gets`:
  what a reader has copied is what the registers hold now, because it has the
  mutex; what it has reported goes on to agree.

`ModbusMaster_proofs` (for any settings, sizes, outages and restarts):

* `TypeCorrect`; `OneContext`: `LinkInv` is inductive as it stands, because it
  says at which places `connected` and `modbus_ctx` may differ.
* `MirrorIsPlaced`, from `Polling`: a thread on its way to a poll, or with a
  connection, works on settings that were loaded and are enabled.

`NetSettings_proofs` (for any interfaces, configurations, dialogs, saves, kills):

* `TypeCorrect`: a file cut short is still read as a configuration.
* `PointersAreRight`, from `Pointers`: while the screen is cleaned all pointers
  are NULL, and the keyboard is that of the dialog or NULL.
* `ThemeIsKept`, from `Look`: while `theme_save` is at work its file is empty, which
  reads as dark; and inside a callback of the dialog the screen is up to date
  unless a rebuild is pending.
* `ConfIsWhole`, from `Whole`: through the open and the writes the configuration
  in hand is one a user asked for, and a temporary file about to be renamed is
  that, unless the write came short.
* `SettledIsApplied`, from `Undisturbed`: unless `stale`, the interfaces file is
  `network.conf` or the one script that copies is bringing it there; and the
  interface runs it, or some script has still to take that interface down, or has
  taken it down and has still to bring it up. It is not one script that is
  followed: any that sourced the same interface will do. `Room` keeps the number
  of saves within the scripts there are.

`Programs_proofs` about `ProjectStore` (for any projects, uploaders, sizes of
files, uploads, applies and power losses, with disks that fill up or not):

* `TypeCorrect`, for any number of appliers.
* `RejectedIsNeverInstalled`, `BootsWhatRuns` and `AppliedIsKept`, under
  `OneApply`: TLC shows each of the three broken as soon as `Appliers` has two
  members (see above). The properties speak of whole files and of the moments
  between applies. `StoreInv` says what holds at every step:
  no chunk of `program.bin`, cached or on the card, is of a project the VM
  rejects (`OnlyGood`); from its load on an applier has a project in hand that
  the VM took and runs, and the file it copies is that project, whatever uploads
  do to the zip (`InHand`); how much of it is installed (`Installed`); with
  nobody installing, `program.bin` is what the VM runs (`Rests`); and what was
  answered for is on the card too (`Answered`), so that losing the cache loses
  nothing.

`Programs_proofs` about `LadderScan` (for any diagrams of any length, any
numbers of coils and inputs, any stack of at least three values):

* `ScanComputesDiagram` and `ScanBalances`. `Runs(c, in, s, t)` says that the
  instructions `c` take stack and coils from `s` to `t`. Runs can be joined
  (`RunsJoin`), and those of the pieces of a flattened sequence too
  (`RunsFlatten`). `FirstContact` and `NextContact` give the run of a contact,
  `BranchRuns` that of contacts in series, `FirstBranch` and `NextBranch` those
  of parallel branches with the OR_NOT shortcut, `RungRuns` and `DiagramRuns`
  the rest: a branch leaves the conjunction of its contacts above what was on
  the stack, a rung drives its coil and leaves the stack as it was. It needs
  three values at most, because a contact is loaded above the value of its
  branch, which lies above that of the branches before it. `ScanInv` then says
  that the loop is somewhere on the run of the diagram (`OnTheWay`), and at its
  end when `i` is 0.
* They are inductions over data: over the contacts of a branch, the branches of
  a rung, the rungs of a diagram. Each is an induction over the set of the
  lengths for which the claim holds (`SetInduction`, from the well-foundedness
  of `<` on the naturals), and `JoinsExists` and `AftersExists` show that the
  functions `FlattenSeq` and `Meaning` choose exist.

Model-checked only: liveness under fairness, which is out of the prover's reach.
Every invariant the passing runs check, and both refinements, are theorems.

## Not modelled

* `mdcu_pool_close`, `mb_set_config`, `mb_save_config` and `mb_deinit` have no
  caller. `mdcu_pool_is_open` and the `lmb_` wrappers change no state.
* The plugin manager: main calls only init and shutdown, which set and leave one
  counter; nothing in the firmware loads a plugin.
* The handlers of the REST API that format state as JSON, and the statistics of
  the engine that one of them shows. /api/io reads its terminals one by one,
  each under the mutex, so its answer is of several instants; nothing promises
  more.
* The HMI's widgets, styles and system values, the LVGL configuration and the
  artwork; the Web UI, whose state is that of one page in one browser; recipes,
  host scripts and tests.
* Of the process that is modelled in `RestServer`: the SIGKILL that an init
  script sends five seconds later, a signal before the handlers are installed,
  and the delivery of a signal to a thread other than main, whose handler would
  then wait for itself if that thread is a worker.
* Of `NetSettings`: the content of `resolv.conf`, which DHCP clients write as well;
  a DHCP lease that comes late or is lost; the fallback for a system without
  ifupdown (`mdcu-net-apply:76-79`), which the recipe of the HMI depends on; and the
  run of the script at shutdown.
* The copy of a project's HMI pages, which nothing reads back; what a failing
  unzip leaves behind; freed memory that is reused for another line; the width
  of `seq` (a reader would have to sleep for 2^31 writes).
