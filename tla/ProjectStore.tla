---------------------------- MODULE ProjectStore ----------------------------
(***************************************************************************)
(* From an uploaded project to the program that boots: the upload and      *)
(* apply handlers of rest_api.c and project_store.c, with the files they   *)
(* share.  civetweb runs them on four workers and nothing locks the files. *)
(*                                                                         *)
(* A file is a few chunks; a chunk holds the project it came from, or Nil  *)
(* when it was truncated, cut off or never written.  The zip and the       *)
(* staged ladder.plcbin are files in /tmp and go with the power; the       *)
(* persisted program.bin is written through the page cache to the card.    *)
(***************************************************************************)
EXTENDS Naturals, FiniteSets

CONSTANTS
    Projects,   \* the projects users upload
    Invalid,    \* those whose ladder.plcbin the VM rejects
    Bare,       \* those that have no ladder.plcbin
    Nil,        \* no project
    NChunks,    \* the pieces a file is written in
    Uploaders,  \* workers in POST /api/project/upload
    Appliers,   \* workers in POST /api/project/apply
    DiskFills,  \* TRUE: writing a file may fail
    MaxUploads, \* bound: uploads
    MaxApplies, \* bound: applies
    MaxOutages  \* bound: power losses

ASSUME StoreAssumption ==
    /\ Invalid \subseteq Projects
    /\ Bare \subseteq Projects \ Invalid
    /\ Nil \notin Projects
    /\ NChunks \in Nat \ {0}
    /\ DiskFills \in BOOLEAN
    /\ MaxUploads \in Nat /\ MaxApplies \in Nat /\ MaxOutages \in Nat

Chunks == 1..NChunks
LastChunk == NChunks
Empty == [k \in Chunks |-> Nil]
Whole(p) == [k \in Chunks |-> p]
Files == [Chunks -> Projects \cup {Nil}]
NoFile == <<>>

\* The projects the VM takes.
Good == Projects \ (Invalid \cup Bare)

\* What a reader makes of a file: the project in it, or Nil when it is not
\* one whole file.  The CRCs of zip and .plcbin catch every mixture.
Content(f) == IF \E p \in Projects : f = Whole(p) THEN f[1] ELSE Nil

VARIABLES
    zip,        \* MINIPLC_UPLOAD_ZIP, or NoFile
    staged,     \* ladder.plcbin in MINIPLC_STAGING_DIR
    program,    \* MINIPLC_PROGRAM_BIN as the processes see it
    card,       \* MINIPLC_PROGRAM_BIN as it is on the card
    vm,         \* the program the VM has loaded, Nil if none
    upc,        \* upc[u]: "idle", or the chunk uploader u writes next
    body,       \* body[u]: the project it receives
    linked,     \* the uploaders whose stream still is the file of that name
    apc,        \* apc[a]: where applier a is in project_store_apply_zip
    src,        \* src[a]: the staged file install_file has open
    at,         \* at[a]: the chunk it copies next
    uploads,    \* uploads begun
    applies,    \* applies begun
    outages,    \* power losses and restarts
    loaded,     \* loaded[a]: history, the program a has given to the VM
    answer,     \* history: what the last apply to return 0 had loaded, Nil
                \* from the beginning of the next apply on
    failed      \* history: an error stopped or cut short the last install

files == <<zip, staged, program, card>>
uploader == <<upc, body, linked, uploads>>
applier == <<apc, src, at, applies, loaded>>
history == <<answer, failed>>
vars == <<files, vm, uploader, applier, outages, history>>

\* project_store_load_persisted_program, and the memory of a fresh process.
Boot(f) ==
    /\ vm' = IF Content(f) \in Good THEN Content(f) ELSE Nil
    /\ upc' = [u \in Uploaders |-> 0]
    /\ body' = [u \in Uploaders |-> Nil]
    /\ linked' = {}
    /\ apc' = [a \in Appliers |-> "idle"]
    /\ src' = [a \in Appliers |-> Empty]
    /\ at' = [a \in Appliers |-> 1]
    /\ loaded' = [a \in Appliers |-> Nil]

Init ==
    /\ zip = NoFile /\ staged = Empty /\ program = Empty /\ card = Empty
    /\ vm = Nil
    /\ upc = [u \in Uploaders |-> 0]
    /\ body = [u \in Uploaders |-> Nil]
    /\ linked = {}
    /\ apc = [a \in Appliers |-> "idle"]
    /\ src = [a \in Appliers |-> Empty]
    /\ at = [a \in Appliers |-> 1]
    /\ uploads = 0 /\ applies = 0 /\ outages = 0
    /\ loaded = [a \in Appliers |-> Nil]
    /\ answer = Nil
    /\ failed = FALSE

-----------------------------------------------------------------------------
(* miniplc_save_post_body.                                                  *)

\* fopen(path, "wb") truncates what is there.
BeginUpload(u, p) ==
    /\ upc[u] = 0
    /\ uploads < MaxUploads
    /\ uploads' = uploads + 1
    /\ upc' = [upc EXCEPT ![u] = 1]
    /\ body' = [body EXCEPT ![u] = p]
    /\ zip' = Empty
    /\ linked' = linked \cup {u}
    /\ UNCHANGED <<staged, program, card, vm, applier, outages, history>>

\* Mutant of Receive: one piece more than the body has.
ReceiveOn(u) ==
    /\ upc[u] # 0
    /\ zip' = IF u \in linked THEN [zip EXCEPT ![upc[u]] = body[u]] ELSE zip
    /\ upc' = [upc EXCEPT ![u] = IF upc[u] > LastChunk THEN 0 ELSE @ + 1]
    /\ UNCHANGED <<staged, program, card, vm, body, linked, uploads, applier, outages, history>>

\* A piece of the body is received and written; the last one ends the upload.
Receive(u) ==
    /\ upc[u] # 0
    /\ zip' = IF u \in linked THEN [zip EXCEPT ![upc[u]] = body[u]] ELSE zip
    /\ upc' = [upc EXCEPT ![u] = IF upc[u] = LastChunk THEN 0 ELSE @ + 1]
    /\ UNCHANGED <<staged, program, card, vm, body, linked, uploads, applier, outages, history>>

\* mg_read returns nothing more: the loop breaks and the upload is "ok".
CutOff(u) ==
    /\ upc[u] # 0
    /\ upc' = [upc EXCEPT ![u] = 0]
    /\ UNCHANGED <<files, vm, body, linked, uploads, applier, outages, history>>

\* fwrite finds /tmp full: the file of that name is removed, whosever it is.
ReceiveFails(u) ==
    /\ DiskFills
    /\ upc[u] # 0
    /\ upc' = [upc EXCEPT ![u] = 0]
    /\ zip' = NoFile
    /\ linked' = {}
    /\ UNCHANGED <<staged, program, card, vm, body, uploads, applier, outages, history>>

-----------------------------------------------------------------------------
(* project_store_apply_zip.                                                 *)

Goto(a, from, to) ==
    /\ apc[a] = from
    /\ apc' = [apc EXCEPT ![a] = to]

\* Without a zip the apply ends here (-ENOENT).
BeginApply(a) ==
    /\ Goto(a, "idle", IF zip = NoFile THEN "idle" ELSE "wipe")
    /\ applies < MaxApplies
    /\ applies' = applies + 1
    /\ answer' = Nil
    /\ UNCHANGED <<files, vm, uploader, src, at, loaded, outages, failed>>

\* rm -rf and mkdir -p of the staging directory.
WipeStaging(a) ==
    /\ \E ok \in {TRUE, ~DiskFills} : Goto(a, "wipe", IF ok THEN "unzip" ELSE "idle")
    /\ staged' = Empty
    /\ UNCHANGED <<zip, program, card, vm, uploader, src, at, applies, loaded, outages, history>>

\* unzip: what is not one whole zip fails, and so may any other.
Unzip(a) ==
    /\ \E ok \in {Content(zip) # Nil, Content(zip) # Nil /\ ~DiskFills} :
         /\ Goto(a, "unzip", IF ok THEN "load" ELSE "idle")
         /\ staged' = IF ok /\ Content(zip) \notin Bare THEN zip ELSE staged
    /\ UNCHANGED <<zip, program, card, vm, uploader, src, at, applies, loaded, outages, history>>

\* Mutant of Load: the result of ladder_vm_load_blob is not looked at.
LoadUnchecked(a) ==
    \E read \in {staged # Empty, FALSE} :
        /\ Goto(a, "load", IF read THEN "install" ELSE "idle")
        /\ vm' = IF ~read THEN vm ELSE IF Content(staged) \in Good THEN Content(staged) ELSE Nil
        /\ loaded' = [loaded EXCEPT ![a] = vm']
        /\ UNCHANGED <<files, uploader, src, at, applies, outages, history>>

\* read_file_alloc and ladder_vm_load_blob: no file, and one that cannot be read,
\* leaves the VM alone, a file the VM rejects leaves it without a program.
Load(a) ==
    \E read \in {staged # Empty, FALSE} :
        /\ Goto(a, "load", IF read /\ Content(staged) \in Good THEN "install" ELSE "idle")
        /\ vm' = IF ~read THEN vm ELSE IF Content(staged) \in Good THEN Content(staged) ELSE Nil
        /\ loaded' = [loaded EXCEPT ![a] = vm']
        /\ UNCHANGED <<files, uploader, src, at, applies, outages, history>>

\* install_file opens the staged file, which may be another one by now, and
\* truncates program.bin; -EIO when either cannot be opened.
OpenInstall(a) ==
    /\ \E ok \in {staged # Empty, staged # Empty /\ ~DiskFills} :
         /\ Goto(a, "install", IF ok THEN "copy" ELSE "idle")
         /\ src' = [src EXCEPT ![a] = staged]
         /\ program' = IF ok THEN Empty ELSE program
         /\ failed' = ~ok
    /\ at' = [at EXCEPT ![a] = 1]
    /\ UNCHANGED <<zip, staged, card, vm, uploader, applies, loaded, outages, answer>>

\* Mutant of Copy: the rest that does not fill a buffer is forgotten.
CopyShort(a) ==
    /\ Goto(a, "copy", IF at[a] = LastChunk THEN "sync" ELSE "copy")
    /\ program' = IF at[a] = LastChunk THEN program ELSE [program EXCEPT ![at[a]] = src[a][at[a]]]
    /\ at' = [at EXCEPT ![a] = IF @ = LastChunk THEN 1 ELSE @ + 1]
    /\ UNCHANGED <<zip, staged, card, vm, uploader, src, applies, loaded, outages, history>>

Copy(a) ==
    /\ Goto(a, "copy", IF at[a] = LastChunk THEN "sync" ELSE "copy")
    /\ program' = [program EXCEPT ![at[a]] = src[a][at[a]]]
    /\ at' = [at EXCEPT ![a] = IF @ = LastChunk THEN 1 ELSE @ + 1]
    /\ UNCHANGED <<zip, staged, card, vm, uploader, src, applies, loaded, outages, history>>

\* fwrite finds the card full: -EIO.
CopyFails(a) ==
    /\ DiskFills
    /\ Goto(a, "copy", "idle")
    /\ at' = [at EXCEPT ![a] = 1]
    /\ failed' = TRUE
    /\ UNCHANGED <<files, vm, uploader, src, applies, loaded, outages, answer>>

\* fclose, which writes what is left in the buffer, finds it full; nobody
\* looks at its result.
CloseFails(a) ==
    /\ DiskFills
    /\ at[a] = LastChunk
    /\ Goto(a, "copy", "sync")
    /\ at' = [at EXCEPT ![a] = 1]
    /\ failed' = TRUE
    /\ UNCHANGED <<files, vm, uploader, src, applies, loaded, outages, answer>>

\* Mutant of Sync: the answer does not wait for the card.
ReturnUnsynced(a) ==
    /\ Goto(a, "sync", "idle")
    /\ answer' = loaded[a]
    /\ UNCHANGED <<files, vm, uploader, src, at, applies, loaded, outages, failed>>

\* sync(); 0 is returned and the logic started.
Sync(a) ==
    /\ Goto(a, "sync", "idle")
    /\ card' = program
    /\ answer' = loaded[a]
    /\ UNCHANGED <<zip, staged, program, vm, uploader, src, at, applies, loaded, outages, failed>>

-----------------------------------------------------------------------------
\* The kernel writes a piece of program.bin back whenever it likes.
WriteBack(k) ==
    /\ card[k] # program[k]
    /\ card' = [card EXCEPT ![k] = program[k]]
    /\ UNCHANGED <<zip, staged, program, vm, uploader, applier, outages, history>>

\* The power fails; the device boots from the card.
Outage ==
    /\ outages < MaxOutages
    /\ outages' = outages + 1
    /\ zip' = NoFile /\ staged' = Empty /\ program' = card
    /\ Boot(card)
    /\ UNCHANGED <<card, uploads, applies, history>>

\* The firmware is killed and started again; its files are all there.
Restart ==
    /\ outages < MaxOutages
    /\ outages' = outages + 1
    /\ Boot(program)
    /\ UNCHANGED <<files, uploads, applies, history>>

\* No request is being served: the firmware waits for the next one.
Rest ==
    /\ \A u \in Uploaders : upc[u] = 0
    /\ \A a \in Appliers : apc[a] = "idle"
    /\ UNCHANGED vars

UploadStep(u) == (\E p \in Projects : BeginUpload(u, p)) \/ Receive(u) \/ CutOff(u) \/ ReceiveFails(u)

ApplyStep(a) ==
    \/ BeginApply(a) \/ WipeStaging(a) \/ Unzip(a) \/ Load(a)
    \/ OpenInstall(a) \/ Copy(a) \/ CopyFails(a) \/ CloseFails(a) \/ Sync(a)

Next ==
    \/ \E u \in Uploaders : UploadStep(u)
    \/ \E a \in Appliers : ApplyStep(a)
    \/ \E k \in Chunks : WriteBack(k)
    \/ Outage
    \/ Restart
    \/ Rest

Spec == Init /\ [][Next]_vars

-----------------------------------------------------------------------------
Idle == \A a \in Appliers : apc[a] = "idle"

TypeOK ==
    /\ {staged, program, card} \subseteq Files
    /\ zip \in Files \cup {NoFile}
    /\ vm \in Good \cup {Nil}
    /\ linked \subseteq Uploaders
    /\ linked # {} => zip # NoFile
    /\ upc \in [Uploaders -> Chunks \cup {0}]
    /\ body \in [Uploaders -> Projects \cup {Nil}]
    /\ \A u \in Uploaders : upc[u] # 0 => body[u] # Nil
    /\ apc \in [Appliers -> {"idle", "wipe", "unzip", "load", "install", "copy", "sync"}]
    /\ src \in [Appliers -> Files]
    /\ at \in [Appliers -> Chunks]
    /\ uploads \in 0..MaxUploads /\ applies \in 0..MaxApplies /\ outages \in 0..MaxOutages
    /\ loaded \in [Appliers -> Projects \cup {Nil}]
    /\ answer \in Projects \cup {Nil}
    /\ failed \in BOOLEAN

\* A program the VM rejects is never installed, neither in the page cache nor
\* on the card, whatever uploads run meanwhile: what the VM has accepted is
\* what install_file copies.
OnlyValidInstalled ==
    /\ Content(program) \notin Invalid
    /\ Content(card) \notin Invalid

\* Between applies the VM runs the program that would boot, unless an error
\* (which the apply may not have noticed) spoiled the last install.
RunsWhatBoots ==
    Idle /\ vm # Nil /\ ~failed => Content(program) = vm

\* A project whose apply returned 0 survives every power loss and restart
\* until the next apply begins, with the same exception.
AppliedSurvives ==
    answer # Nil /\ ~failed => Content(card) = answer /\ vm = answer
=============================================================================
