--------------------------- MODULE Programs_proofs ---------------------------
(***************************************************************************)
(* Proofs about ProjectStore and LadderScan: which ladder program a device *)
(* runs, and what a ladder program does.                                   *)
(*                                                                         *)
(* ProjectStore, for any projects, uploaders, sizes of files and numbers   *)
(* of uploads, applies and power losses, with or without disks that fill   *)
(* up: the types for any number of appliers, and, while one apply is       *)
(* served at a time, what is installed, what runs and what survives.       *)
(*                                                                         *)
(* LadderScan, for any diagrams, however long, any numbers of coils and    *)
(* inputs and any stack of at least three values: the scan computes what   *)
(* the diagram means.  The code of a diagram is put together from the code *)
(* of its rungs, branches and contacts; the proof follows that structure,  *)
(* by induction over the length of each.                                   *)
(***************************************************************************)
EXTENDS ProjectStore, LadderScan, SequenceTheorems, WellFoundedInduction, TLAPS

\* One worker at a time is in POST /api/project/apply.
OneApply == \A a, b \in Appliers : a = b

-----------------------------------------------------------------------------
(* ProjectStore.  Files.                                                    *)

LEMMA FirstChunk == 1 \in Chunks /\ LastChunk \in Chunks
BY StoreAssumption DEF Chunks, LastChunk

LEMMA EmptyIsFile == Empty \in Files /\ Empty # NoFile
<1>1. Empty \in Files
    BY DEF Empty, Files
<1>2. DOMAIN Empty # {} /\ DOMAIN NoFile = {}
    BY FirstChunk DEF Empty, NoFile
<1> QED
    BY <1>1, <1>2

LEMMA WholeIsFile == \A p \in Projects \cup {Nil} : Whole(p) \in Files
BY DEF Whole, Files

\* The project in a whole file is the one it was written from.
LEMMA ContentOfWhole == \A p \in Projects : Content(Whole(p)) = p
<1> SUFFICES ASSUME NEW p \in Projects PROVE Content(Whole(p)) = p
    OBVIOUS
<1>1. Whole(p)[1] = p
    BY FirstChunk DEF Whole
<1> QED
    BY <1>1 DEF Content

\* What is not a whole file has no content; a project is read from a whole
\* file only.
LEMMA ContentIsWhole ==
    ASSUME NEW f
    PROVE  /\ Content(f) \in Projects \cup {Nil}
           /\ Content(f) # Nil => f = Whole(Content(f))
<1>1. CASE \E p \in Projects : f = Whole(p)
    <2> PICK p \in Projects : f = Whole(p)
        BY <1>1
    <2> QED
        BY ContentOfWhole
<1>2. CASE ~ \E p \in Projects : f = Whole(p)
    BY <1>2 DEF Content
<1> QED
    BY <1>1, <1>2

\* The content of a file is in its first chunk.
LEMMA ContentIsFirst == \A f : Content(f) # Nil => Content(f) = f[1]
BY DEF Content

LEMMA NoFileIsEmpty == Content(NoFile) = Nil /\ Content(Empty) = Nil
<1>1. Content(NoFile) = Nil
    <2> SUFFICES ASSUME Content(NoFile) # Nil PROVE FALSE
        OBVIOUS
    <2>1. NoFile = Whole(Content(NoFile))
        BY ContentIsWhole, Zenon
    <2>2. DOMAIN NoFile = {} /\ DOMAIN Whole(Content(NoFile)) = Chunks
        BY DEF NoFile, Whole
    <2> QED
        BY <2>1, <2>2, FirstChunk
<1>2. Content(Empty) = Nil
    <2>1. Empty[1] = Nil
        BY FirstChunk DEF Empty
    <2> QED
        BY <2>1, ContentIsFirst
<1> QED
    BY <1>1, <1>2

-----------------------------------------------------------------------------
(* The types, whoever uploads and applies.                                  *)

LEMMA InitTypes == Init => TypeOK
<1> SUFFICES ASSUME Init PROVE TypeOK
    OBVIOUS
<1>1. {staged, program, card} \subseteq Files /\ zip = NoFile /\ linked = {}
    <2>1. zip = NoFile /\ staged = Empty /\ program = Empty /\ card = Empty /\ linked = {}
        BY Zenon DEF Init
    <2> QED
        BY <2>1, EmptyIsFile
<1>2. /\ uploads \in 0..MaxUploads /\ applies \in 0..MaxApplies /\ outages \in 0..MaxOutages
      /\ vm \in Good \cup {Nil} /\ answer \in Projects \cup {Nil} /\ failed \in BOOLEAN
    <2>1. uploads = 0 /\ applies = 0 /\ outages = 0 /\ vm = Nil /\ answer = Nil /\ failed = FALSE
        BY Zenon DEF Init
    <2>2. uploads \in 0..MaxUploads /\ applies \in 0..MaxApplies /\ outages \in 0..MaxOutages
        BY <2>1, StoreAssumption
    <2>3. failed \in BOOLEAN
        BY <2>1, Zenon
    <2> QED
        BY <2>1, <2>2, <2>3, Zenon
<1>3. /\ upc \in [Uploaders -> Chunks \cup {0}]
      /\ body \in [Uploaders -> Projects \cup {Nil}]
      /\ \A u \in Uploaders : upc[u] = 0
    BY DEF Init
<1>4. /\ apc \in [Appliers -> {"idle", "wipe", "unzip", "load", "install", "copy", "sync"}]
      /\ src \in [Appliers -> Files]
      /\ at \in [Appliers -> Chunks]
      /\ loaded \in [Appliers -> Projects \cup {Nil}]
    BY EmptyIsFile, FirstChunk DEF Init
<1> QED
    BY <1>1, <1>2, <1>3, <1>4 DEF TypeOK

\* Booting gives the memory of a process its first values.
LEMMA BootTypes ==
    ASSUME NEW f, Boot(f)
    PROVE  /\ vm' \in Good \cup {Nil}
           /\ linked' = {}
           /\ upc' = [u \in Uploaders |-> 0]
           /\ body' = [u \in Uploaders |-> Nil]
           /\ apc' = [a \in Appliers |-> "idle"]
           /\ src' \in [Appliers -> Files]
           /\ at' \in [Appliers -> Chunks]
           /\ loaded' \in [Appliers -> Projects \cup {Nil}]
BY EmptyIsFile, FirstChunk DEF Boot

LEMMA UploadTypes ==
    ASSUME TypeOK, NEW u \in Uploaders, UploadStep(u)
    PROVE  TypeOK'
<1> USE DEF TypeOK
<1>1. ASSUME NEW p \in Projects, BeginUpload(u, p) PROVE TypeOK'
    <2>1. upc' \in [Uploaders -> Chunks \cup {0}] /\ body' \in [Uploaders -> Projects \cup {Nil}]
        BY <1>1, FirstChunk DEF BeginUpload
    <2>2. \A v \in Uploaders : upc'[v] # 0 => body'[v] # Nil
        BY <1>1, StoreAssumption DEF BeginUpload
    <2>3. zip' \in Files /\ zip' # NoFile /\ linked' \subseteq Uploaders /\ uploads' \in 0..MaxUploads
        BY <1>1, EmptyIsFile, StoreAssumption DEF BeginUpload
    <2> QED
        BY <1>1, <2>1, <2>2, <2>3 DEF BeginUpload, applier, history
<1>2. ASSUME Receive(u) PROVE TypeOK'
    <2>1. upc[u] \in Chunks /\ body[u] \in Projects
        BY <1>2 DEF Receive
    <2>2. upc' \in [Uploaders -> Chunks \cup {0}] /\ \A v \in Uploaders : upc'[v] # 0 => upc[v] # 0
        BY <1>2, <2>1, StoreAssumption DEF Receive, Chunks, LastChunk
    <2>3. zip' \in Files \cup {NoFile} /\ (linked # {} => zip' # NoFile)
        <3>1. CASE u \in linked
            <4>1. zip \in Files
                BY <3>1
            <4>2. zip' = [zip EXCEPT ![upc[u]] = body[u]]
                BY <1>2, <3>1 DEF Receive
            <4>3. zip' \in Files
                BY <4>1, <4>2, <2>1 DEF Files
            <4>4. DOMAIN zip' = Chunks /\ DOMAIN NoFile = {}
                BY <4>3 DEF Files, NoFile
            <4> QED
                BY <4>3, <4>4, FirstChunk
        <3>2. CASE u \notin linked
            BY <1>2, <3>2 DEF Receive
        <3> QED
            BY <3>1, <3>2
    <2> QED
        BY <1>2, <2>2, <2>3 DEF Receive, applier, history
<1>3. ASSUME CutOff(u) PROVE TypeOK'
    BY <1>3 DEF CutOff, files, applier, history
<1>4. ASSUME ReceiveFails(u) PROVE TypeOK'
    BY <1>4 DEF ReceiveFails, applier, history
<1> QED
    BY <1>1, <1>2, <1>3, <1>4 DEF UploadStep

LEMMA ApplyTypes ==
    ASSUME TypeOK, NEW a \in Appliers, ApplyStep(a)
    PROVE  TypeOK'
<1> USE DEF TypeOK, Goto
<1>1. ASSUME BeginApply(a) PROVE TypeOK'
    BY <1>1, StoreAssumption DEF BeginApply, files, uploader
<1>2. ASSUME WipeStaging(a) PROVE TypeOK'
    BY <1>2, EmptyIsFile DEF WipeStaging, uploader, history
<1>3. ASSUME Unzip(a) PROVE TypeOK'
    <2>1. apc' \in [Appliers -> {"idle", "wipe", "unzip", "load", "install", "copy", "sync"}]
        BY <1>3 DEF Unzip
    <2>2. staged' \in Files
        <3>1. staged' = staged \/ (staged' = zip /\ Content(zip) # Nil)
            <4>1. PICK ok \in {Content(zip) # Nil, Content(zip) # Nil /\ ~DiskFills} :
                    staged' = IF ok /\ Content(zip) \notin Bare THEN zip ELSE staged
                BY <1>3, Zenon DEF Unzip
            <4>2. ok => Content(zip) # Nil
                BY Zenon
            <4> QED
                BY <4>1, <4>2
        <3>2. Content(zip) # Nil => zip # NoFile
            BY NoFileIsEmpty
        <3> QED
            BY <3>1, <3>2
    <2> QED
        BY <1>3, <2>1, <2>2 DEF Unzip, uploader, history
<1>4. ASSUME Load(a) PROVE TypeOK'
    <2>1. vm' \in Good \cup {Nil}
        BY <1>4 DEF Load
    <2>2. vm' \in Projects \cup {Nil}
        BY <2>1 DEF Good
    <2>3. apc' \in [Appliers -> {"idle", "wipe", "unzip", "load", "install", "copy", "sync"}]
        BY <1>4 DEF Load
    <2>4. loaded' \in [Appliers -> Projects \cup {Nil}]
        BY <1>4, <2>2 DEF Load
    <2> QED
        BY <1>4, <2>1, <2>3, <2>4 DEF Load, files, uploader, history
<1>5. ASSUME OpenInstall(a) PROVE TypeOK'
    BY <1>5, EmptyIsFile, FirstChunk DEF OpenInstall, uploader
<1>6. ASSUME Copy(a) PROVE TypeOK'
    <2>1. program' \in Files
        BY <1>6 DEF Copy, Files
    <2>2. at' \in [Appliers -> Chunks]
        BY <1>6, StoreAssumption DEF Copy, Chunks, LastChunk
    <2> QED
        BY <1>6, <2>1, <2>2 DEF Copy, uploader, history
<1>7. ASSUME CopyFails(a) PROVE TypeOK'
    BY <1>7, FirstChunk DEF CopyFails, files, uploader
<1>8. ASSUME CloseFails(a) PROVE TypeOK'
    BY <1>8, FirstChunk DEF CloseFails, files, uploader
<1>9. ASSUME Sync(a) PROVE TypeOK'
    BY <1>9 DEF Sync, uploader
<1> QED
    BY <1>1, <1>2, <1>3, <1>4, <1>5, <1>6, <1>7, <1>8, <1>9 DEF ApplyStep

LEMMA NextTypes == TypeOK /\ [Next]_vars => TypeOK'
<1> SUFFICES ASSUME TypeOK, [Next]_vars PROVE TypeOK'
    OBVIOUS
<1> USE DEF TypeOK
<1>1. ASSUME NEW k \in Chunks, WriteBack(k) PROVE TypeOK'
    <2>1. card' \in Files
        BY <1>1 DEF WriteBack, Files
    <2> QED
        BY <1>1, <2>1 DEF WriteBack, uploader, applier, history
<1>2. ASSUME Outage PROVE TypeOK'
    BY <1>2, BootTypes, EmptyIsFile, StoreAssumption DEF Outage, history
<1>3. ASSUME Restart PROVE TypeOK'
    BY <1>3, BootTypes, StoreAssumption DEF Restart, files, history
<1>4. CASE UNCHANGED vars
    BY <1>4 DEF vars, files, uploader, applier, history
<1> QED
    BY <1>1, <1>2, <1>3, <1>4, UploadTypes, ApplyTypes DEF Next, Rest

\* Every variable keeps its type, however many uploads and applies overlap.
THEOREM TypeCorrect == Spec => []TypeOK
BY InitTypes, NextTypes, PTL DEF Spec

-----------------------------------------------------------------------------
(* What is installed, runs and survives, with one apply at a time.          *)

\* An applier that has not given a program to the VM yet.
Early == {"idle", "wipe", "unzip", "load"}

\* Only pieces of programs the VM has taken reach program.bin and the card.
OnlyGood == \A k \in Chunks : {program[k], card[k]} \subseteq Good \cup {Nil}

\* From its load on, an applier has a good project in hand, the one the VM
\* runs; the staged file, then the open one, is that project.
InHand ==
    \A a \in Appliers :
        /\ apc[a] \notin Early => loaded[a] \in Good /\ vm = loaded[a]
        /\ apc[a] = "install" => staged = Whole(loaded[a])
        /\ apc[a] = "copy" => src[a] = Whole(loaded[a]) /\ ~failed

\* How much of program.bin is installed.
Installed ==
    \A a \in Appliers :
        /\ apc[a] = "copy" => \A k \in Chunks : k < at[a] => program[k] = loaded[a]
        /\ apc[a] = "sync" /\ ~failed => program = Whole(loaded[a])

\* Nobody has given the VM another program since the last install.
Rests == (\A a \in Appliers : apc[a] \in Early) /\ vm # Nil /\ ~failed => program = Whole(vm)

\* What an apply answered for is on the card.
Answered ==
    answer # Nil =>
        /\ Idle
        /\ ~failed => vm = answer /\ program = Whole(answer) /\ card = Whole(answer)

StoreInv == OnlyGood /\ InHand /\ Installed /\ Rests /\ Answered

LEMMA InitStoreInv == Init => StoreInv
<1> SUFFICES ASSUME Init PROVE StoreInv
    OBVIOUS
<1>1. program = Empty /\ card = Empty /\ vm = Nil /\ answer = Nil
    BY Zenon DEF Init
<1>2. \A a \in Appliers : apc[a] = "idle"
    BY DEF Init
<1> QED
    BY <1>1, <1>2 DEF StoreInv, OnlyGood, InHand, Installed, Rests, Answered, Early, Empty

\* Steps that touch neither the persisted program nor an applier that has
\* opened it.
LEMMA AsideStoreInv ==
    ASSUME StoreInv, UNCHANGED <<program, card, vm, apc, src, at, loaded, answer, failed>>,
           \A a \in Appliers : apc[a] = "install" => staged' = staged
    PROVE  StoreInv'
BY DEF StoreInv, OnlyGood, InHand, Installed, Rests, Answered, Early, Idle

LEMMA UploadStoreInv ==
    ASSUME StoreInv, NEW u \in Uploaders, UploadStep(u)
    PROVE  StoreInv'
<1>1. UNCHANGED <<staged, program, card, vm, apc, src, at, loaded, answer, failed>>
    BY DEF UploadStep, BeginUpload, Receive, CutOff, ReceiveFails, files, applier, history
<1> QED
    BY <1>1, AsideStoreInv

\* An applier that has no program in hand goes on, or gives up.
LEMMA EarlyStoreInv ==
    ASSUME OneApply, StoreInv, NEW a \in Appliers,
           apc[a] \in Early, \A b \in Appliers : apc'[b] \in Early,
           UNCHANGED <<program, card, vm, failed>>,
           answer' = Nil \/ (answer' = answer /\ apc[a] # "idle")
    PROVE  StoreInv'
<1>1. \A b \in Appliers : b = a
    BY DEF OneApply
<1>2. answer' = Nil
    BY DEF StoreInv, Answered, Idle
<1>3. OnlyGood' /\ Answered'
    BY <1>2 DEF StoreInv, OnlyGood, Answered
<1>4. InHand' /\ Installed'
    BY DEF InHand, Installed, Early
<1>5. Rests'
    BY <1>1 DEF StoreInv, Rests
<1> QED
    BY <1>3, <1>4, <1>5 DEF StoreInv

LEMMA ApplyStoreInv ==
    ASSUME OneApply, TypeOK, StoreInv, NEW a \in Appliers, ApplyStep(a)
    PROVE  StoreInv'
<1> USE DEF Goto
<1>0. \A b \in Appliers : b = a
    BY DEF OneApply
<1>a. apc \in [Appliers -> {"idle", "wipe", "unzip", "load", "install", "copy", "sync"}]
    BY DEF TypeOK
<1>1. ASSUME BeginApply(a) PROVE StoreInv'
    BY <1>0, <1>a, <1>1, EarlyStoreInv DEF BeginApply, files, Early
<1>2. ASSUME WipeStaging(a) PROVE StoreInv'
    BY <1>0, <1>a, <1>2, EarlyStoreInv DEF WipeStaging, history, Early
<1>3. ASSUME Unzip(a) PROVE StoreInv'
    BY <1>0, <1>a, <1>3, EarlyStoreInv DEF Unzip, history, Early
<1>4. ASSUME Load(a) PROVE StoreInv'
    <2>1. /\ UNCHANGED <<program, card, staged, failed, answer>>
          /\ apc[a] = "load" /\ answer = Nil
        BY <1>4 DEF Load, files, history, StoreInv, Answered, Idle
    <2>0. apc'[a] \in {"install", "idle"}
        BY <1>4, <1>a DEF Load
    <2>2. CASE apc'[a] = "install"
        <3>1. Content(staged) \in Good /\ vm' = Content(staged) /\ loaded'[a] = vm'
            BY <1>4, <1>a, <2>2 DEF Load, TypeOK
        <3>2. Content(staged) # Nil
            BY <3>1, StoreAssumption DEF Good
        <3>3. staged = Whole(Content(staged))
            BY <3>2, ContentIsWhole
        <3> QED
            BY <1>0, <2>1, <2>2, <3>1, <3>3
               DEF StoreInv, OnlyGood, InHand, Installed, Rests, Answered, Early
    <2>3. CASE apc'[a] = "idle"
        <3>1. vm' = Nil \/ vm' = vm
            BY <1>4, <1>a, <2>3 DEF Load
        <3>2. OnlyGood' /\ InHand' /\ Installed' /\ Answered'
            BY <1>0, <2>1, <2>3, <3>1 DEF StoreInv, OnlyGood, InHand, Installed, Answered, Early
        <3>3. Rests'
            BY <1>0, <2>1, <2>3, <3>1 DEF StoreInv, Rests, Early
        <3> QED
            BY <3>2, <3>3 DEF StoreInv
    <2> QED
        BY <2>0, <2>2, <2>3
<1>5. ASSUME OpenInstall(a) PROVE StoreInv'
    <2>1. PICK ok \in {staged # Empty, staged # Empty /\ ~DiskFills} :
            /\ apc[a] = "install"
            /\ apc' = [apc EXCEPT ![a] = IF ok THEN "copy" ELSE "idle"]
            /\ src' = [src EXCEPT ![a] = staged]
            /\ program' = IF ok THEN Empty ELSE program
            /\ failed' = ~ok
        BY <1>5, Zenon DEF OpenInstall
    <2>2. /\ at' = [at EXCEPT ![a] = 1]
          /\ UNCHANGED <<card, vm, loaded, answer>>
        BY <1>5 DEF OpenInstall
    <2>3. /\ loaded[a] \in Good /\ vm = loaded[a] /\ staged = Whole(loaded[a])
          /\ answer = Nil
        BY <2>1 DEF StoreInv, InHand, Answered, Idle, Early
    <2>4. CASE ok
        <3>1. apc'[a] = "copy" /\ src'[a] = staged /\ program' = Empty /\ at'[a] = 1 /\ ~failed'
            BY <1>a, <2>1, <2>2, <2>4 DEF TypeOK
        <3>2. OnlyGood'
            BY <2>2, <3>1 DEF StoreInv, OnlyGood, Empty
        <3>3. Installed'
            BY <1>0, <3>1 DEF Installed, Chunks
        <3> QED
            BY <1>0, <2>2, <2>3, <3>1, <3>2, <3>3 DEF StoreInv, InHand, Rests, Answered, Early
    <2>5. CASE ~ok
        <3>1. apc'[a] = "idle" /\ program' = program /\ failed'
            BY <1>a, <2>1, <2>5
        <3> QED
            BY <1>0, <2>2, <2>3, <3>1
               DEF StoreInv, OnlyGood, InHand, Installed, Rests, Answered, Early
    <2> QED
        BY <2>4, <2>5
<1>6. ASSUME Copy(a) PROVE StoreInv'
    <2>1. /\ apc[a] = "copy"
          /\ program' = [program EXCEPT ![at[a]] = src[a][at[a]]]
          /\ UNCHANGED <<card, vm, src, loaded, answer, failed>>
        BY <1>6 DEF Copy, history
    <2>2. /\ loaded[a] \in Good /\ vm = loaded[a] /\ src[a] = Whole(loaded[a]) /\ ~failed
          /\ answer = Nil
        BY <2>1 DEF StoreInv, InHand, Answered, Idle, Early
    <2>3. at[a] \in Chunks /\ program \in Files
        BY DEF TypeOK
    <2>4. src[a][at[a]] = loaded[a]
        BY <2>2, <2>3 DEF Whole
    <2>5. \A k \in Chunks : program'[k] = IF k = at[a] THEN loaded[a] ELSE program[k]
        BY <2>1, <2>3, <2>4 DEF Files
    <2>6. \A k \in Chunks : k <= at[a] => program'[k] = loaded[a]
        BY <2>1, <2>3, <2>5 DEF StoreInv, Installed, Chunks
    <2>7. OnlyGood'
        BY <2>1, <2>2, <2>5 DEF StoreInv, OnlyGood
    <2>8. CASE at[a] = LastChunk
        <3>1. apc'[a] = "sync"
            BY <1>6, <1>a, <2>8 DEF Copy
        <3>2. program' = Whole(loaded[a])
            <4>1. \A k \in Chunks : k <= LastChunk
                BY StoreAssumption DEF Chunks, LastChunk
            <4>2. program' \in [Chunks -> Projects \cup {Nil}] /\ \A k \in Chunks : program'[k] = loaded[a]
                BY <2>1, <2>2, <2>3, <2>4, <2>6, <2>8, <4>1 DEF Files, Good
            <4> QED
                BY <4>2 DEF Whole
        <3> QED
            BY <1>0, <2>1, <2>2, <2>7, <3>1, <3>2 DEF StoreInv, InHand, Installed, Rests, Answered, Early
    <2>9. CASE at[a] # LastChunk
        <3>1. apc'[a] = "copy" /\ at'[a] = at[a] + 1
            BY <1>6, <1>a, <2>9 DEF Copy, TypeOK
        <3>2. \A k \in Chunks : k < at'[a] => program'[k] = loaded[a]
            BY <2>3, <2>6, <3>1 DEF Chunks
        <3> QED
            BY <1>0, <2>1, <2>2, <2>7, <3>1, <3>2 DEF StoreInv, InHand, Installed, Rests, Answered, Early
    <2> QED
        BY <2>8, <2>9
<1>7. ASSUME CopyFails(a) \/ CloseFails(a) PROVE StoreInv'
    <2>1. /\ apc[a] = "copy" /\ apc'[a] \in {"idle", "sync"} /\ failed'
          /\ UNCHANGED <<program, card, vm, loaded, answer>>
        BY <1>7, <1>a DEF CopyFails, CloseFails, files
    <2>2. loaded[a] \in Good /\ vm = loaded[a] /\ answer = Nil
        BY <2>1 DEF StoreInv, InHand, Answered, Idle, Early
    <2> QED
        BY <1>0, <2>1, <2>2 DEF StoreInv, OnlyGood, InHand, Installed, Rests, Answered, Early
<1>8. ASSUME Sync(a) PROVE StoreInv'
    <2>1. /\ apc[a] = "sync" /\ apc'[a] = "idle"
          /\ card' = program /\ answer' = loaded[a]
          /\ UNCHANGED <<program, vm, loaded, failed>>
        BY <1>8, <1>a DEF Sync
    <2>2. vm = loaded[a] /\ (~failed => program = Whole(loaded[a]))
        BY <2>1 DEF StoreInv, InHand, Installed, Early
    <2> QED
        BY <1>0, <2>1, <2>2 DEF StoreInv, OnlyGood, InHand, Installed, Rests, Answered, Early, Idle
<1> QED
    BY <1>1, <1>2, <1>3, <1>4, <1>5, <1>6, <1>7, <1>8 DEF ApplyStep

\* The device boots from a file of good pieces: what it runs is that file,
\* and what was answered for is found again.
LEMMA BootStoreInv ==
    ASSUME TypeOK, StoreInv, NEW f, Boot(f), f = program \/ f = card,
           program' = f, card' = card, UNCHANGED history
    PROVE  StoreInv'
<1>1. \A a \in Appliers : apc'[a] = "idle"
    BY DEF Boot
<1>2. vm' = IF Content(f) \in Good THEN Content(f) ELSE Nil
    BY DEF Boot
<1>3. OnlyGood'
    BY DEF StoreInv, OnlyGood
<1>4. InHand' /\ Installed'
    BY <1>1 DEF InHand, Installed, Early
<1>5. Rests'
    <2>1. vm' # Nil => f = Whole(vm')
        BY <1>2, ContentIsWhole
    <2> QED
        BY <2>1 DEF Rests
<1>6. Answered'
    <2> SUFFICES ASSUME answer # Nil, ~failed
                 PROVE  vm' = answer /\ program' = Whole(answer) /\ card' = Whole(answer)
        BY <1>1 DEF Answered, Idle, history
    <2>1. vm = answer /\ f = Whole(answer) /\ card = Whole(answer)
        BY DEF StoreInv, Answered
    <2>2. answer \in Good /\ answer \in Projects
        BY <2>1 DEF TypeOK, Good
    <2>3. Content(f) = answer
        BY <2>1, <2>2, ContentOfWhole
    <2> QED
        BY <1>2, <2>1, <2>2, <2>3
<1> QED
    BY <1>3, <1>4, <1>5, <1>6 DEF StoreInv

LEMMA NextStoreInv ==
    ASSUME OneApply
    PROVE  TypeOK /\ StoreInv /\ [Next]_vars => StoreInv'
<1> SUFFICES ASSUME TypeOK, StoreInv, [Next]_vars PROVE StoreInv'
    OBVIOUS
<1>1. ASSUME NEW k \in Chunks, WriteBack(k) PROVE StoreInv'
    <2>1. /\ card' = [card EXCEPT ![k] = program[k]] /\ card[k] # program[k]
          /\ UNCHANGED <<staged, program, vm, apc, src, at, loaded, answer, failed>>
        BY <1>1 DEF WriteBack, applier, history
    <2>2. \A j \in Chunks : card'[j] = IF j = k THEN program[k] ELSE card[j]
        BY <2>1 DEF TypeOK, Files
    <2>3. OnlyGood'
        BY <2>1, <2>2 DEF StoreInv, OnlyGood
    <2>4. answer # Nil => failed
        BY <2>1 DEF StoreInv, Answered
    <2> QED
        BY <2>1, <2>3, <2>4 DEF StoreInv, InHand, Installed, Rests, Answered, Early, Idle
<1>2. ASSUME Outage PROVE StoreInv'
    BY <1>2, BootStoreInv DEF Outage
<1>3. ASSUME Restart PROVE StoreInv'
    BY <1>3, BootStoreInv DEF Restart, files
<1>4. CASE UNCHANGED vars
    BY <1>4, AsideStoreInv DEF vars, files, applier, history
<1> QED
    BY <1>1, <1>2, <1>3, <1>4, UploadStoreInv, ApplyStoreInv DEF Next, Rest

LEMMA StoreInvariant ==
    ASSUME OneApply
    PROVE  Spec => [](TypeOK /\ StoreInv)
<1>1. Init => TypeOK /\ StoreInv
    BY InitTypes, InitStoreInv
<1>2. TypeOK /\ StoreInv /\ [Next]_vars => (TypeOK /\ StoreInv)'
    BY NextTypes, NextStoreInv
<1> QED
    BY <1>1, <1>2, PTL DEF Spec

\* While one apply is served at a time, a program the VM rejects is neither
\* in program.bin nor on the card, whatever uploads run meanwhile and
\* whenever the power fails.
THEOREM RejectedIsNeverInstalled ==
    ASSUME OneApply
    PROVE  Spec => []OnlyValidInstalled
<1>1. ASSUME StoreInv, NEW f \in {program, card} PROVE Content(f) \notin Invalid
    <2>1. Content(f) # Nil => Content(f) = f[1]
        BY ContentIsFirst
    <2>2. f[1] \in Good \cup {Nil}
        BY <1>1, FirstChunk DEF StoreInv, OnlyGood
    <2>3. Nil \notin Invalid /\ Good \cap Invalid = {}
        BY StoreAssumption DEF Good
    <2> QED
        BY <2>1, <2>2, <2>3
<1>2. StoreInv => OnlyValidInstalled
    BY <1>1 DEF OnlyValidInstalled
<1> QED
    BY <1>2, StoreInvariant, PTL

\* Under the same assumption, between applies the VM runs the program that
\* would boot, unless an error spoiled the last install.
THEOREM BootsWhatRuns ==
    ASSUME OneApply
    PROVE  Spec => []RunsWhatBoots
<1>1. TypeOK /\ StoreInv => RunsWhatBoots
    <2> SUFFICES ASSUME TypeOK, StoreInv, Idle, vm # Nil, ~failed PROVE Content(program) = vm
        BY DEF RunsWhatBoots
    <2>1. program = Whole(vm)
        BY DEF StoreInv, Rests, Idle, Early
    <2>2. vm \in Projects
        BY DEF TypeOK, Good
    <2> QED
        BY <2>1, <2>2, ContentOfWhole
<1> QED
    BY <1>1, StoreInvariant, PTL

\* Under the same assumption, a project whose apply returned 0 is on the card
\* and runs until the next apply begins, through every power loss and restart.
THEOREM AppliedIsKept ==
    ASSUME OneApply
    PROVE  Spec => []AppliedSurvives
<1>1. TypeOK /\ StoreInv => AppliedSurvives
    <2> SUFFICES ASSUME TypeOK, StoreInv, answer # Nil, ~failed
                 PROVE  Content(card) = answer /\ vm = answer
        BY DEF AppliedSurvives
    <2>1. card = Whole(answer) /\ vm = answer
        BY DEF StoreInv, Answered
    <2>2. answer \in Projects
        BY DEF TypeOK
    <2> QED
        BY <2>1, <2>2, ContentOfWhole
<1> QED
    BY <1>1, StoreInvariant, PTL

-----------------------------------------------------------------------------
(* LadderScan.  Induction: a property is proved of every number by way of   *)
(* the set of the numbers that have it, and of the least number outside it. *)

LEMMA LeastNumber ==
    ASSUME NEW T, T \subseteq Nat, T # {}
    PROVE  \E x \in T : \A y \in T : x <= y
<1> DEFINE R == {ss \in Nat \X Nat : ss[1] < ss[2]}
<1>1. IsWellFoundedOn(R, Nat)
    BY NatLessThanWellFounded DEF OpToRel
<1> HIDE DEF R
<1>2. PICK x \in T : \A y \in T : ~ (<<y, x>> \in R)
    BY <1>1, WFMin
<1>3. \A y \in T : ~ (y < x)
    BY <1>2 DEF R
<1> QED
    BY <1>3

LEMMA SetInduction ==
    ASSUME NEW S, 0 \in S, \A n \in Nat : n \in S => n + 1 \in S
    PROVE  Nat \subseteq S
<1> SUFFICES ASSUME Nat \ S # {} PROVE FALSE
    OBVIOUS
<1>1. PICK x \in Nat \ S : \A y \in Nat \ S : x <= y
    BY LeastNumber
<1>2. x # 0
    OBVIOUS
<1>3. x - 1 \in Nat /\ x - 1 \in S
    BY <1>1, <1>2
<1> QED
    BY <1>1, <1>3

-----------------------------------------------------------------------------
(* Recursive definitions over sequences.                                    *)

\* The first m pieces of a sequence of sequences, one behind the other.
Joins(pieces, m, f) ==
    /\ f = [n \in 1..m |-> IF n = 1 THEN pieces[n] ELSE f[n - 1] \o pieces[n]]

LEMMA JoinsExists ==
    ASSUME NEW X, NEW pieces \in Seq(Seq(X))
    PROVE  \A m \in Nat : m <= Len(pieces) => \E f \in [1..m -> Seq(X)] : Joins(pieces, m, f)
<1> DEFINE S == {m \in Nat : m <= Len(pieces) => \E f \in [1..m -> Seq(X)] : Joins(pieces, m, f)}
<1>1. 0 \in S
    <2> DEFINE f == [n \in 1..0 |-> IF n = 1 THEN pieces[n] ELSE <<>>]
    <2>1. f \in [1..0 -> Seq(X)]
        OBVIOUS
    <2>2. Joins(pieces, 0, f)
        BY DEF Joins
    <2> HIDE DEF f
    <2> QED
        BY <2>1, <2>2
<1>2. ASSUME NEW m \in Nat, m \in S, m + 1 <= Len(pieces)
      PROVE  \E f \in [1..m + 1 -> Seq(X)] : Joins(pieces, m + 1, f)
    <2>1. PICK g \in [1..m -> Seq(X)] : Joins(pieces, m, g)
        BY <1>2
    <2> DEFINE last == IF m = 0 THEN pieces[1] ELSE g[m] \o pieces[m + 1]
               f == [n \in 1..m + 1 |-> IF n = m + 1 THEN last ELSE g[n]]
    <2>2. pieces[m + 1] \in Seq(X)
        BY <1>2
    <2>3. last \in Seq(X)
        <3>1. CASE m = 0
            BY <2>2, <3>1
        <3>2. CASE m # 0
            <4>1. g[m] \in Seq(X)
                BY <3>2
            <4> QED
                BY <2>2, <3>2, <4>1
        <3> QED
            BY <3>1, <3>2
    <2>4. f \in [1..m + 1 -> Seq(X)]
        BY <2>3
    <2>5. \A n \in 1..m + 1 : f[n] = IF n = 1 THEN pieces[n] ELSE f[n - 1] \o pieces[n]
        <3> SUFFICES ASSUME NEW n \in 1..m + 1
                     PROVE  f[n] = IF n = 1 THEN pieces[n] ELSE f[n - 1] \o pieces[n]
            OBVIOUS
        <3>1. CASE n = m + 1
            BY <3>1
        <3>2. CASE n # m + 1
            <4>1. n \in 1..m /\ f[n] = g[n]
                BY <3>2
            <4>2. g[n] = IF n = 1 THEN pieces[n] ELSE g[n - 1] \o pieces[n]
                BY <2>1, <4>1 DEF Joins
            <4>3. n # 1 => f[n - 1] = g[n - 1]
                BY <4>1
            <4> QED
                BY <4>1, <4>2, <4>3
        <3> QED
            BY <3>1, <3>2
    <2> HIDE DEF f, last
    <2>6. Joins(pieces, m + 1, f)
        <3> DEFINE h == [n \in 1..m + 1 |-> IF n = 1 THEN pieces[n] ELSE f[n - 1] \o pieces[n]]
        <3>1. \A n \in 1..m + 1 : f[n] = h[n]
            BY <2>5
        <3>2. h = [n \in 1..m + 1 |-> h[n]] /\ f = [n \in 1..m + 1 |-> f[n]]
            BY <2>4
        <3> HIDE DEF h
        <3>3. f = h
            BY <3>1, <3>2, Zenon
        <3> QED
            BY <3>3 DEF Joins, h
    <2> QED
        BY <2>4, <2>6
<1>3. \A m \in Nat : m \in S => m + 1 \in S
    BY <1>2
<1>4. Nat \subseteq S
    <2> HIDE DEF S
    <2> QED
        BY <1>1, <1>3, SetInduction
<1> QED
    BY <1>4

LEMMA JoinsValues ==
    ASSUME NEW X, NEW pieces \in Seq(Seq(X)), NEW f, Joins(pieces, Len(pieces), f)
    PROVE  /\ f \in [1..Len(pieces) -> Seq(X)]
           /\ \A n \in 1..Len(pieces) : f[n] = IF n = 1 THEN pieces[n] ELSE f[n - 1] \o pieces[n]
<1>1. \A n \in 1..Len(pieces) : f[n] = IF n = 1 THEN pieces[n] ELSE f[n - 1] \o pieces[n]
    BY DEF Joins
<1> DEFINE S == {n \in Nat : n \in 1..Len(pieces) => f[n] \in Seq(X)}
<1>2. 0 \in S
    OBVIOUS
<1>3. ASSUME NEW n \in Nat, n \in 1..Len(pieces) => f[n] \in Seq(X), n + 1 \in 1..Len(pieces)
      PROVE  f[n + 1] \in Seq(X)
    <2>1. pieces[n + 1] \in Seq(X)
        BY <1>3
    <2>2. CASE n = 0
        <3>1. f[n + 1] = pieces[n + 1]
            BY <1>1, <1>3, <2>2
        <3> QED
            BY <2>1, <3>1
    <2>3. CASE n # 0
        <3>1. f[n] \in Seq(X) /\ f[n + 1] = f[n] \o pieces[n + 1]
            <4>1. n \in 1..Len(pieces) /\ n + 1 # 1 /\ (n + 1) - 1 = n
                BY <1>3, <2>3
            <4>2. f[n + 1] = f[(n + 1) - 1] \o pieces[n + 1]
                BY <1>1, <1>3, <4>1, Zenon
            <4> QED
                BY <1>3, <4>1, <4>2, Zenon
        <3> QED
            BY <2>1, <3>1
    <2> QED
        BY <2>2, <2>3
<1>4. \A n \in Nat : n \in S => n + 1 \in S
    <2> SUFFICES ASSUME NEW n \in Nat, n \in S PROVE n + 1 \in S
        BY Zenon
    <2>1. n + 1 \in Nat
        OBVIOUS
    <2> QED
        BY <1>3, <2>1, Zenon
<1>5. Nat \subseteq S
    <2> HIDE DEF S
    <2> QED
        BY <1>2, <1>4, SetInduction
<1>6. \A n \in 1..Len(pieces) : f[n] \in Seq(X)
    BY <1>5
<1>7. f \in [1..Len(pieces) -> Seq(X)]
    <2>1. f = [n \in 1..Len(pieces) |-> f[n]]
        BY DEF Joins
    <2> QED
        BY <1>6, <2>1
<1> QED
    BY <1>1, <1>7

\* FlattenSeq is the last of the joins.
LEMMA FlattenIsJoin ==
    ASSUME NEW X, NEW pieces \in Seq(Seq(X)), pieces # <<>>
    PROVE  \E f : Joins(pieces, Len(pieces), f) /\ FlattenSeq(pieces) = f[Len(pieces)]
<1> DEFINE flatten[n \in 1..Len(pieces)] == IF n = 1 THEN pieces[n] ELSE flatten[n - 1] \o pieces[n]
<1>1. PICK f \in [1..Len(pieces) -> Seq(X)] : Joins(pieces, Len(pieces), f)
    BY JoinsExists
<1>2. flatten = CHOOSE g :
          g = [n \in 1..Len(pieces) |-> IF n = 1 THEN pieces[n] ELSE g[n - 1] \o pieces[n]]
    OBVIOUS
<1>3. Joins(pieces, Len(pieces), CHOOSE g : Joins(pieces, Len(pieces), g))
    BY <1>1, Zenon
<1>4. Joins(pieces, Len(pieces), flatten)
    BY <1>2, <1>3, Zenon DEF Joins
<1>5. FlattenSeq(pieces) = flatten[Len(pieces)]
    <2>1. Len(pieces) # 0
        OBVIOUS
    <2> QED
        BY <2>1, Zenon DEF FlattenSeq
<1> QED
    BY <1>4, <1>5, Zenon

-----------------------------------------------------------------------------
(* What a diagram means, rung by rung.                                      *)

CoilStates == [Coils -> BOOLEAN]

LEMMA SetCoilType ==
    ASSUME NEW co \in CoilStates, NEW adr, NEW v \in BOOLEAN
    PROVE  SetCoil(co, adr, v) \in CoilStates
BY DEF SetCoil, CoilStates

LEMMA RungMeansType ==
    ASSUME NEW co \in CoilStates, NEW in, NEW rung
    PROVE  RungMeans(co, in, rung) \in CoilStates
<1> DEFINE p == Power(rung, co, in)
<1>1. p \in BOOLEAN /\ (~p) \in BOOLEAN
    BY Zenon DEF Power
<1>2. /\ SetCoil(co, rung.adr, p) \in CoilStates
      /\ SetCoil(co, rung.adr, ~p) \in CoilStates
      /\ SetCoil(co, rung.adr, TRUE) \in CoilStates
      /\ SetCoil(co, rung.adr, FALSE) \in CoilStates
    BY <1>1, SetCoilType, Zenon
<1> HIDE DEF p
<1>3. RungMeans(co, in, rung) =
        CASE rung.out = "OUT" -> SetCoil(co, rung.adr, p)
          [] rung.out = "OUT_NOT" -> SetCoil(co, rung.adr, ~p)
          [] rung.out = "SET" /\ p -> SetCoil(co, rung.adr, TRUE)
          [] rung.out = "RST" /\ p -> SetCoil(co, rung.adr, FALSE)
          [] OTHER -> co
    BY Zenon DEF RungMeans, p
<1>4. CASE rung.out = "OUT"
    BY <1>2, <1>3, <1>4
<1>5. CASE rung.out = "OUT_NOT"
    BY <1>2, <1>3, <1>5
<1>6. CASE rung.out = "SET"
    BY <1>2, <1>3, <1>6
<1>7. CASE rung.out = "RST"
    BY <1>2, <1>3, <1>7
<1>8. CASE rung.out \notin {"OUT", "OUT_NOT", "SET", "RST"}
    BY <1>3, <1>8
<1> QED
    BY <1>4, <1>5, <1>6, <1>7, <1>8

\* f has the coils after each of the first m rungs.
Afters(rungs, co, in, m, f) ==
    f = [n \in 0..m |-> IF n = 0 THEN co ELSE RungMeans(f[n - 1], in, rungs[n])]

LEMMA AftersExists ==
    ASSUME NEW rungs, NEW co \in CoilStates, NEW in
    PROVE  \A m \in Nat : \E f \in [0..m -> CoilStates] : Afters(rungs, co, in, m, f)
<1> DEFINE S == {m \in Nat : \E f \in [0..m -> CoilStates] : Afters(rungs, co, in, m, f)}
<1>1. 0 \in S
    <2> DEFINE f == [n \in 0..0 |-> co]
    <2>1. f \in [0..0 -> CoilStates]
        OBVIOUS
    <2>2. Afters(rungs, co, in, 0, f)
        <3> DEFINE h == [n \in 0..0 |-> IF n = 0 THEN co ELSE RungMeans(f[n - 1], in, rungs[n])]
        <3>1. \A n \in 0..0 : f[n] = h[n]
            OBVIOUS
        <3>2. h = [n \in 0..0 |-> h[n]] /\ f = [n \in 0..0 |-> f[n]]
            OBVIOUS
        <3> HIDE DEF h, f
        <3>3. f = h
            BY <3>1, <3>2, Zenon
        <3> QED
            BY <3>3, Zenon DEF Afters, h
    <2> HIDE DEF f
    <2> QED
        BY <2>1, <2>2
<1>2. ASSUME NEW m \in Nat, NEW g \in [0..m -> CoilStates], Afters(rungs, co, in, m, g)
      PROVE  \E f \in [0..m + 1 -> CoilStates] : Afters(rungs, co, in, m + 1, f)
    <2> DEFINE f == [n \in 0..m + 1 |-> IF n = m + 1 THEN RungMeans(g[m], in, rungs[m + 1]) ELSE g[n]]
               h == [n \in 0..m + 1 |-> IF n = 0 THEN co ELSE RungMeans(f[n - 1], in, rungs[n])]
    <2>1. f \in [0..m + 1 -> CoilStates]
        <3>1. g[m] \in CoilStates
            OBVIOUS
        <3>2. RungMeans(g[m], in, rungs[m + 1]) \in CoilStates
            BY <3>1, RungMeansType
        <3> QED
            BY <3>2
    <2>2. \A n \in 0..m + 1 : f[n] = h[n]
        <3> SUFFICES ASSUME NEW n \in 0..m + 1 PROVE f[n] = h[n]
            OBVIOUS
        <3>1. CASE n = m + 1
            <4>1. n - 1 = m /\ m \in 0..m + 1 /\ m # m + 1 /\ n # 0
                BY <3>1
            <4>2. f[n - 1] = g[m]
                BY <4>1
            <4>3. f[n] = RungMeans(g[m], in, rungs[n])
                BY <3>1
            <4> QED
                BY <4>1, <4>2, <4>3
        <3>2. CASE n \in 1..m
            <4>1. n - 1 \in 0..m + 1 /\ n - 1 # m + 1 /\ n \in 0..m /\ n # 0 /\ n # m + 1
                BY <3>2
            <4>2. f[n - 1] = g[n - 1] /\ f[n] = g[n]
                BY <4>1
            <4>3. g[n] = RungMeans(g[n - 1], in, rungs[n])
                BY <1>2, <4>1 DEF Afters
            <4> QED
                BY <4>1, <4>2, <4>3
        <3>3. CASE n = 0
            <4>1. f[0] = g[0]
                OBVIOUS
            <4>2. g[0] = co
                BY <1>2 DEF Afters
            <4> QED
                BY <3>3, <4>1, <4>2
        <3> QED
            BY <3>1, <3>2, <3>3
    <2>3. h = [n \in 0..m + 1 |-> h[n]] /\ f = [n \in 0..m + 1 |-> f[n]]
        OBVIOUS
    <2> HIDE DEF f, h
    <2>4. f = h
        BY <2>2, <2>3, Zenon
    <2>5. Afters(rungs, co, in, m + 1, f)
        BY <2>4, Zenon DEF Afters, h
    <2> QED
        BY <2>1, <2>5
<1>3. \A m \in Nat : m \in S => m + 1 \in S
    <2> SUFFICES ASSUME NEW m \in Nat, m \in S PROVE m + 1 \in S
        BY Zenon
    <2>1. m + 1 \in Nat
        OBVIOUS
    <2> QED
        BY <1>2, <2>1, Zenon
<1>4. Nat \subseteq S
    <2> HIDE DEF S
    <2> QED
        BY <1>1, <1>3, SetInduction
<1> QED
    BY <1>4

\* The coils after each rung, and Meaning as the last of them.
LEMMA MeaningSteps ==
    ASSUME NEW rungs \in Seq(Rungs), NEW co \in CoilStates, NEW in
    PROVE  \E f \in [0..Len(rungs) -> CoilStates] :
               /\ f[0] = co
               /\ \A n \in 1..Len(rungs) : f[n] = RungMeans(f[n - 1], in, rungs[n])
               /\ Meaning(rungs, co, in) = f[Len(rungs)]
<1> DEFINE after[n \in 0..Len(rungs)] == IF n = 0 THEN co ELSE RungMeans(after[n - 1], in, rungs[n])
<1>1. \E f : Afters(rungs, co, in, Len(rungs), f)
    <2>1. Len(rungs) \in Nat
        OBVIOUS
    <2> QED
        BY <2>1, AftersExists
<1>2. after = CHOOSE g :
          g = [n \in 0..Len(rungs) |-> IF n = 0 THEN co ELSE RungMeans(g[n - 1], in, rungs[n])]
    OBVIOUS
<1>3. Afters(rungs, co, in, Len(rungs), CHOOSE g : Afters(rungs, co, in, Len(rungs), g))
    BY <1>1, Zenon
<1>4. Afters(rungs, co, in, Len(rungs), after) /\ Meaning(rungs, co, in) = after[Len(rungs)]
    BY <1>2, <1>3, Zenon DEF Afters, Meaning
<1>5. PICK f : Afters(rungs, co, in, Len(rungs), f) /\ Meaning(rungs, co, in) = f[Len(rungs)]
    BY <1>4, Zenon
<1>6. f[0] = co /\ \A n \in 1..Len(rungs) : f[n] = RungMeans(f[n - 1], in, rungs[n])
    BY <1>5 DEF Afters
<1> DEFINE S == {n \in Nat : n \in 0..Len(rungs) => f[n] \in CoilStates}
<1>7. 0 \in S
    BY <1>6
<1>8. ASSUME NEW n \in Nat, n \in 0..Len(rungs) => f[n] \in CoilStates, n + 1 \in 0..Len(rungs)
      PROVE  f[n + 1] \in CoilStates
    <2>1. n \in 0..Len(rungs) /\ n + 1 \in 1..Len(rungs) /\ (n + 1) - 1 = n
        BY <1>8
    <2>2. f[n + 1] = RungMeans(f[(n + 1) - 1], in, rungs[n + 1])
        BY <1>6, <2>1, Zenon
    <2> QED
        BY <1>8, <2>1, <2>2, RungMeansType, Zenon
<1>9. \A n \in Nat : n \in S => n + 1 \in S
    <2> SUFFICES ASSUME NEW n \in Nat, n \in S PROVE n + 1 \in S
        BY Zenon
    <2>1. n + 1 \in Nat
        OBVIOUS
    <2> QED
        BY <1>8, <2>1, Zenon
<1>10. Nat \subseteq S
    <2> HIDE DEF S
    <2> QED
        BY <1>7, <1>9, SetInduction
<1>11. f \in [0..Len(rungs) -> CoilStates]
    <2>1. \A n \in 0..Len(rungs) : f[n] \in CoilStates
        BY <1>10
    <2>2. f = [n \in 0..Len(rungs) |-> f[n]]
        BY <1>5 DEF Afters
    <2> QED
        BY <2>1, <2>2
<1> QED
    BY <1>5, <1>6, <1>11

-----------------------------------------------------------------------------
(* Running a piece of code.                                                 *)

\* The stack and the coils.
States == Seq(BOOLEAN) \X CoilStates

\* One turn of the loop of execute_scan.
Turn(ins, in, st) ==
    << StackAfter(ins.op, ReadBool(ins.cls, ins.adr, st[2], in), st[1]),
       CoilsAfter(ins.op, ins.adr, st[1], st[2]) >>

\* f goes from s to t by the instructions of c, none of which is END.
Trace(c, in, s, t, f) ==
    /\ f[0] = s /\ f[Len(c)] = t
    /\ \A k \in 1..Len(c) : c[k].op # "END" /\ f[k] = Turn(c[k], in, f[k - 1])

Runs(c, in, s, t) == \E f \in [0..Len(c) -> States] : Trace(c, in, s, t, f)

LEMMA RunsNothing == \A in : \A s \in States : Runs(<<>>, in, s, s)
<1> SUFFICES ASSUME NEW in, NEW s \in States PROVE Runs(<<>>, in, s, s)
    OBVIOUS
<1> DEFINE f == [k \in 0..0 |-> s]
<1>1. f \in [0..Len(<<>>) -> States]
    OBVIOUS
<1>2. Trace(<<>>, in, s, s, f)
    BY DEF Trace
<1> HIDE DEF f
<1> QED
    BY <1>1, <1>2, Zenon DEF Runs

LEMMA RunsOne ==
    ASSUME NEW in, NEW ins \in Instrs, ins.op # "END", NEW s \in States, Turn(ins, in, s) \in States
    PROVE  Runs(<<ins>>, in, s, Turn(ins, in, s))
<1> DEFINE f == [k \in 0..1 |-> IF k = 0 THEN s ELSE Turn(ins, in, s)]
<1>1. f \in [0..Len(<<ins>>) -> States]
    OBVIOUS
<1>2. Trace(<<ins>>, in, s, Turn(ins, in, s), f)
    BY DEF Trace
<1> HIDE DEF f
<1> QED
    BY <1>1, <1>2, Zenon DEF Runs

LEMMA RunsJoin ==
    ASSUME NEW in, NEW c \in Seq(Instrs), NEW d \in Seq(Instrs), NEW s, NEW t, NEW u,
           Runs(c, in, s, t), Runs(d, in, t, u)
    PROVE  Runs(c \o d, in, s, u)
<1>1. PICK g \in [0..Len(c) -> States] : Trace(c, in, s, t, g)
    BY Zenon DEF Runs
<1>2. PICK h \in [0..Len(d) -> States] : Trace(d, in, t, u, h)
    BY Zenon DEF Runs
<1> DEFINE f == [k \in 0..Len(c) + Len(d) |-> IF k <= Len(c) THEN g[k] ELSE h[k - Len(c)]]
<1>3. Len(c) \in Nat /\ Len(d) \in Nat /\ Len(c \o d) = Len(c) + Len(d)
    OBVIOUS
<1>4. f \in [0..Len(c \o d) -> States]
    BY <1>3
<1>5. f[0] = s
    BY <1>1, <1>3 DEF Trace
<1>6. f[Len(c \o d)] = u
    <2>1. CASE Len(d) = 0
        BY <1>1, <1>2, <1>3, <2>1 DEF Trace
    <2>2. CASE Len(d) # 0
        BY <1>2, <1>3, <2>2 DEF Trace
    <2> QED
        BY <2>1, <2>2
<1>7. ASSUME NEW k \in 1..Len(c \o d)
      PROVE  (c \o d)[k].op # "END" /\ f[k] = Turn((c \o d)[k], in, f[k - 1])
    <2>1. CASE k <= Len(c)
        <3>1. (c \o d)[k] = c[k] /\ k \in 1..Len(c)
            BY <1>3, <2>1
        <3>2. f[k] = g[k] /\ f[k - 1] = g[k - 1]
            BY <1>3, <2>1
        <3> QED
            BY <1>1, <3>1, <3>2 DEF Trace
    <2>2. CASE k > Len(c)
        <3> DEFINE j == k - Len(c)
        <3>1. (c \o d)[k] = d[j] /\ j \in 1..Len(d)
            BY <1>3, <2>2
        <3>2. f[k] = h[j] /\ f[k - 1] = h[j - 1]
            <4>1. CASE j = 1
                BY <1>1, <1>2, <1>3, <2>2, <4>1 DEF Trace
            <4>2. CASE j # 1
                BY <1>3, <2>2, <4>2
            <4> QED
                BY <1>3, <2>2, <4>1, <4>2
        <3> HIDE DEF j
        <3> QED
            BY <1>2, <3>1, <3>2 DEF Trace
    <2> QED
        BY <1>3, <2>1, <2>2
<1> HIDE DEF f
<1>8. Trace(c \o d, in, s, u, f)
    BY <1>5, <1>6, <1>7 DEF Trace
<1> QED
    BY <1>4, <1>8, Zenon DEF Runs

\* Pieces that run one after the other, through the states of a family.
LEMMA RunsFlatten ==
    ASSUME NEW in, NEW pieces \in Seq(Seq(Instrs)), NEW st \in [0..Len(pieces) -> States],
           \A n \in 1..Len(pieces) : Runs(pieces[n], in, st[n - 1], st[n])
    PROVE  /\ FlattenSeq(pieces) \in Seq(Instrs)
           /\ Runs(FlattenSeq(pieces), in, st[0], st[Len(pieces)])
<1>1. CASE pieces = <<>>
    <2>1. FlattenSeq(pieces) = <<>> /\ Len(pieces) = 0
        BY <1>1 DEF FlattenSeq
    <2>2. st[0] \in States
        BY <2>1
    <2>3. Runs(<<>>, in, st[0], st[0])
        BY <2>2, RunsNothing, Zenon
    <2> QED
        BY <2>1, <2>3
<1>2. CASE pieces # <<>>
    <2>1. PICK f : Joins(pieces, Len(pieces), f) /\ FlattenSeq(pieces) = f[Len(pieces)]
        BY <1>2, FlattenIsJoin
    <2>2. f \in [1..Len(pieces) -> Seq(Instrs)]
        BY <2>1, JoinsValues
    <2>3. \A n \in 1..Len(pieces) : f[n] = IF n = 1 THEN pieces[n] ELSE f[n - 1] \o pieces[n]
        BY <2>1, JoinsValues
    <2>4. Len(pieces) \in Nat /\ Len(pieces) > 0
        BY <1>2
    <2> DEFINE S == {n \in Nat : n \in 1..Len(pieces) => Runs(f[n], in, st[0], st[n])}
    <2>5. 0 \in S
        OBVIOUS
    <2>6. ASSUME NEW n \in Nat, n \in 1..Len(pieces) => Runs(f[n], in, st[0], st[n]),
                 n + 1 \in 1..Len(pieces)
          PROVE  Runs(f[n + 1], in, st[0], st[n + 1])
        <3>1. Runs(pieces[n + 1], in, st[(n + 1) - 1], st[n + 1])
            BY <2>6, Zenon
        <3>2. (n + 1) - 1 = n
            OBVIOUS
        <3>3. CASE n = 0
            <4>1. f[n + 1] = pieces[n + 1]
                BY <2>3, <2>6, <3>3
            <4> QED
                BY <3>1, <3>2, <3>3, <4>1
        <3>4. CASE n # 0
            <4>1. n \in 1..Len(pieces) /\ n + 1 # 1
                BY <2>4, <2>6, <3>4
            <4>2. f[n + 1] = f[(n + 1) - 1] \o pieces[n + 1]
                BY <2>3, <2>6, <4>1, Zenon
            <4>3. f[n] \in Seq(Instrs) /\ pieces[n + 1] \in Seq(Instrs)
                <5> HIDE DEF S
                <5>1. f[n] \in Seq(Instrs)
                    BY <2>2, <4>1
                <5>2. pieces[n + 1] \in Seq(Instrs)
                    BY <2>6
                <5> QED
                    BY <5>1, <5>2
            <4>4. Runs(f[n], in, st[0], st[n])
                BY <2>6, <4>1, Zenon
            <4>5. Runs(f[n] \o pieces[n + 1], in, st[0], st[n + 1])
                BY <3>1, <3>2, <4>3, <4>4, RunsJoin
            <4> QED
                BY <3>2, <4>2, <4>5
        <3> QED
            BY <3>3, <3>4
    <2>7. \A n \in Nat : n \in S => n + 1 \in S
        <3> SUFFICES ASSUME NEW n \in Nat, n \in S PROVE n + 1 \in S
            BY Zenon
        <3>1. n + 1 \in Nat
            OBVIOUS
        <3> QED
            BY <2>6, <3>1, Zenon
    <2>8. Nat \subseteq S
        <3> HIDE DEF S
        <3> QED
            BY <2>5, <2>7, SetInduction
    <2>9. Len(pieces) \in S /\ Len(pieces) \in 1..Len(pieces)
        <3> HIDE DEF S
        <3> QED
            BY <2>4, <2>8
    <2>10. Runs(f[Len(pieces)], in, st[0], st[Len(pieces)])
        BY <2>9, Zenon
    <2>11. f[Len(pieces)] \in Seq(Instrs)
        BY <2>2, <2>9
    <2> QED
        BY <2>1, <2>10, <2>11, Zenon
<1> QED
    BY <1>1, <1>2

-----------------------------------------------------------------------------
(* Single instructions.                                                     *)

LEMMA TopAndDrop ==
    ASSUME NEW s \in Seq(BOOLEAN), NEW v \in BOOLEAN
    PROVE  /\ Append(s, v) \in Seq(BOOLEAN) /\ Len(Append(s, v)) = Len(s) + 1
           /\ Top(Append(s, v)) = v
           /\ Drop(Append(s, v)) = s
<1>1. Append(s, v) \in Seq(BOOLEAN) /\ Len(Append(s, v)) = Len(s) + 1 /\ Append(s, v) # <<>>
    OBVIOUS
<1>2. Append(s, v)[Len(s) + 1] = v
    OBVIOUS
<1>3. Top(Append(s, v)) = v
    BY <1>1, <1>2 DEF Top
<1>4. SubSeq(Append(s, v), 1, Len(s)) = s
    OBVIOUS
<1>5. Drop(Append(s, v)) = s
    <2>1. Drop(Append(s, v)) = SubSeq(Append(s, v), 1, Len(Append(s, v)) - 1)
        BY <1>1, Zenon DEF Drop
    <2>2. Len(Append(s, v)) - 1 = Len(s)
        BY <1>1
    <2> QED
        BY <1>4, <2>1, <2>2, Zenon
<1> QED
    BY <1>1, <1>3, <1>5

LEMMA ReadIsBoolean == \A cls, adr, co, in : ReadBool(cls, adr, co, in) \in BOOLEAN
BY Zenon DEF ReadBool

LEMMA PushFits ==
    ASSUME NEW s \in Seq(BOOLEAN), NEW v, Len(s) < Depth
    PROVE  Push(s, v) = Append(s, v)
<1>1. ~ (Len(s) >= Depth)
    BY LadderAssumption
<1> QED
    BY <1>1, Zenon DEF Push

\* What one instruction does to a stack that holds what it needs.
LEMMA LoadTurn ==
    ASSUME NEW s \in Seq(BOOLEAN), Len(s) < Depth, NEW co, NEW in, NEW ins
    PROVE  /\ ins.op = "LD" =>
                Turn(ins, in, <<s, co>>) = <<Append(s, ReadBool(ins.cls, ins.adr, co, in)), co>>
           /\ ins.op = "LD_NOT" =>
                Turn(ins, in, <<s, co>>) = <<Append(s, ~ReadBool(ins.cls, ins.adr, co, in)), co>>
<1> DEFINE v == ReadBool(ins.cls, ins.adr, co, in)
<1>1. StackAfter("LD", v, s) = Push(s, v) /\ StackAfter("LD_NOT", v, s) = Push(s, ~v)
    BY DEF StackAfter
<1>2. \A op \in {"LD", "LD_NOT"} : CoilsAfter(op, ins.adr, s, co) = co
    BY DEF CoilsAfter
<1>3. Turn(ins, in, <<s, co>>) = <<StackAfter(ins.op, v, s), CoilsAfter(ins.op, ins.adr, s, co)>>
    BY DEF Turn
<1>4. Push(s, v) = Append(s, v) /\ Push(s, ~v) = Append(s, ~v)
    BY PushFits, Zenon
<1> HIDE DEF v
<1>5. /\ ins.op = "LD" => Turn(ins, in, <<s, co>>) = <<Append(s, v), co>>
      /\ ins.op = "LD_NOT" => Turn(ins, in, <<s, co>>) = <<Append(s, ~v), co>>
    BY <1>1, <1>2, <1>3, <1>4, Zenon
<1> QED
    BY <1>5, Zenon DEF v

\* One instruction takes the stack from s to u and leaves the coils alone.
Pushes(ins, in, co, s, u) == Turn(ins, in, <<s, co>>) = <<u, co>>

LEMMA AndNotTurn ==
    ASSUME NEW s \in Seq(BOOLEAN), Len(s) < Depth, NEW a \in BOOLEAN, NEW co, NEW in, NEW ins
    PROVE  ins.op = "AND_NOT" => Pushes(ins, in, co, Append(s, a),
                                      Append(s, a /\ ~ReadBool(ins.cls, ins.adr, co, in)))
<1> DEFINE z == Append(s, a)
           v == ReadBool(ins.cls, ins.adr, co, in)
<1>1. Top(z) = a /\ Drop(z) = s
    BY TopAndDrop
<1>2. Turn(ins, in, <<z, co>>) = <<StackAfter(ins.op, v, z), CoilsAfter(ins.op, ins.adr, z, co)>>
    BY DEF Turn
<1> HIDE DEF z, v
<1>3. StackAfter("AND_NOT", v, z) = Push(Drop(z), Top(z) /\ ~v)
    BY DEF StackAfter
<1>4. CoilsAfter("AND_NOT", ins.adr, z, co) = co
    BY DEF CoilsAfter
<1>5. Push(s, a /\ ~v) = Append(s, a /\ ~v)
    BY PushFits, Zenon
<1>6. ins.op = "AND_NOT" => Turn(ins, in, <<z, co>>) = <<Append(s, a /\ ~v), co>>
    BY <1>1, <1>2, <1>3, <1>4, <1>5, Zenon
<1> QED
    BY <1>6, Zenon DEF Pushes, z, v

LEMMA OrNotTurn ==
    ASSUME NEW s \in Seq(BOOLEAN), Len(s) < Depth, NEW a \in BOOLEAN, NEW co, NEW in, NEW ins
    PROVE  ins.op = "OR_NOT" => Pushes(ins, in, co, Append(s, a),
                                      Append(s, a \/ ~ReadBool(ins.cls, ins.adr, co, in)))
<1> DEFINE z == Append(s, a)
           v == ReadBool(ins.cls, ins.adr, co, in)
<1>1. Top(z) = a /\ Drop(z) = s
    BY TopAndDrop
<1>2. Turn(ins, in, <<z, co>>) = <<StackAfter(ins.op, v, z), CoilsAfter(ins.op, ins.adr, z, co)>>
    BY DEF Turn
<1> HIDE DEF z, v
<1>3. StackAfter("OR_NOT", v, z) = Push(Drop(z), Top(z) \/ ~v)
    BY DEF StackAfter
<1>4. CoilsAfter("OR_NOT", ins.adr, z, co) = co
    BY DEF CoilsAfter
<1>5. Push(s, a \/ ~v) = Append(s, a \/ ~v)
    BY PushFits, Zenon
<1>6. ins.op = "OR_NOT" => Turn(ins, in, <<z, co>>) = <<Append(s, a \/ ~v), co>>
    BY <1>1, <1>2, <1>3, <1>4, <1>5, Zenon
<1> QED
    BY <1>6, Zenon DEF Pushes, z, v

LEMMA TopTwo ==
    ASSUME NEW s \in Seq(BOOLEAN), NEW a \in BOOLEAN, NEW b \in BOOLEAN, NEW z,
           z = Append(Append(s, b), a)
    PROVE  Top(z) = a /\ Top(Drop(z)) = b /\ Drop(Drop(z)) = s
<1> DEFINE y == Append(s, b)
<1>1. y \in Seq(BOOLEAN) /\ Top(y) = b /\ Drop(y) = s
    BY TopAndDrop
<1> HIDE DEF y
<1>2. Top(Append(y, a)) = a /\ Drop(Append(y, a)) = y
    BY <1>1, TopAndDrop
<1> QED
    BY <1>1, <1>2, Zenon DEF y

LEMMA AndTurn ==
    ASSUME NEW s \in Seq(BOOLEAN), Len(s) < Depth, NEW a \in BOOLEAN, NEW b \in BOOLEAN,
           NEW co, NEW in, NEW ins
    PROVE  ins.op = "AND" => Pushes(ins, in, co, Append(Append(s, b), a),
                                      Append(s, b /\ a))
<1> DEFINE z == Append(Append(s, b), a)
           v == ReadBool(ins.cls, ins.adr, co, in)
<1>1. Top(z) = a /\ Top(Drop(z)) = b /\ Drop(Drop(z)) = s
    BY TopTwo, Zenon
<1>2. Turn(ins, in, <<z, co>>) = <<StackAfter(ins.op, v, z), CoilsAfter(ins.op, ins.adr, z, co)>>
    BY DEF Turn
<1> HIDE DEF z, v
<1>3. StackAfter("AND", v, z) = Push(Drop(Drop(z)), Top(Drop(z)) /\ Top(z))
    BY DEF StackAfter
<1>4. CoilsAfter("AND", ins.adr, z, co) = co
    BY DEF CoilsAfter
<1>5. Push(s, b /\ a) = Append(s, b /\ a)
    BY PushFits, Zenon
<1>6. ins.op = "AND" => Turn(ins, in, <<z, co>>) = <<Append(s, b /\ a), co>>
    BY <1>1, <1>2, <1>3, <1>4, <1>5, Zenon
<1> QED
    BY <1>6, Zenon DEF Pushes, z

LEMMA OrTurn ==
    ASSUME NEW s \in Seq(BOOLEAN), Len(s) < Depth, NEW a \in BOOLEAN, NEW b \in BOOLEAN,
           NEW co, NEW in, NEW ins
    PROVE  ins.op = "OR" => Pushes(ins, in, co, Append(Append(s, b), a),
                                      Append(s, b \/ a))
<1> DEFINE z == Append(Append(s, b), a)
           v == ReadBool(ins.cls, ins.adr, co, in)
<1>1. Top(z) = a /\ Top(Drop(z)) = b /\ Drop(Drop(z)) = s
    BY TopTwo, Zenon
<1>2. Turn(ins, in, <<z, co>>) = <<StackAfter(ins.op, v, z), CoilsAfter(ins.op, ins.adr, z, co)>>
    BY DEF Turn
<1> HIDE DEF z, v
<1>3. StackAfter("OR", v, z) = Push(Drop(Drop(z)), Top(Drop(z)) \/ Top(z))
    BY DEF StackAfter
<1>4. CoilsAfter("OR", ins.adr, z, co) = co
    BY DEF CoilsAfter
<1>5. Push(s, b \/ a) = Append(s, b \/ a)
    BY PushFits, Zenon
<1>6. ins.op = "OR" => Turn(ins, in, <<z, co>>) = <<Append(s, b \/ a), co>>
    BY <1>1, <1>2, <1>3, <1>4, <1>5, Zenon
<1> QED
    BY <1>6, Zenon DEF Pushes, z

CoilOps == {"OUT", "OUT_NOT", "SET", "RST"}

\* A coil takes the one value of the stack, or FALSE when there is none.
Driven(op, adr, v, co) ==
    CASE op = "OUT" -> SetCoil(co, adr, v)
      [] op = "OUT_NOT" -> SetCoil(co, adr, ~v)
      [] op = "SET" /\ v -> SetCoil(co, adr, TRUE)
      [] op = "RST" /\ v -> SetCoil(co, adr, FALSE)
      [] OTHER -> co

\* The last instruction of a rung: the stack s is emptied, the coil takes v.
Drives(ins, in, co, s, v) == Turn(ins, in, <<s, co>>) = <<<<>>, Driven(ins.op, ins.adr, v, co)>>

LEMMA CoilTurn ==
    ASSUME NEW co, NEW in, NEW ins, ins.op \in CoilOps,
           NEW v \in BOOLEAN
    PROVE  Drives(ins, in, co, Append(<<>>, v), v) /\ Drives(ins, in, co, <<>>, FALSE)
<1> DEFINE u == ReadBool(ins.cls, ins.adr, co, in)
<1>1. \A z : StackAfter(ins.op, u, z) = Drop(z)
    <2> HIDE DEF u
    <2> QED
        BY DEF StackAfter, CoilOps
<1>2. \A z : CoilsAfter(ins.op, ins.adr, z, co) = Driven(ins.op, ins.adr, Top(z), co)
    BY Zenon DEF CoilsAfter, Driven
<1>3. \A z : Turn(ins, in, <<z, co>>) = <<StackAfter(ins.op, u, z), CoilsAfter(ins.op, ins.adr, z, co)>>
    BY DEF Turn
<1>4. <<>> \in Seq(BOOLEAN)
    OBVIOUS
<1>5. Top(Append(<<>>, v)) = v /\ Drop(Append(<<>>, v)) = <<>>
    BY <1>4, TopAndDrop, Zenon
<1>6. Top(<<>>) = FALSE /\ Drop(<<>>) = <<>>
    BY Zenon DEF Top, Drop
<1> HIDE DEF u
<1> QED
    BY <1>1, <1>2, <1>3, <1>5, <1>6, Zenon DEF Drives

-----------------------------------------------------------------------------
(* The code of a contact, of a branch, of a rung and of a diagram.          *)

LEMMA InstrType ==
    ASSUME NEW k \in Contacts, NEW op \in Ops
    PROVE  /\ Instr(op, k) \in Instrs
           /\ Instr(op, k).op = op /\ Instr(op, k).cls = k.cls /\ Instr(op, k).adr = k.adr
BY DEF Instr, Instrs, Contacts

LEMMA ClosedValue ==
    ASSUME NEW k \in Contacts, NEW co, NEW in
    PROVE  /\ Closed(k, co, in) \in BOOLEAN
           /\ ReadBool(k.cls, k.adr, co, in) \in BOOLEAN
           /\ Closed(k, co, in) = IF k.neg THEN ~ReadBool(k.cls, k.adr, co, in)
                                           ELSE ReadBool(k.cls, k.adr, co, in)
<1> DEFINE v == ReadBool(k.cls, k.adr, co, in)
<1>1. v \in BOOLEAN
    BY ReadIsBoolean, Zenon
<1>2. k.neg \in BOOLEAN
    BY DEF Contacts
<1>3. Closed(k, co, in) = (v # k.neg)
    BY Zenon DEF Closed
<1> HIDE DEF v
<1>4. (v # k.neg) = IF k.neg THEN ~v ELSE v
    BY <1>1, <1>2, Zenon
<1>5. Closed(k, co, in) \in BOOLEAN /\ Closed(k, co, in) = IF k.neg THEN ~v ELSE v
    BY <1>1, <1>3, <1>4, Zenon
<1> QED
    BY <1>1, <1>5, Zenon DEF v

\* A state with one value more than s.
LEMMA StatesHold ==
    ASSUME NEW s \in Seq(BOOLEAN), NEW co \in CoilStates, NEW v \in BOOLEAN
    PROVE  <<s, co>> \in States /\ <<Append(s, v), co>> \in States /\ Append(s, v) \in Seq(BOOLEAN)
<1>1. Append(s, v) \in Seq(BOOLEAN)
    OBVIOUS
<1> QED
    BY <1>1 DEF States

LEMMA JoinOfTwo ==
    ASSUME NEW X, NEW x \in X, NEW y \in X
    PROVE  <<x>> \o <<y>> = <<x, y>> /\ <<x>> \in Seq(X) /\ <<x, y>> \in Seq(X)
<1> DEFINE p == <<x>>
           q == <<y>>
           pq == <<x, y>>
<1>1. p \in Seq(X) /\ q \in Seq(X) /\ pq \in Seq(X)
    OBVIOUS
<1>2. Len(p) = 1 /\ Len(q) = 1 /\ Len(pq) = 2 /\ p[1] = x /\ q[1] = y /\ pq[1] = x /\ pq[2] = y
    OBVIOUS
<1> HIDE DEF p, q, pq
<1>3. /\ p \o q \in Seq(X) /\ Len(p \o q) = 2
      /\ \A n \in 1..2 : (p \o q)[n] = IF n <= 1 THEN p[n] ELSE q[n - 1]
    <2>1. /\ p \o q \in Seq(X)
          /\ Len(p \o q) = Len(p) + Len(q)
          /\ \A n \in 1..Len(p) + Len(q) :
                (p \o q)[n] = IF n <= Len(p) THEN p[n] ELSE q[n - Len(p)]
        BY <1>1, ConcatProperties, Zenon
    <2> QED
        BY <1>2, <2>1
<1>4. \A n \in 1..2 : (p \o q)[n] = pq[n]
    BY <1>2, <1>3
<1>5. p \o q = pq
    BY <1>1, <1>2, <1>3, <1>4, SeqEqual
<1> QED
    BY <1>1, <1>5, Zenon DEF p, q, pq

\* The first contact of a branch.
LEMMA FirstContact ==
    ASSUME NEW k \in Contacts, NEW s \in Seq(BOOLEAN), Len(s) < Depth, NEW co \in CoilStates, NEW in
    PROVE  /\ ContactCode(k, TRUE) \in Seq(Instrs)
           /\ Runs(ContactCode(k, TRUE), in, <<s, co>>, <<Append(s, Closed(k, co, in)), co>>)
<1> DEFINE op == IF k.neg THEN "LD_NOT" ELSE "LD"
           ins == Instr(op, k)
           v == ReadBool(k.cls, k.adr, co, in)
<1>1. op \in Ops /\ op # "END"
    BY DEF Ops
<1>2. ins \in Instrs /\ ins.op = op /\ ins.cls = k.cls /\ ins.adr = k.adr
    <2> HIDE DEF op
    <2> QED
        BY <1>1, InstrType
<1>3. ContactCode(k, TRUE) = <<ins>>
    BY Zenon DEF ContactCode
<1>4. <<s, co>> \in States /\ <<Append(s, Closed(k, co, in)), co>> \in States
    BY ClosedValue, StatesHold, Zenon
<1>5. v = ReadBool(ins.cls, ins.adr, co, in)
    <2> HIDE DEF ins
    <2> QED
        BY <1>2, Zenon
<1> HIDE DEF ins
<1>6. Turn(ins, in, <<s, co>>) = <<Append(s, Closed(k, co, in)), co>>
    <2>1. /\ ins.op = "LD" => Turn(ins, in, <<s, co>>) = <<Append(s, v), co>>
          /\ ins.op = "LD_NOT" => Turn(ins, in, <<s, co>>) = <<Append(s, ~v), co>>
        <3>1. /\ ins.op = "LD" =>
                    Turn(ins, in, <<s, co>>) = <<Append(s, ReadBool(ins.cls, ins.adr, co, in)), co>>
              /\ ins.op = "LD_NOT" =>
                    Turn(ins, in, <<s, co>>) = <<Append(s, ~ReadBool(ins.cls, ins.adr, co, in)), co>>
            BY LoadTurn, Zenon
        <3> HIDE DEF v
        <3> QED
            BY <1>5, <3>1, Zenon
    <2>2. Closed(k, co, in) = IF k.neg THEN ~v ELSE v
        BY ClosedValue, Zenon
    <2> HIDE DEF v
    <2>3. CASE k.neg
        BY <1>2, <2>1, <2>2, <2>3, Zenon
    <2>4. CASE ~k.neg
        BY <1>2, <2>1, <2>2, <2>4, Zenon
    <2> QED
        BY <2>3, <2>4
<1> HIDE DEF op
<1>7. Runs(<<ins>>, in, <<s, co>>, Turn(ins, in, <<s, co>>))
    BY <1>1, <1>2, <1>4, <1>6, RunsOne, Zenon
<1>8. <<ins>> \in Seq(Instrs)
    BY <1>2
<1> QED
    BY <1>3, <1>6, <1>7, <1>8, Zenon

\* Another contact: anded to what the ones before it gave.
LEMMA NextContact ==
    ASSUME NEW k \in Contacts, NEW s \in Seq(BOOLEAN), Len(s) + 1 < Depth, NEW a \in BOOLEAN,
           NEW co \in CoilStates, NEW in
    PROVE  /\ ContactCode(k, FALSE) \in Seq(Instrs)
           /\ Runs(ContactCode(k, FALSE), in, <<Append(s, a), co>>,
                   <<Append(s, a /\ Closed(k, co, in)), co>>)
<1> DEFINE v == ReadBool(k.cls, k.adr, co, in)
<1>1. /\ v \in BOOLEAN /\ Closed(k, co, in) = (IF k.neg THEN ~v ELSE v)
      /\ (a /\ Closed(k, co, in)) \in BOOLEAN
    BY ClosedValue, Zenon
<1>2. Append(s, a) \in Seq(BOOLEAN) /\ Len(Append(s, a)) < Depth
    BY LadderAssumption
<1>6. Len(s) < Depth
    BY LadderAssumption
<1>3. /\ <<Append(s, a), co>> \in States
      /\ <<Append(s, a /\ Closed(k, co, in)), co>> \in States
    BY <1>1, StatesHold, Zenon
<1> HIDE DEF v
<1>4. CASE k.neg
    <2> DEFINE ins == Instr("AND_NOT", k)
    <2>1. ins \in Instrs /\ ins.op = "AND_NOT" /\ v = ReadBool(ins.cls, ins.adr, co, in)
        <3>1. "AND_NOT" \in Ops
            BY DEF Ops
        <3> QED
            BY <3>1, InstrType, Zenon DEF v
    <2>2. ContactCode(k, FALSE) = <<ins>>
        BY <1>4, Zenon DEF ContactCode
    <2> HIDE DEF ins
    <2>3. Closed(k, co, in) = ~v
        BY <1>1, <1>4, Zenon
    <2>4. (a /\ Closed(k, co, in)) = (a /\ ~ReadBool(ins.cls, ins.adr, co, in))
        BY <2>1, <2>3, Zenon
    <2>5. Turn(ins, in, <<Append(s, a), co>>) = <<Append(s, a /\ Closed(k, co, in)), co>>
        <3>1. Pushes(ins, in, co, Append(s, a), Append(s, a /\ ~ReadBool(ins.cls, ins.adr, co, in)))
            BY <1>6, <2>1, AndNotTurn, Zenon
        <3> QED
            BY <2>1, <2>3, <2>4, <3>1, Zenon DEF Pushes
    <2>6. ins.op # "END"
        BY <2>1
    <2>7. Runs(<<ins>>, in, <<Append(s, a), co>>, <<Append(s, a /\ Closed(k, co, in)), co>>)
        BY <1>3, <2>1, <2>5, <2>6, RunsOne, Zenon
    <2>8. <<ins>> \in Seq(Instrs)
        BY <2>1
    <2> QED
        BY <2>2, <2>7, <2>8, Zenon
<1>5. CASE ~k.neg
    <2> DEFINE load == Instr("LD", k)
               and == Instr("AND", k)
    <2>1. /\ load \in Instrs /\ load.op = "LD" /\ v = ReadBool(load.cls, load.adr, co, in)
          /\ and \in Instrs /\ and.op = "AND"
        <3>1. "LD" \in Ops /\ "AND" \in Ops
            BY DEF Ops
        <3> QED
            BY <3>1, InstrType, Zenon DEF v
    <2>2. ContactCode(k, FALSE) = <<load, and>>
        BY <1>5, Zenon DEF ContactCode
    <2> HIDE DEF load, and
    <2>3. Turn(load, in, <<Append(s, a), co>>) = <<Append(Append(s, a), v), co>>
        <3>1. Turn(load, in, <<Append(s, a), co>>)
                = <<Append(Append(s, a), ReadBool(load.cls, load.adr, co, in)), co>>
            BY <1>2, <2>1, LoadTurn, Zenon
        <3> QED
            BY <2>1, <3>1, Zenon
    <2>4. Closed(k, co, in) = v
        BY <1>1, <1>5, Zenon
    <2>5. Turn(and, in, <<Append(Append(s, a), v), co>>) = <<Append(s, a /\ Closed(k, co, in)), co>>
        <3>1. Pushes(and, in, co, Append(Append(s, a), v), Append(s, a /\ v))
            BY <1>1, <1>6, <2>1, AndTurn, Zenon
        <3> QED
            BY <2>1, <2>3, <2>4, <3>1, Zenon DEF Pushes
    <2>6. load.op # "END" /\ and.op # "END"
        BY <2>1
    <2>7. <<Append(Append(s, a), v), co>> \in States
        BY <1>1, <1>2, StatesHold, Zenon
    <2>8. Runs(<<load>>, in, <<Append(s, a), co>>, <<Append(Append(s, a), v), co>>)
        BY <1>3, <2>1, <2>3, <2>6, <2>7, RunsOne, Zenon
    <2>9. Runs(<<and>>, in, <<Append(Append(s, a), v), co>>, <<Append(s, a /\ Closed(k, co, in)), co>>)
        BY <1>3, <2>1, <2>5, <2>6, <2>7, RunsOne, Zenon
    <2>10. <<load>> \in Seq(Instrs) /\ <<and>> \in Seq(Instrs) /\ <<load, and>> \in Seq(Instrs)
        BY <2>1
    <2>11. Runs(<<load>> \o <<and>>, in, <<Append(s, a), co>>,
                <<Append(s, a /\ Closed(k, co, in)), co>>)
        BY <2>8, <2>9, <2>10, RunsJoin, Zenon
    <2>12. <<load>> \o <<and>> = <<load, and>>
        BY <2>1, JoinOfTwo, Zenon
    <2> QED
        BY <2>2, <2>10, <2>11, <2>12, Zenon
<1> QED
    BY <1>4, <1>5

\* All the contacts of a branch are closed.
AllClosed(b, co, in) == \A k \in Range(b) : Closed(k, co, in)

LEMMA BranchRuns ==
    ASSUME NEW b \in Branches, NEW s \in Seq(BOOLEAN), Len(s) + 1 < Depth,
           NEW co \in CoilStates, NEW in
    PROVE  /\ BranchCode(b) \in Seq(Instrs)
           /\ Runs(BranchCode(b), in, <<s, co>>, <<Append(s, AllClosed(b, co, in)), co>>)
<1> DEFINE pieces == [n \in DOMAIN b |-> ContactCode(b[n], n = 1)]
           UpTo(n) == \A m \in 1..n : Closed(b[m], co, in)
           st == [n \in 0..Len(b) |-> IF n = 0 THEN <<s, co>> ELSE <<Append(s, UpTo(n)), co>>]
<1>1. /\ b \in Seq(Contacts) /\ Len(b) \in Nat /\ Len(b) > 0 /\ DOMAIN b = 1..Len(b)
      /\ \A n \in 1..Len(b) : b[n] \in Contacts
    BY DEF Branches
<1>2. Len(s) < Depth
    BY LadderAssumption
<1>3. \A n : UpTo(n) \in BOOLEAN
    BY Zenon
<1>4. \A n \in 1..Len(b) : pieces[n] = ContactCode(b[n], n = 1)
    BY <1>1
<1>5. pieces \in Seq(Seq(Instrs)) /\ Len(pieces) = Len(b)
    <2>1. ASSUME NEW n \in 1..Len(b) PROVE pieces[n] \in Seq(Instrs)
        <3>1. CASE n = 1
            <4>1. ContactCode(b[n], TRUE) \in Seq(Instrs)
                BY <1>1, <1>2, FirstContact, Zenon
            <4> QED
                BY <1>4, <3>1, <4>1, Zenon
        <3>2. CASE n # 1
            <4>1. ContactCode(b[n], FALSE) \in Seq(Instrs)
                BY <1>1, NextContact, Zenon
            <4>2. (n = 1) = FALSE
                BY <3>2, Zenon
            <4> QED
                BY <1>4, <4>1, <4>2, Zenon
        <3> QED
            BY <3>1, <3>2
    <2>2. pieces = [n \in 1..Len(b) |-> pieces[n]]
        BY <1>1
    <2> HIDE DEF pieces
    <2> QED
        BY <1>1, <2>1, <2>2
<1>6. st[0] = <<s, co>> /\ \A n \in 1..Len(b) : st[n] = <<Append(s, UpTo(n)), co>>
    <2> HIDE DEF UpTo
    <2> QED
        BY <1>1
<1>7. st \in [0..Len(b) -> States]
    <2>1. ASSUME NEW n \in 0..Len(b) PROVE st[n] \in States
        <3>1. n = 0 \/ n \in 1..Len(b)
            BY <1>1
        <3> HIDE DEF st, UpTo
        <3>2. <<s, co>> \in States /\ <<Append(s, UpTo(n)), co>> \in States
            BY <1>3, StatesHold, Zenon
        <3> QED
            BY <1>6, <3>1, <3>2, Zenon
    <2>2. st = [n \in 0..Len(b) |-> st[n]]
        OBVIOUS
    <2> HIDE DEF st
    <2> QED
        BY <2>1, <2>2
<1>8. ASSUME NEW n \in 1..Len(b) PROVE Runs(pieces[n], in, st[n - 1], st[n])
    <2>1. CASE n = 1
        <3>1. UpTo(1) = Closed(b[1], co, in)
            <4>1. UpTo(1) <=> Closed(b[1], co, in)
                OBVIOUS
            <4>2. Closed(b[1], co, in) \in BOOLEAN
                BY <1>1, <2>1, ClosedValue, Zenon
            <4> QED
                BY <1>3, <4>1, <4>2, Zenon
        <3>2. Runs(ContactCode(b[1], TRUE), in, <<s, co>>, <<Append(s, Closed(b[1], co, in)), co>>)
            BY <1>1, <1>2, <2>1, FirstContact, Zenon
        <3>3. pieces[1] = ContactCode(b[1], TRUE)
            BY <1>4, <2>1, Zenon
        <3>4. st[n - 1] = <<s, co>> /\ st[n] = <<Append(s, UpTo(1)), co>>
            <4>1. n - 1 = 0
                BY <2>1
            <4> HIDE DEF st, UpTo
            <4> QED
                BY <1>6, <2>1, <4>1, Zenon
        <3> HIDE DEF st, UpTo, pieces
        <3> QED
            BY <2>1, <3>1, <3>2, <3>3, <3>4, Zenon
    <2>2. CASE n # 1
        <3>1. UpTo(n) = (UpTo(n - 1) /\ Closed(b[n], co, in))
            <4>1. 1..n = (1..n - 1) \cup {n}
                BY <1>1
            <4>2. UpTo(n) <=> (UpTo(n - 1) /\ Closed(b[n], co, in))
                BY <4>1, Zenon
            <4> QED
                BY <1>3, <4>2, Zenon
        <3>2. Runs(ContactCode(b[n], FALSE), in, <<Append(s, UpTo(n - 1)), co>>,
                   <<Append(s, UpTo(n - 1) /\ Closed(b[n], co, in)), co>>)
            <4>1. UpTo(n - 1) \in BOOLEAN
                BY <1>3, Zenon
            <4> HIDE DEF UpTo
            <4> QED
                BY <1>1, <4>1, NextContact, Zenon
        <3>3. pieces[n] = ContactCode(b[n], FALSE)
            <4>1. (n = 1) = FALSE
                BY <2>2, Zenon
            <4> HIDE DEF pieces
            <4> QED
                BY <1>4, <4>1, Zenon
        <3>4. st[n - 1] = <<Append(s, UpTo(n - 1)), co>> /\ st[n] = <<Append(s, UpTo(n)), co>>
            <4>1. n - 1 \in 1..Len(b)
                BY <1>1, <2>2
            <4> HIDE DEF st, UpTo
            <4> QED
                BY <1>6, <4>1, Zenon
        <3> HIDE DEF st, UpTo, pieces
        <3> QED
            BY <3>1, <3>2, <3>3, <3>4, Zenon
    <2> QED
        BY <2>1, <2>2
<1>9. UpTo(Len(b)) = AllClosed(b, co, in)
    <2>1. UpTo(Len(b)) <=> AllClosed(b, co, in)
        BY <1>1, Zenon DEF AllClosed, Range
    <2>2. AllClosed(b, co, in) \in BOOLEAN
        BY Zenon DEF AllClosed
    <2> QED
        BY <1>3, <2>1, <2>2, Zenon
<1>10. BranchCode(b) = FlattenSeq(pieces)
    BY Zenon DEF BranchCode
<1>11. Len(b) \in 1..Len(b)
    BY <1>1
<1> HIDE DEF st, UpTo, pieces
<1>12. FlattenSeq(pieces) \in Seq(Instrs) /\ Runs(FlattenSeq(pieces), in, st[0], st[Len(pieces)])
    BY <1>5, <1>7, <1>8, RunsFlatten
<1> QED
    BY <1>5, <1>6, <1>9, <1>10, <1>11, <1>12, Zenon

\* The first branch puts its value on the empty stack.
LEMMA FirstBranch ==
    ASSUME NEW b \in Branches, NEW co \in CoilStates, NEW in
    PROVE  /\ ParallelCode(b, TRUE) \in Seq(Instrs)
           /\ Runs(ParallelCode(b, TRUE), in, <<<<>>, co>>,
                   <<Append(<<>>, AllClosed(b, co, in)), co>>)
<1>1. <<>> \in Seq(BOOLEAN) /\ Len(<<>>) + 1 < Depth
    BY DiagramAssumption, LadderAssumption
<1>2. ParallelCode(b, TRUE) = BranchCode(b)
    BY Zenon DEF ParallelCode
<1> QED
    BY <1>1, <1>2, BranchRuns, Zenon

\* Another branch is ored to the value on the stack.
LEMMA NextBranch ==
    ASSUME NEW s \in Seq(BOOLEAN), Len(s) = 0, NEW b \in Branches,
           NEW x \in BOOLEAN, NEW co \in CoilStates, NEW in
    PROVE  /\ ParallelCode(b, FALSE) \in Seq(Instrs)
           /\ Runs(ParallelCode(b, FALSE), in, <<Append(s, x), co>>,
                   <<Append(s, x \/ AllClosed(b, co, in)), co>>)
<1> DEFINE all == AllClosed(b, co, in)
<1>1. Len(s) < Depth
    BY DiagramAssumption, LadderAssumption
<1>2. Append(s, x) \in Seq(BOOLEAN) /\ Len(Append(s, x)) + 1 < Depth
    BY DiagramAssumption, LadderAssumption
<1>3. all \in BOOLEAN /\ (x \/ all) \in BOOLEAN
    BY Zenon DEF AllClosed
<1>4. b \in Seq(Contacts) /\ Len(b) \in Nat /\ Len(b) > 0 /\ DOMAIN b = 1..Len(b) /\ b[1] \in Contacts
    BY DEF Branches
<1>5. /\ <<Append(s, x), co>> \in States /\ <<Append(Append(s, x), all), co>> \in States
      /\ <<Append(s, x \/ all), co>> \in States
    BY <1>1, <1>2, <1>3, StatesHold, Zenon
<1>6. CASE Len(b) = 1 /\ b[1].neg
    <2> DEFINE ins == Instr("OR_NOT", b[1])
               v == ReadBool(b[1].cls, b[1].adr, co, in)
    <2>1. ins \in Instrs /\ ins.op = "OR_NOT" /\ v = ReadBool(ins.cls, ins.adr, co, in)
        <3>1. "OR_NOT" \in Ops
            BY DEF Ops
        <3> QED
            BY <1>4, <3>1, InstrType, Zenon
    <2>2. ParallelCode(b, FALSE) = <<ins>>
        BY <1>6, Zenon DEF ParallelCode
    <2>3. all = ~v
        <3>1. Closed(b[1], co, in) = ~v
            BY <1>4, <1>6, ClosedValue, Zenon
        <3>2. DOMAIN b = {1}
            BY <1>4, <1>6
        <3>3. all <=> Closed(b[1], co, in)
            BY <3>2, Zenon DEF AllClosed, Range
        <3>4. Closed(b[1], co, in) \in BOOLEAN
            BY <1>4, ClosedValue, Zenon
        <3> QED
            BY <1>3, <3>1, <3>3, <3>4, Zenon
    <2> HIDE DEF ins, v, all
    <2>4. Turn(ins, in, <<Append(s, x), co>>) = <<Append(s, x \/ all), co>>
        <3>1. Pushes(ins, in, co, Append(s, x), Append(s, x \/ ~ReadBool(ins.cls, ins.adr, co, in)))
            BY <1>1, <2>1, OrNotTurn, Zenon
        <3> QED
            BY <2>1, <2>3, <3>1, Zenon DEF Pushes
    <2>5. ins.op # "END"
        BY <2>1
    <2>6. Runs(<<ins>>, in, <<Append(s, x), co>>, <<Append(s, x \/ all), co>>)
        BY <1>5, <2>1, <2>4, <2>5, RunsOne, Zenon
    <2>7. <<ins>> \in Seq(Instrs)
        BY <2>1
    <2> QED
        BY <2>2, <2>6, <2>7, Zenon DEF all
<1>7. CASE ~ (Len(b) = 1 /\ b[1].neg)
    <2> DEFINE or == Instr("OR", b[1])
    <2>1. or \in Instrs /\ or.op = "OR"
        <3>1. "OR" \in Ops
            BY DEF Ops
        <3> QED
            BY <1>4, <3>1, InstrType, Zenon
    <2>2. ParallelCode(b, FALSE) = Append(BranchCode(b), or)
        BY <1>7, Zenon DEF ParallelCode
    <2>3. /\ BranchCode(b) \in Seq(Instrs)
          /\ Runs(BranchCode(b), in, <<Append(s, x), co>>, <<Append(Append(s, x), all), co>>)
        BY <1>2, BranchRuns, Zenon
    <2> HIDE DEF or, all
    <2>4. Turn(or, in, <<Append(Append(s, x), all), co>>) = <<Append(s, x \/ all), co>>
        <3>1. Pushes(or, in, co, Append(Append(s, x), all), Append(s, x \/ all))
            BY <1>1, <1>3, <2>1, OrTurn, Zenon
        <3> QED
            BY <2>1, <2>3, <3>1, Zenon DEF Pushes
    <2>5. or.op # "END"
        BY <2>1
    <2>6. Runs(<<or>>, in, <<Append(Append(s, x), all), co>>, <<Append(s, x \/ all), co>>)
        BY <1>5, <2>1, <2>4, <2>5, RunsOne, Zenon
    <2>7. <<or>> \in Seq(Instrs) /\ Append(BranchCode(b), or) \in Seq(Instrs)
        BY <2>1, <2>3
    <2>8. Runs(BranchCode(b) \o <<or>>, in, <<Append(s, x), co>>, <<Append(s, x \/ all), co>>)
        BY <2>3, <2>6, <2>7, RunsJoin, Zenon
    <2>9. Append(BranchCode(b), or) = BranchCode(b) \o <<or>>
        BY <2>1, <2>3, AppendIsConcat, Zenon
    <2> QED
        BY <2>2, <2>7, <2>8, <2>9, Zenon DEF all
<1> QED
    BY <1>6, <1>7

\* One instruction more.
LEMMA RunsAppend ==
    ASSUME NEW in, NEW c \in Seq(Instrs), NEW ins \in Instrs, ins.op # "END",
           NEW s, NEW t \in States, NEW u \in States, Runs(c, in, s, t), u = Turn(ins, in, t)
    PROVE  Append(c, ins) \in Seq(Instrs) /\ Runs(Append(c, ins), in, s, u)
<1>1. <<ins>> \in Seq(Instrs) /\ Append(c, ins) \in Seq(Instrs)
    OBVIOUS
<1>2. Runs(<<ins>>, in, t, u)
    BY RunsOne, Zenon
<1>3. Runs(c \o <<ins>>, in, s, u)
    BY <1>1, <1>2, RunsJoin, Zenon
<1>4. Append(c, ins) = c \o <<ins>>
    BY AppendIsConcat, Zenon
<1> QED
    BY <1>1, <1>3, <1>4, Zenon

\* The code of a rung drives the coil of the rung and leaves the stack empty.
LEMMA RungRuns ==
    ASSUME NEW rung \in Rungs, NEW co \in CoilStates, NEW in
    PROVE  /\ RungCode(rung) \in Seq(Instrs)
           /\ Runs(RungCode(rung), in, <<<<>>, co>>, <<<<>>, RungMeans(co, in, rung)>>)
<1> DEFINE brs == rung.branches
           pieces == [n \in DOMAIN brs |-> ParallelCode(brs[n], n = 1)]
           UpTo(n) == \E m \in 1..n : AllClosed(brs[m], co, in)
           st == [n \in 0..Len(brs) |->
                    IF n = 0 THEN <<<<>>, co>> ELSE <<Append(<<>>, UpTo(n)), co>>]
           p == Power(rung, co, in)
           out == [op |-> rung.out, cls |-> "input", adr |-> rung.adr]
<1>1. /\ brs \in Seq(Branches) /\ Len(brs) \in Nat /\ DOMAIN brs = 1..Len(brs)
      /\ \A n \in 1..Len(brs) : brs[n] \in Branches
    <2>1. brs \in Seq(Branches)
        BY DEF Rungs
    <2> HIDE DEF brs
    <2> QED
        BY <2>1
<1>2. <<>> \in Seq(BOOLEAN) /\ Len(<<>>) = 0
    OBVIOUS
<1>3. /\ out \in Instrs /\ out.op = rung.out /\ out.adr = rung.adr
      /\ out.op \in CoilOps /\ out.op # "END"
    BY DEF Rungs, Instrs, Ops, Classes, CoilOps
<1> HIDE DEF brs, out
<1>4. \A n : UpTo(n) \in BOOLEAN
    BY Zenon
<1>5. \A n \in 1..Len(brs) : pieces[n] = ParallelCode(brs[n], n = 1)
    BY <1>1
<1>6. pieces \in Seq(Seq(Instrs)) /\ Len(pieces) = Len(brs)
    <2>1. ASSUME NEW n \in 1..Len(brs) PROVE pieces[n] \in Seq(Instrs)
        <3>1. CASE n = 1
            <4>1. ParallelCode(brs[n], TRUE) \in Seq(Instrs)
                BY <1>1, FirstBranch, Zenon
            <4> QED
                BY <1>5, <3>1, <4>1, Zenon
        <3>2. CASE n # 1
            <4>1. TRUE \in BOOLEAN
                OBVIOUS
            <4>2. ParallelCode(brs[n], FALSE) \in Seq(Instrs)
                BY <1>1, <1>2, <4>1, NextBranch, Zenon
            <4>3. (n = 1) = FALSE
                BY <3>2, Zenon
            <4> QED
                BY <1>5, <4>2, <4>3, Zenon
        <3> QED
            BY <3>1, <3>2
    <2>2. pieces = [n \in 1..Len(brs) |-> pieces[n]]
        BY <1>1
    <2> HIDE DEF pieces
    <2> QED
        BY <1>1, <2>1, <2>2
<1>7. st[0] = <<<<>>, co>> /\ \A n \in 1..Len(brs) : st[n] = <<Append(<<>>, UpTo(n)), co>>
    <2> HIDE DEF UpTo
    <2> QED
        BY <1>1
<1>8. st \in [0..Len(brs) -> States]
    <2>1. ASSUME NEW n \in 0..Len(brs) PROVE st[n] \in States
        <3>1. n = 0 \/ n \in 1..Len(brs)
            BY <1>1
        <3> HIDE DEF st, UpTo
        <3>2. <<<<>>, co>> \in States /\ <<Append(<<>>, UpTo(n)), co>> \in States
            BY <1>2, <1>4, StatesHold, Zenon
        <3> QED
            BY <1>7, <3>1, <3>2, Zenon
    <2>2. st = [n \in 0..Len(brs) |-> st[n]]
        OBVIOUS
    <2> HIDE DEF st
    <2> QED
        BY <2>1, <2>2
<1>9. ASSUME NEW n \in 1..Len(brs) PROVE Runs(pieces[n], in, st[n - 1], st[n])
    <2>1. CASE n = 1
        <3>1. UpTo(1) = AllClosed(brs[1], co, in)
            <4>1. UpTo(1) <=> AllClosed(brs[1], co, in)
                OBVIOUS
            <4>2. AllClosed(brs[1], co, in) \in BOOLEAN
                BY Zenon DEF AllClosed
            <4> QED
                BY <1>4, <4>1, <4>2, Zenon
        <3>2. Runs(ParallelCode(brs[1], TRUE), in, <<<<>>, co>>,
                   <<Append(<<>>, AllClosed(brs[1], co, in)), co>>)
            BY <1>1, <2>1, FirstBranch, Zenon
        <3>3. pieces[1] = ParallelCode(brs[1], TRUE)
            BY <1>5, <2>1, Zenon
        <3>4. st[n - 1] = <<<<>>, co>> /\ st[n] = <<Append(<<>>, UpTo(1)), co>>
            <4>1. n - 1 = 0
                BY <2>1
            <4> HIDE DEF st, UpTo
            <4> QED
                BY <1>7, <2>1, <4>1, Zenon
        <3> HIDE DEF st, UpTo, pieces
        <3> QED
            BY <2>1, <3>1, <3>2, <3>3, <3>4, Zenon
    <2>2. CASE n # 1
        <3>1. UpTo(n) = (UpTo(n - 1) \/ AllClosed(brs[n], co, in))
            <4>1. 1..n = (1..n - 1) \cup {n}
                BY <1>1
            <4>2. UpTo(n) <=> (UpTo(n - 1) \/ AllClosed(brs[n], co, in))
                BY <4>1, Zenon
            <4> QED
                BY <1>4, <4>2, Zenon
        <3>2. Runs(ParallelCode(brs[n], FALSE), in, <<Append(<<>>, UpTo(n - 1)), co>>,
                   <<Append(<<>>, UpTo(n - 1) \/ AllClosed(brs[n], co, in)), co>>)
            <4>1. UpTo(n - 1) \in BOOLEAN
                BY <1>4, Zenon
            <4> HIDE DEF UpTo
            <4> QED
                BY <1>1, <1>2, <4>1, NextBranch, Zenon
        <3>3. pieces[n] = ParallelCode(brs[n], FALSE)
            <4>1. (n = 1) = FALSE
                BY <2>2, Zenon
            <4> HIDE DEF pieces
            <4> QED
                BY <1>5, <4>1, Zenon
        <3>4. st[n - 1] = <<Append(<<>>, UpTo(n - 1)), co>> /\ st[n] = <<Append(<<>>, UpTo(n)), co>>
            <4>1. n - 1 \in 1..Len(brs)
                BY <1>1, <2>2
            <4> HIDE DEF st, UpTo
            <4> QED
                BY <1>7, <4>1, Zenon
        <3> HIDE DEF st, UpTo, pieces
        <3> QED
            BY <3>1, <3>2, <3>3, <3>4, Zenon
    <2> QED
        BY <2>1, <2>2
<1>10. p \in BOOLEAN /\ p = UpTo(Len(brs))
    <2>1. p <=> UpTo(Len(brs))
        BY <1>1, Zenon DEF AllClosed, Power, Range, brs
    <2>2. p \in BOOLEAN
        BY Zenon DEF Power
    <2> QED
        BY <1>4, <2>1, <2>2, Zenon
<1>11. RungCode(rung) = Append(FlattenSeq(pieces), out)
    BY Zenon DEF RungCode, brs, out
<1>12. RungMeans(co, in, rung) = Driven(out.op, out.adr, p, co)
    BY <1>3, Zenon DEF RungMeans, Driven
<1>13. Turn(out, in, st[Len(brs)]) = <<<<>>, RungMeans(co, in, rung)>>
    <2>1. CASE Len(brs) = 0
        <3>1. p = FALSE
            BY <1>10, <2>1
        <3>2. Drives(out, in, co, <<>>, FALSE)
            BY <1>3, <1>10, CoilTurn, Zenon
        <3> HIDE DEF st, p
        <3> QED
            BY <1>7, <1>12, <2>1, <3>1, <3>2, Zenon DEF Drives
    <2>2. CASE Len(brs) # 0
        <3>1. Len(brs) \in 1..Len(brs)
            BY <1>1, <2>2
        <3> HIDE DEF st, p, UpTo
        <3>2. Drives(out, in, co, Append(<<>>, p), p)
            BY <1>3, <1>10, CoilTurn, Zenon
        <3> QED
            BY <1>7, <1>10, <1>12, <3>1, <3>2, Zenon DEF Drives
    <2> QED
        BY <2>1, <2>2
<1>14. <<<<>>, RungMeans(co, in, rung)>> \in States
    BY <1>2, RungMeansType, StatesHold, Zenon
<1>15. Len(brs) \in 0..Len(brs) /\ st[Len(brs)] \in States
    <2>1. Len(brs) \in 0..Len(brs)
        BY <1>1
    <2> HIDE DEF st
    <2> QED
        BY <1>8, <2>1
<1> HIDE DEF st, UpTo, pieces, p
<1>16. FlattenSeq(pieces) \in Seq(Instrs) /\ Runs(FlattenSeq(pieces), in, st[0], st[Len(pieces)])
    BY <1>6, <1>8, <1>9, RunsFlatten
<1>17. Runs(FlattenSeq(pieces), in, <<<<>>, co>>, st[Len(brs)])
    BY <1>6, <1>7, <1>16, Zenon
<1> QED
    BY <1>3, <1>11, <1>13, <1>14, <1>15, <1>16, <1>17, RunsAppend, Zenon

\* The program of a diagram, but for its END.
Body(rungs) == FlattenSeq([n \in DOMAIN rungs |-> RungCode(rungs[n])])

LEMMA DiagramRuns ==
    ASSUME NEW rungs \in Seq(Rungs), NEW co \in CoilStates, NEW in
    PROVE  /\ Body(rungs) \in Seq(Instrs)
           /\ Meaning(rungs, co, in) \in CoilStates
           /\ Runs(Body(rungs), in, <<<<>>, co>>, <<<<>>, Meaning(rungs, co, in)>>)
<1> DEFINE pieces == [n \in DOMAIN rungs |-> RungCode(rungs[n])]
<1>1. PICK f \in [0..Len(rungs) -> CoilStates] :
          /\ f[0] = co
          /\ \A n \in 1..Len(rungs) : f[n] = RungMeans(f[n - 1], in, rungs[n])
          /\ Meaning(rungs, co, in) = f[Len(rungs)]
    BY MeaningSteps
<1> DEFINE st == [n \in 0..Len(rungs) |-> <<<<>>, f[n]>>]
<1>2. /\ Len(rungs) \in Nat /\ DOMAIN rungs = 1..Len(rungs)
      /\ \A n \in 1..Len(rungs) : rungs[n] \in Rungs
    OBVIOUS
<1>3. <<>> \in Seq(BOOLEAN)
    OBVIOUS
<1>4. \A n \in 1..Len(rungs) : pieces[n] = RungCode(rungs[n])
    BY <1>2
<1>5. pieces \in Seq(Seq(Instrs)) /\ Len(pieces) = Len(rungs)
    <2>1. \A n \in 1..Len(rungs) : pieces[n] \in Seq(Instrs)
        <3>1. co \in CoilStates
            OBVIOUS
        <3>2. \A n \in 1..Len(rungs) : RungCode(rungs[n]) \in Seq(Instrs)
            BY <1>2, <3>1, RungRuns, Zenon
        <3> HIDE DEF pieces
        <3> QED
            BY <1>4, <3>2, Zenon
    <2>2. pieces = [n \in 1..Len(rungs) |-> pieces[n]]
        BY <1>2
    <2> HIDE DEF pieces
    <2> QED
        BY <1>2, <2>1, <2>2
<1>6. \A n \in 0..Len(rungs) : f[n] \in CoilStates /\ st[n] = <<<<>>, f[n]>> /\ st[n] \in States
    <2>1. \A n \in 0..Len(rungs) : f[n] \in CoilStates /\ st[n] = <<<<>>, f[n]>>
        OBVIOUS
    <2> HIDE DEF st
    <2> QED
        BY <1>3, <2>1, StatesHold, Zenon
<1>7. st \in [0..Len(pieces) -> States]
    <2>1. st = [n \in 0..Len(rungs) |-> st[n]]
        OBVIOUS
    <2> HIDE DEF st, pieces
    <2> QED
        BY <1>5, <1>6, <2>1
<1>8. ASSUME NEW n \in 1..Len(pieces) PROVE Runs(pieces[n], in, st[n - 1], st[n])
    <2>1. n \in 1..Len(rungs) /\ n \in 0..Len(rungs) /\ n - 1 \in 0..Len(rungs)
        <3> HIDE DEF pieces
        <3> QED
            BY <1>2, <1>5
    <2>2. Runs(RungCode(rungs[n]), in, <<<<>>, f[n - 1]>>, <<<<>>, RungMeans(f[n - 1], in, rungs[n])>>)
        <3>1. f[n - 1] \in CoilStates /\ rungs[n] \in Rungs
            BY <1>2, <1>6, <2>1, Zenon
        <3> QED
            BY <3>1, RungRuns, Zenon
    <2> HIDE DEF st, pieces
    <2> QED
        BY <1>1, <1>4, <1>6, <2>1, <2>2, Zenon
<1>9. Body(rungs) = FlattenSeq(pieces)
    BY Zenon DEF Body
<1>10. 0 \in 0..Len(rungs) /\ Len(rungs) \in 0..Len(rungs)
    BY <1>2
<1> HIDE DEF st, pieces
<1>11. FlattenSeq(pieces) \in Seq(Instrs) /\ Runs(FlattenSeq(pieces), in, st[0], st[Len(pieces)])
    BY <1>5, <1>7, <1>8, RunsFlatten
<1>12. st[0] = <<<<>>, co>> /\ st[Len(pieces)] = <<<<>>, Meaning(rungs, co, in)>>
    BY <1>1, <1>5, <1>6, <1>10, Zenon
<1>13. Meaning(rungs, co, in) \in CoilStates
    BY <1>1, <1>6, <1>10, Zenon
<1> QED
    BY <1>9, <1>11, <1>12, <1>13, Zenon

-----------------------------------------------------------------------------
(* The loop follows the run of the diagram.                                 *)

\* The run of the diagram d on the coils b has s and co before its k-th
\* instruction.
OnTheWay(d, b, in, k, s, co) ==
    \E f \in [0..Len(Body(d)) -> States] :
        /\ Trace(Body(d), in, <<<<>>, b>>, <<<<>>, Meaning(d, b, in)>>, f)
        /\ f[k - 1] = <<s, co>>

ScanInv ==
    /\ diagram \in Diagrams
    /\ code = Program(diagram)
    /\ before \in CoilStates
    /\ i = 0 \/ i \in 1..Len(Body(diagram)) + 1
    /\ i = 0 => stack = <<>> /\ coils = Meaning(diagram, before, inputs)
    /\ i # 0 => OnTheWay(diagram, before, inputs, i, stack, coils)

LEMMA ProgramIsBody ==
    ASSUME NEW d \in Diagrams
    PROVE  /\ Body(d) \in Seq(Instrs) /\ Len(Body(d)) \in Nat
           /\ Len(Program(d)) = Len(Body(d)) + 1
           /\ \A k \in 1..Len(Body(d)) : Program(d)[k] = Body(d)[k]
           /\ Program(d)[Len(Body(d)) + 1].op = "END"
<1> DEFINE end == [ZeroInstr EXCEPT !.op = "END"]
<1>1. end \in Instrs /\ end.op = "END"
    BY DEF ZeroInstr, Instrs, Ops, Classes
<1>2. Body(d) \in Seq(Instrs)
    <2>1. d \in Seq(Rungs)
        BY DiagramAssumption, Zenon
    <2>2. [c \in Coils |-> FALSE] \in CoilStates
        BY DEF CoilStates
    <2> QED
        BY <2>1, <2>2, DiagramRuns, Zenon
<1>3. Program(d) = Append(Body(d), end)
    BY Zenon DEF Program, Body
<1> HIDE DEF end
<1>4. Len(Body(d)) \in Nat
    BY <1>2
<1> QED
    BY <1>1, <1>2, <1>3, <1>4, AppendProperties

LEMMA OnTheWayStarts ==
    ASSUME NEW d \in Diagrams, NEW b \in CoilStates, NEW in
    PROVE  OnTheWay(d, b, in, 1, <<>>, b)
<1>1. d \in Seq(Rungs)
    BY DiagramAssumption, Zenon
<1> DEFINE c == Body(d)
           m == Meaning(d, b, in)
<1>2. Runs(c, in, <<<<>>, b>>, <<<<>>, m>>)
    BY <1>1, DiagramRuns, Zenon
<1> HIDE DEF c, m
<1>3. PICK f \in [0..Len(c) -> States] : Trace(c, in, <<<<>>, b>>, <<<<>>, m>>, f)
    BY <1>2, Zenon DEF Runs
<1>4. f[0] = <<<<>>, b>> /\ 1 - 1 = 0
    BY <1>3 DEF Trace
<1> QED
    BY <1>3, <1>4, Zenon DEF OnTheWay, c, m

LEMMA OnTheWaySteps ==
    ASSUME NEW d, NEW b, NEW in, NEW k \in 1..Len(Body(d)), NEW s, NEW co, NEW ins,
           OnTheWay(d, b, in, k, s, co), ins = Body(d)[k]
    PROVE  /\ ins.op # "END"
           /\ OnTheWay(d, b, in, k + 1,
                       StackAfter(ins.op, ReadBool(ins.cls, ins.adr, co, in), s),
                       CoilsAfter(ins.op, ins.adr, s, co))
<1> DEFINE su == StackAfter(ins.op, ReadBool(ins.cls, ins.adr, co, in), s)
           cu == CoilsAfter(ins.op, ins.adr, s, co)
<1>1. PICK f \in [0..Len(Body(d)) -> States] :
          /\ Trace(Body(d), in, <<<<>>, b>>, <<<<>>, Meaning(d, b, in)>>, f)
          /\ f[k - 1] = <<s, co>>
    BY Zenon DEF OnTheWay
<1>2. ins.op # "END" /\ f[k] = Turn(ins, in, f[k - 1])
    BY <1>1, Zenon DEF Trace
<1>3. Turn(ins, in, <<s, co>>) = <<su, cu>>
    BY DEF Turn
<1>4. (k + 1) - 1 = k
    OBVIOUS
<1> HIDE DEF su, cu
<1>5. f[(k + 1) - 1] = <<su, cu>>
    BY <1>1, <1>2, <1>3, <1>4, Zenon
<1>6. OnTheWay(d, b, in, k + 1, su, cu)
    BY <1>1, <1>5, Zenon DEF OnTheWay
<1> QED
    BY <1>2, <1>6, Zenon DEF su, cu

LEMMA OnTheWayEnds ==
    ASSUME NEW d \in Diagrams, NEW b, NEW in, NEW s, NEW co,
           OnTheWay(d, b, in, Len(Body(d)) + 1, s, co)
    PROVE  s = <<>> /\ co = Meaning(d, b, in)
<1>1. PICK f \in [0..Len(Body(d)) -> States] :
          /\ Trace(Body(d), in, <<<<>>, b>>, <<<<>>, Meaning(d, b, in)>>, f)
          /\ f[(Len(Body(d)) + 1) - 1] = <<s, co>>
    BY Zenon DEF OnTheWay
<1>2. f[Len(Body(d))] = <<<<>>, Meaning(d, b, in)>>
    BY <1>1, Zenon DEF Trace
<1>3. (Len(Body(d)) + 1) - 1 = Len(Body(d))
    BY ProgramIsBody
<1>4. <<s, co>> = <<<<>>, Meaning(d, b, in)>>
    BY <1>1, <1>2, <1>3, Zenon
<1> QED
    BY <1>4

LEMMA ScanInvStarts == ScanInit => ScanInv
<1> SUFFICES ASSUME ScanInit PROVE ScanInv
    OBVIOUS
<1>1. diagram \in Diagrams /\ code = Program(diagram) /\ coils = before /\ stack = <<>> /\ i = 1
    BY Zenon DEF ScanInit
<1>2. before \in CoilStates
    BY Zenon DEF ScanInit, CoilStates
<1>3. OnTheWay(diagram, before, inputs, 1, <<>>, before)
    BY <1>1, <1>2, OnTheWayStarts, Zenon
<1>4. i \in 1..Len(Body(diagram)) + 1 /\ i # 0
    BY <1>1, ProgramIsBody
<1> QED
    BY <1>1, <1>2, <1>3, <1>4, Zenon DEF ScanInv

LEMMA ScanInvStays == ScanInv /\ [ScanNext]_scanVars => ScanInv'
<1> SUFFICES ASSUME ScanInv, [ScanNext]_scanVars PROVE ScanInv'
    OBVIOUS
<1>1. CASE Execute
    <2> DEFINE ins == code[i]
               v == ReadBool(ins.cls, ins.adr, coils, inputs)
               n == Len(Body(diagram))
    <2>1. diagram \in Diagrams /\ code = Program(diagram) /\ before \in CoilStates
        BY Zenon DEF ScanInv
    <2>2. i > 0
        BY <1>1, Zenon DEF Execute
    <2>3. n \in Nat /\ Len(code) = n + 1
        BY <2>1, ProgramIsBody
    <2>4. i \in 1..n + 1 /\ i # 0
        BY <2>2 DEF ScanInv
    <2>5. /\ stack' = StackAfter(ins.op, v, stack)
          /\ coils' = CoilsAfter(ins.op, ins.adr, stack, coils)
          /\ i' = IF ins.op = "END" \/ i = Len(code) THEN 0 ELSE i + 1
        BY <1>1, Zenon DEF Execute, Current
    <2>6. diagram' = diagram /\ code' = code /\ inputs' = inputs /\ before' = before
        BY <1>1, Zenon DEF Execute
    <2>7. OnTheWay(diagram, before, inputs, i, stack, coils)
        BY <2>4, Zenon DEF ScanInv
    <2>8. CASE i \in 1..n
        <3>1. ins = Body(diagram)[i]
            BY <2>1, <2>8, ProgramIsBody, Zenon
        <3> HIDE DEF ins
        <3>2. /\ ins.op # "END"
              /\ OnTheWay(diagram, before, inputs, i + 1, StackAfter(ins.op, v, stack),
                          CoilsAfter(ins.op, ins.adr, stack, coils))
            BY <2>7, <2>8, <3>1, OnTheWaySteps, Zenon
        <3> HIDE DEF v
        <3>3. i # Len(code) /\ i + 1 \in 1..n + 1 /\ i + 1 # 0
            <4> HIDE DEF n
            <4> QED
                BY <2>3, <2>8
        <3>4. i' = i + 1
            BY <2>5, <3>2, <3>3, Zenon
        <3>5. OnTheWay(diagram', before', inputs', i', stack', coils')
            BY <2>5, <2>6, <3>2, <3>4, Zenon
        <3> QED
            BY <2>1, <2>6, <3>3, <3>4, <3>5, Zenon DEF ScanInv
    <2>9. CASE i = n + 1
        <3>1. ins.op = "END"
            BY <2>1, <2>9, ProgramIsBody, Zenon
        <3> HIDE DEF ins, v
        <3>2. StackAfter("END", v, stack) = stack /\ CoilsAfter("END", ins.adr, stack, coils) = coils
            BY DEF StackAfter, CoilsAfter
        <3>3. stack' = stack /\ coils' = coils /\ i' = 0
            BY <2>5, <3>1, <3>2, Zenon
        <3>4. stack = <<>> /\ coils = Meaning(diagram, before, inputs)
            BY <2>1, <2>7, <2>9, OnTheWayEnds, Zenon
        <3>5. stack' = <<>> /\ coils' = Meaning(diagram', before', inputs')
            BY <2>6, <3>3, <3>4, Zenon
        <3> QED
            BY <2>1, <2>6, <3>3, <3>5, Zenon DEF ScanInv
    <2> HIDE DEF n
    <2> QED
        BY <2>3, <2>4, <2>8, <2>9
<1>2. CASE Returned \/ UNCHANGED scanVars
    <2>1. /\ diagram' = diagram /\ code' = code /\ inputs' = inputs /\ before' = before
          /\ coils' = coils /\ stack' = stack /\ i' = i
        BY <1>2, Zenon DEF Returned, scanVars
    <2> QED
        BY <2>1, Zenon DEF ScanInv
<1> QED
    BY <1>1, <1>2, Zenon DEF ScanNext

LEMMA ScanInvHolds == ScanSpec => []ScanInv
BY ScanInvStarts, ScanInvStays, PTL DEF ScanSpec

\* Of every ladder diagram, on every state of the inputs and the coils, one
\* undisturbed call of ladder_vm_execute_scan makes what the diagram means.
THEOREM ScanComputesDiagram == ScanSpec => []ScanMeansDiagram
<1>1. ScanInv => ScanMeansDiagram
    BY Zenon DEF ScanInv, ScanMeansDiagram
<1> QED
    BY <1>1, ScanInvHolds, PTL

\* The program of every ladder diagram pops what it pushes: no value is left
\* on the stack for the scan after it.
THEOREM ScanBalances == ScanSpec => []ScanIsBalanced
<1>1. ScanInv => ScanIsBalanced
    BY Zenon DEF ScanInv, ScanIsBalanced
<1> QED
    BY <1>1, ScanInvHolds, PTL
=============================================================================
