------------------------------- MODULE Installer -------------------------------
(***************************************************************************)
(* Installing services: Installer.install (src/src/lib/installer.ts), the  *)
(* repository it fills (src/src/lib/repo.ts), and the download and the     *)
(* extraction of assets (src/src/lib/util.ts).                             *)
(*                                                                         *)
(* Every installService request of a JSON-RPC client is a call of install. *)
(* Calls interleave at every await, and share the manifest file, the       *)
(* downloaded files and the directories of the services.  The runner may   *)
(* be killed between any two steps and started again on the same           *)
(* directory.                                                              *)
(***************************************************************************)
EXTENDS Naturals

CONSTANTS
    Package,    \* names and versions that clients ask for
    Call,       \* the calls of install a behaviour may make
    File,       \* names of downloaded files in the repository directory
    Resolved,   \* the package Config.getService returns for one that is asked for
    Assets,     \* the last parts of the asset URIs of a package
    Local,      \* the assets whose URI is that of a file of this machine
    Kind,       \* the archive format of a file, by its extension
    Fault,      \* the faults the environment may inject
    MaxFaults,  \* how many of them one behaviour may contain
    None        \* no package

ASSUME ResolvedAssumption ==
    /\ None \notin Package
    /\ {"none", "partial", "mixed"} \cap Package = {}
    /\ Resolved \in [Package -> Package \cup {None}]
    /\ Assets \in [Package -> SUBSET File]
    /\ Local \subseteq Package \X File
    /\ Kind \in [File -> {"zip", "tgz", "tar", "other"}]
ASSUME FaultAssumption ==
    Fault \subseteq {"crash", "download", "cut"} /\ MaxFaults \in Nat

VARIABLES
    runner,     \* the runner process
    disk,       \* what the manifest file is, as a file
    manifest,   \* the entries of the text in it
    step,       \* how far a call of install has come
    asked,      \* the package the call is for
    task,       \* what a call has under way for a file
    snapshot,   \* the entries addService has read
    file,       \* the package whose bytes a downloaded file has, or how it is broken
    got,        \* what an extraction of a call reads from its file
    dir,        \* what the directory of a package has of each of its assets
    extracted,  \* history: assets of packages whose extraction has ended
    recorded,   \* history: packages written to the manifest
    faults      \* history: the faults injected so far

fileVars    == <<disk, manifest, file, dir>>
historyVars == <<extracted, recorded>>
callVars    == <<step, asked, task, snapshot, got>>
vars == <<runner, fileVars, callVars, historyVars, faults>>

InProgress == {"asked", "fetch", "extract", "writing"}
Task == {"none", "fetch", "fetching", "refused", "fetched",
         "extract", "extracting", "extracted"}
Content == Package \cup {"none", "partial", "mixed"}

\* Type correctness: the manifest, the files and the progress of the calls.
TypeOK ==
    /\ runner \in {"down", "creating", "up"}
    /\ disk \in {"absent", "garbled", "ok"}
    /\ manifest \in SUBSET Package
    /\ step \in [Call -> InProgress \cup {"idle", "done", "failed"}]
    /\ asked \in [Call -> Package \cup {None}]
    /\ task \in [Call -> [File -> Task]]
    /\ snapshot \in [Call -> SUBSET Package]
    /\ file \in [File -> Content]
    /\ got \in [Call -> [File -> Content]]
    /\ dir \in [Package -> [File ->
                    {"none", "extracting", "flushing", "short", "foreign", "full"}]]
    /\ extracted \in SUBSET (Package \X File)
    /\ recorded \in SUBSET Package
    /\ faults \in 0..MaxFaults

Nothing == [f \in File |-> "none"]

Init ==
    /\ runner = "down"
    /\ disk = "absent"
    /\ manifest = {}
    /\ step = [c \in Call |-> "idle"]
    /\ asked = [c \in Call |-> None]
    /\ task = [c \in Call |-> Nothing]
    /\ snapshot = [c \in Call |-> {}]
    /\ file = Nothing
    /\ got = [c \in Call |-> Nothing]
    /\ dir = [p \in Package |-> Nothing]
    /\ extracted = {}
    /\ recorded = {}
    /\ faults = 0

\* The environment injects a fault of this kind, within the bound MaxFaults.
Injects(kind) ==
    /\ kind \in Fault
    /\ faults < MaxFaults
    /\ faults' = faults + 1

\* The package a call installs, and what it downloads and extracts for it.
Target(c)  == Resolved[asked[c]]
Sources(c) == Assets[Target(c)]

\* Call c is where from says, in a running runner, and goes on.
Goes(c, from, to) ==
    /\ runner = "up"
    /\ step[c] = from
    /\ step' = [step EXCEPT ![c] = to]

\* What call c does for a file goes on from one task to the next.  A call that has
\* failed waits for none of them: they go on, and their ends are nothing to it.
TaskGoes(c, f, from, to) ==
    /\ runner = "up"
    /\ task[c][f] = from
    /\ task' = [task EXCEPT ![c][f] =
                   IF step[c] = "failed" /\ to \in {"fetched", "extracted"} THEN "none"
                   ELSE to]

\* One of the promises that Promise.all waits for rejects: the call fails, and what
\* it does for other files goes on.  left is what remains of the one that failed.
TaskFails(c, f, from, left) ==
    /\ runner = "up"
    /\ task[c][f] = from
    /\ step' = [step EXCEPT ![c] = "failed"]
    /\ task' = [task EXCEPT ![c] =
                   [g \in File |-> IF g = f THEN left
                                   ELSE IF @[g] \in {"fetched", "extracted"} THEN "none"
                                   ELSE @[g]]]

\* Promise.all resolves: the tasks of call c for all of its files have ended.
AllAre(c, status) == \A f \in Sources(c) : task[c][f] = status

\* The tasks of a call that starts with all of its files at once.
StartsAll(c, status) ==
    task' = [task EXCEPT ![c] = [f \in File |-> IF f \in Sources(c) THEN status ELSE "none"]]

\* A file is written, and extractions that are reading it may read a broken one.
Writes(f, content) ==
    /\ file' = [file EXCEPT ![f] = content]
    /\ \E D \in SUBSET {d \in Call : task[d][f] = "extracting" /\ got[d][f] # content} :
          got' = [d \in Call |-> IF d \in D THEN [got[d] EXCEPT ![f] = "partial"] ELSE got[d]]

-----------------------------------------------------------------------------
(* The runner. *)

\* Repo.init finds a manifest, whatever is in it.
StartOnManifest ==
    /\ runner = "down"
    /\ disk # "absent"
    /\ runner' = "up"
    /\ UNCHANGED <<fileVars, callVars, historyVars, faults>>

\* Repo.init finds none and opens a new one, which is empty until it is written.
StartOnNothing ==
    /\ runner = "down"
    /\ disk = "absent"
    /\ runner' = "creating"
    /\ disk' = "garbled"
    /\ UNCHANGED <<manifest, file, dir, callVars, historyVars, faults>>

\* Repo.init writes the manifest without services.
CreateManifest ==
    /\ runner = "creating"
    /\ runner' = "up"
    /\ disk' = "ok"
    /\ manifest' = {}
    /\ UNCHANGED <<file, dir, callVars, historyVars, faults>>

\* The process ends: calls in progress are lost, and so is what was not written.
RunnerDies ==
    /\ runner' = "down"
    /\ step' = [c \in Call |-> IF step[c] \in InProgress THEN "failed" ELSE step[c]]
    /\ task' = [c \in Call |-> Nothing]
    /\ snapshot' = [c \in Call |-> {}]
    /\ got' = [c \in Call |-> Nothing]
    /\ dir' = [p \in Package |-> [f \in File |->
                 IF dir[p][f] \in {"extracting", "flushing"} THEN "short" ELSE dir[p][f]]]
    /\ UNCHANGED <<disk, manifest, file, asked, historyVars>>

\* The runner is killed.
Crash == runner # "down" /\ Injects("crash") /\ RunnerDies

-----------------------------------------------------------------------------
(* Installer.install up to the download. *)

\* A client asks for a package.
Install(c, p) ==
    /\ Goes(c, "idle", "asked")
    /\ asked' = [asked EXCEPT ![c] = p]
    /\ UNCHANGED <<runner, fileVars, task, snapshot, got, historyVars, faults>>

\* Variants: a manifest that cannot be parsed is waited for; an install that
\* cannot go on returns.
InstallEndsParsed(c) ==
    /\ Goes(c, "asked", IF asked[c] \in manifest THEN "done" ELSE "failed")
    /\ disk = "ok"
    /\ asked[c] \in manifest \/ Target(c) = None
    /\ UNCHANGED <<runner, fileVars, asked, task, snapshot, got, historyVars, faults>>

InstallEndsQuietly(c) ==
    /\ Goes(c, "asked", "done")
    /\ disk = "ok" => asked[c] \in manifest \/ Target(c) = None
    /\ UNCHANGED <<runner, fileVars, asked, task, snapshot, got, historyVars, faults>>

\* getServiceEntry: the manifest has the package, or cannot be parsed; or
\* Config.getService has no such service.
InstallEnds(c) ==
    /\ Goes(c, "asked", IF disk = "ok" /\ asked[c] \in manifest THEN "done" ELSE "failed")
    /\ disk = "ok" => asked[c] \in manifest \/ Target(c) = None
    /\ UNCHANGED <<runner, fileVars, asked, task, snapshot, got, historyVars, faults>>

\* The package is not there: its configuration is looked up, and the download of
\* all of its assets starts.
InstallGoesOn(c) ==
    /\ Goes(c, "asked", "fetch")
    /\ disk = "ok"
    /\ asked[c] \notin manifest
    /\ Target(c) # None
    /\ StartsAll(c, "fetch")
    /\ UNCHANGED <<runner, fileVars, asked, snapshot, got, historyVars, faults>>

\* Other calls that have a stream open on a file.
Writers(c, f) == {d \in Call \ {c} : task[d][f] \in {"fetching", "refused"}}

\* downloadAsset opens the file for writing, or copyFile does for an asset of this
\* machine, which truncates it under other downloads and extractions too; those may
\* have read it before.
OpenDownload(c, f) ==
    /\ TaskGoes(c, f, "fetch", "fetching")
    /\ Writes(f, IF \E d \in Writers(c, f) : task[d][f] = "refused" \/ Target(d) # Target(c)
                 THEN "mixed" ELSE "partial")
    /\ UNCHANGED <<runner, disk, manifest, dir, step, asked, snapshot, historyVars, faults>>

\* The stream finishes.  If another download writes the same file, it may not
\* have written all, or may have written over this one.
FinishDownload(c, f) ==
    /\ TaskGoes(c, f, "fetching", "fetched")
    /\ \/ Writes(f, Target(c))
       \/ Writers(c, f) # {} /\ Writes(f, IF file[f] = "mixed" THEN "mixed" ELSE "partial")
       \/ file[f] \notin {"partial", Target(c)} /\ Writes(f, "mixed")
    /\ UNCHANGED <<runner, disk, manifest, dir, step, asked, snapshot, historyVars, faults>>

\* The asset is copied from a file of this machine.
IsLocal(c, f) == <<Target(c), f>> \in Local

\* The copy fails; or the request does or times out, and nothing more is written; or it
\* has an error status, and the body of the answer is written to the file all the
\* same.  install rejects.
DownloadFails(c, f) ==
    /\ \E left \in {"none", "refused"} :
          /\ TaskFails(c, f, "fetching", left)
          /\ left = "refused" => ~IsLocal(c, f)
    /\ Injects("download")
    /\ UNCHANGED <<runner, fileVars, asked, snapshot, got, historyVars>>

\* The body of an answer with an error status is written.
FinishRefused(c, f) ==
    /\ TaskGoes(c, f, "refused", "none")
    /\ Writes(f, "mixed")
    /\ UNCHANGED <<runner, disk, manifest, dir, step, asked, snapshot, historyVars, faults>>

\* The connection is cut within the body: request ends the stream all the same.
DownloadCut(c, f) ==
    /\ TaskGoes(c, f, "fetching", "fetched")
    /\ ~IsLocal(c, f)
    /\ Injects("cut")
    /\ UNCHANGED <<runner, fileVars, step, asked, snapshot, got, historyVars>>

-----------------------------------------------------------------------------
(* Repo.addService, with the manifest it reads when all assets are there. *)

\* The manifest has the package, or cannot be parsed.
AddServiceEnds(c) ==
    /\ Goes(c, "fetch", IF disk = "ok" THEN "done" ELSE "failed")
    /\ AllAre(c, "fetched")
    /\ disk = "ok" => Target(c) \in manifest
    /\ task' = [task EXCEPT ![c] = Nothing]
    /\ UNCHANGED <<runner, fileVars, asked, snapshot, got, historyVars, faults>>

\* Variant: a package that is there is added again.
AddServiceGoesOnAnyway(c) ==
    /\ Goes(c, "fetch", "extract")
    /\ AllAre(c, "fetched")
    /\ disk = "ok"
    /\ snapshot' = [snapshot EXCEPT ![c] = manifest]
    /\ StartsAll(c, "extract")
    /\ UNCHANGED <<runner, fileVars, asked, got, historyVars, faults>>

\* The entry to write is added to the entries that were read, and the extraction of
\* all assets starts.
AddServiceGoesOn(c) ==
    /\ Goes(c, "fetch", "extract")
    /\ AllAre(c, "fetched")
    /\ disk = "ok"
    /\ Target(c) \notin manifest
    /\ snapshot' = [snapshot EXCEPT ![c] = manifest]
    /\ StartsAll(c, "extract")
    /\ UNCHANGED <<runner, fileVars, asked, got, historyVars, faults>>

\* extractAsset knows the file by its extension and can open it, where that shows.
Opens(f) == Kind[f] # "other" /\ (Kind[f] = "zip" => file[f] \in Package)

\* A zip archive that cannot be opened, or an unknown extension: extractAsset rejects.
ExtractRejects(c, f) ==
    /\ TaskFails(c, f, "extract", "none")
    /\ ~Opens(f)
    /\ UNCHANGED <<runner, fileVars, asked, snapshot, got, historyVars, faults>>

\* extractAsset starts reading the file and writing the directory.
BeginExtract(c, f) ==
    /\ TaskGoes(c, f, "extract", "extracting")
    /\ Opens(f)
    /\ got' = [got EXCEPT ![c][f] = file[f]]
    /\ dir' = [dir EXCEPT ![Target(c)][f] = "extracting"]
    /\ UNCHANGED <<runner, disk, manifest, file, step, asked, snapshot, historyVars, faults>>

\* What the archive that was read makes of the directory.  A plain tar file does
\* not show that it is short; extractZipFile resolves when the archive is read,
\* with the last files still to be written.
DirAfter(c, f) ==
    IF \E d \in Call \ {c} : task[d][f] = "extracting" /\ Target(d) = Target(c)
    THEN "extracting"
    ELSE IF got[c][f] \notin Package THEN "short"
    ELSE IF got[c][f] # Target(c) THEN "foreign"
    ELSE IF Kind[f] = "zip" THEN "flushing"
    ELSE "full"

\* extractAsset resolves.
EndExtract(c, f) ==
    /\ TaskGoes(c, f, "extracting", "extracted")
    /\ got[c][f] \in Package \/ Kind[f] = "tar"
    /\ got' = [got EXCEPT ![c][f] = "none"]
    /\ dir' = [dir EXCEPT ![Target(c)][f] = DirAfter(c, f)]
    /\ extracted' = extracted \cup {<<Target(c), f>>}
    /\ UNCHANGED <<runner, disk, manifest, file, step, asked, snapshot, recorded, faults>>

\* An archive turns out to be broken: the error is thrown from a stream's event,
\* where nobody catches it.
ExtractThrows(c, f) ==
    /\ runner = "up"
    /\ task[c][f] = "extracting"
    /\ got[c][f] \notin Package
    /\ RunnerDies
    /\ UNCHANGED faults

\* The last files of a zip archive are written.
Flush(p, f) ==
    /\ dir[p][f] = "flushing"
    /\ dir' = [dir EXCEPT ![p][f] = "full"]
    /\ UNCHANGED <<runner, disk, manifest, file, callVars, historyVars, faults>>

\* Variant: the entry is written when the first archive is extracted.
OpenManifestAtFirst(c) ==
    /\ Goes(c, "extract", "writing")
    /\ \E f \in Sources(c) : task[c][f] = "extracted"
    /\ task' = [task EXCEPT ![c] = Nothing]
    /\ disk' = "garbled"
    /\ manifest' = {}
    /\ UNCHANGED <<runner, file, dir, asked, snapshot, got, historyVars, faults>>

\* fs.writeFile opens the manifest, which truncates it.
OpenManifest(c) ==
    /\ Goes(c, "extract", "writing")
    /\ AllAre(c, "extracted")
    /\ task' = [task EXCEPT ![c] = Nothing]
    /\ disk' = "garbled"
    /\ manifest' = {}
    /\ UNCHANGED <<runner, file, dir, asked, snapshot, got, historyVars, faults>>

\* Variants: only the new entry is written; an entry of no package is.
NewEntries(c) == {Target(c)}
UnnamedEntries(c) == snapshot[c] \cup {None}

\* What addService writes.
Entries(c) == snapshot[c] \cup {Target(c)}

\* fs.writeFile writes the text from the start of the file.  Where another call
\* has written a text since the file was opened, what is longer of it remains.
WriteManifest(c) ==
    /\ Goes(c, "writing", "done")
    /\ manifest' = Entries(c)
    /\ \/ disk' = "ok"
       \/ ~(manifest \subseteq Entries(c)) /\ disk' = "garbled"
    /\ recorded' = recorded \cup Entries(c)
    /\ snapshot' = [snapshot EXCEPT ![c] = {}]
    /\ UNCHANGED <<runner, file, dir, asked, task, got, extracted, faults>>

-----------------------------------------------------------------------------

Boot == StartOnManifest \/ StartOnNothing \/ CreateManifest

FileStep(c, f) ==
    \/ OpenDownload(c, f) \/ FinishDownload(c, f) \/ FinishRefused(c, f)
    \/ DownloadFails(c, f) \/ DownloadCut(c, f)
    \/ ExtractRejects(c, f) \/ BeginExtract(c, f) \/ EndExtract(c, f) \/ ExtractThrows(c, f)

CallStep(c) ==
    \/ InstallEnds(c) \/ InstallGoesOn(c)
    \/ AddServiceEnds(c) \/ AddServiceGoesOn(c)
    \/ OpenManifest(c) \/ WriteManifest(c)
    \/ \E f \in File : FileStep(c, f)

Next ==
    \/ Boot
    \/ Crash
    \/ \E c \in Call, p \in Package : Install(c, p)
    \/ \E c \in Call : CallStep(c)
    \/ \E p \in Package, f \in File : Flush(p, f)

Spec == Init /\ [][Next]_vars

\* I/O completes or fails, downloads at their timeout at the latest.
Fairness ==
    /\ \A c \in Call : WF_vars(CallStep(c))
    /\ \A p \in Package, f \in File : WF_vars(Flush(p, f))

FairSpec == Spec /\ Fairness

-----------------------------------------------------------------------------
(* Properties. *)

IsExtracted(p) == \A f \in Assets[p] : <<p, f>> \in extracted

\* Whatever calls run at the same time, an entry in the manifest stands for a
\* package all of whose archives were extracted before: no call records what another
\* one is still to extract, and a crash leaves no entry without files.
RecordedAfterExtraction == \A p \in manifest : IsExtracted(p)

\* install returns only for a package that is, or was, recorded: the one asked for
\* or the one the configuration has in its place.
DoneWasRecorded ==
    \A c \in Call : step[c] = "done" => {asked[c], Target(c)} \cap recorded # {}

\* The manifest is a record: as long as it can be read it has every package that
\* was ever written to it.
NothingForgotten == disk = "ok" => recorded \subseteq manifest

\* Every install comes to its end.
InstallConcludes == \A c \in Call : step[c] = "asked" ~> step[c] \in {"done", "failed"}

-----------------------------------------------------------------------------
(* The inductive invariant: what the safety properties rest on. *)

\* A call that is past its lookup, and one that has something under way, has a
\* package that is configured.  One that was not made, and one that writes the
\* manifest, has nothing under way.
CallsResolved ==
    \A c \in Call :
        /\ step[c] \in {"idle", "writing"} => task[c] = Nothing
        /\ step[c] = "asked" => asked[c] \in Package
        /\ step[c] \in {"fetch", "extract", "writing"} \/ task[c] # Nothing =>
              asked[c] \in Package /\ Target(c) \in Package

\* What a call is about to write is extracted: what it read from the manifest,
\* and its own package.
EntriesExtracted ==
    \A c \in Call :
        /\ \A p \in snapshot[c] : IsExtracted(p)
        /\ \A f \in File : task[c][f] = "extracted" => <<Target(c), f>> \in extracted
        /\ step[c] = "writing" => IsExtracted(Target(c))

\* Every step keeps these together: the entries a call writes back were extracted
\* when it read them, and its own are by the time it gets to the manifest.
InductiveInvariant ==
    /\ TypeOK
    /\ CallsResolved
    /\ EntriesExtracted
    /\ manifest \subseteq recorded
    /\ RecordedAfterExtraction
    /\ DoneWasRecorded

=============================================================================
