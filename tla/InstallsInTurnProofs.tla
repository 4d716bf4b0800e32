------------------------- MODULE InstallsInTurnProofs -------------------------
(***************************************************************************)
(* Clients that wait for one install before they ask for the next get what *)
(* a repository promises, for any packages, calls, files and faults.       *)
(***************************************************************************)
EXTENDS InstallsInTurn, InstallerProofs

\* The history variables watch, and stop nothing.
LEMMA TurnsStepIsStep == [TurnsNext]_turnVars => [Next]_vars
  BY DEF TurnsNext, turnVars

\* The installer with the history variables implements the installer.
THEOREM TurnsKeepInstaller == TurnsSpec => Spec
<1>1. TurnsInit => Init
  BY DEF TurnsInit
<1> QED
  BY <1>1, TurnsStepIsStep, PTL DEF TurnsSpec, Spec

\* What was spoiled stays spoiled.
LEMMA SpoiledStays == [TurnsNext]_turnVars => spoiled \subseteq spoiled'
  BY DEF TurnsNext, turnVars

\* What the history variable has not seen has not been, and is not.
LEMMA OverlapStep ==
    ASSUME [TurnsNext]_turnVars
    PROVE  /\ overlapped' # "calls" =>
                /\ overlapped # "calls"
                /\ \/ UNCHANGED turnVars
                   \/ \A c, d \in Call :
                         step'[c] \in InProgress /\ step'[d] \in InProgress => c = d
           /\ overlapped' = "none" =>
                /\ overlapped = "none"
                /\ \/ UNCHANGED turnVars
                   \/ \A c, d \in Call : UnderWay(c)' /\ UnderWay(d)' => c = d
<1>1. CASE UNCHANGED turnVars
  BY <1>1 DEF turnVars
<1>2. CASE TurnsNext
  BY <1>2 DEF TurnsNext, Overlap, UnderWay
<1> QED
  BY <1>1, <1>2

-----------------------------------------------------------------------------

\* Calls are under way in a running runner only, whose first start made a manifest.
LEMMA RunnerFirstStep == TypeOK /\ RunnerFirst /\ [Next]_vars => RunnerFirst'
<1> SUFFICES ASSUME TypeOK, RunnerFirst, [Next]_vars
             PROVE  RunnerFirst'
  OBVIOUS
<1> USE DEF RunnerFirst, UnderWay
<1>1. CASE Boot
  BY <1>1 DEF Boot, StartOnManifest, StartOnNothing, CreateManifest, fileVars, callVars
<1>2. ASSUME RunnerDies, runner # "down"
      PROVE  RunnerFirst'
  BY <1>2 DEF RunnerDies, InProgress
<1>3. CASE Crash
  BY <1>2, <1>3 DEF Crash
<1>4. ASSUME runner = "up", runner' = "up", disk' # "absent"
      PROVE  RunnerFirst'
  BY <1>4
<1>5. ASSUME NEW c \in Call, NEW p \in Package, Install(c, p)
      PROVE  RunnerFirst'
  BY <1>4, <1>5 DEF Install, Goes, fileVars
<1>6. ASSUME NEW c \in Call, NEW f \in File, FileStep(c, f)
      PROVE  RunnerFirst'
  <2>1. CASE ExtractThrows(c, f)
    BY <1>2, <2>1 DEF ExtractThrows
  <2>2. CASE OpenDownload(c, f) \/ FinishDownload(c, f) \/ FinishRefused(c, f)
    BY <1>4, <2>2 DEF OpenDownload, FinishDownload, FinishRefused, TaskGoes
  <2>3. CASE DownloadFails(c, f) \/ ExtractRejects(c, f)
    BY <1>4, <2>3 DEF DownloadFails, ExtractRejects, TaskFails, fileVars
  <2>4. CASE DownloadCut(c, f) \/ BeginExtract(c, f) \/ EndExtract(c, f)
    BY <1>4, <2>4 DEF DownloadCut, BeginExtract, EndExtract, TaskGoes, fileVars
  <2> QED
    BY <1>6, <2>1, <2>2, <2>3, <2>4 DEF FileStep
<1>7. ASSUME NEW c \in Call, CallStep(c)
      PROVE  RunnerFirst'
  <2>1. CASE InstallEnds(c) \/ InstallGoesOn(c) \/ AddServiceEnds(c) \/ AddServiceGoesOn(c)
    BY <1>4, <2>1 DEF InstallEnds, InstallGoesOn, AddServiceEnds, AddServiceGoesOn, Goes,
         fileVars
  <2>2. CASE OpenManifest(c) \/ WriteManifest(c)
    BY <1>4, <2>2 DEF OpenManifest, WriteManifest, Goes
  <2> QED
    BY <1>6, <1>7, <2>1, <2>2 DEF CallStep
<1>8. CASE \E p \in Package, f \in File : Flush(p, f)
  BY <1>8 DEF Flush, callVars
<1>9. CASE UNCHANGED vars
  BY <1>9 DEF vars, fileVars, callVars
<1> QED
  BY <1>1, <1>3, <1>5, <1>7, <1>8, <1>9 DEF Next

-----------------------------------------------------------------------------

\* A call that is alone in progress finds the manifest as it has read it.
LEMMA RecordIsOwnStep ==
    /\ InductiveInvariant
    /\ RunnerFirst
    /\ overlapped # "calls" => RecordIsOwn
    /\ [TurnsNext]_turnVars
    => (overlapped' # "calls" => RecordIsOwn')
<1> SUFFICES ASSUME InductiveInvariant, RunnerFirst, overlapped # "calls" => RecordIsOwn,
                    [TurnsNext]_turnVars, overlapped' # "calls"
             PROVE  RecordIsOwn'
  OBVIOUS
<1>1. overlapped # "calls" /\ RecordIsOwn
  BY OverlapStep
<1>2. TypeOK /\ CallsResolved
  BY DEF InductiveInvariant
<1>3. CASE UNCHANGED turnVars
  BY <1>1, <1>3 DEF turnVars, vars, fileVars, callVars, RecordIsOwn, Target
<1> SUFFICES ASSUME ~UNCHANGED turnVars
             PROVE  RecordIsOwn'
  BY <1>3
<1>4. \A c, d \in Call : step'[c] \in InProgress /\ step'[d] \in InProgress => c = d
  BY OverlapStep
<1>5. [Next]_vars
  BY TurnsStepIsStep
<1> USE DEF RecordIsOwn, InProgress
<1>6. ASSUME disk' = disk, manifest' = manifest, snapshot' = snapshot, asked' = asked,
             \A d \in Call : step'[d] \in {"extract", "writing"} => step'[d] = step[d]
      PROVE  RecordIsOwn'
  BY <1>1, <1>4, <1>6 DEF Target
<1>7. CASE Boot
  <2>1. \A d \in Call : step[d] \notin InProgress
    BY <1>7 DEF Boot, StartOnManifest, StartOnNothing, CreateManifest, RunnerFirst, UnderWay
  <2> QED
    BY <1>1, <1>4, <1>7, <2>1 DEF Boot, StartOnManifest, StartOnNothing, CreateManifest, fileVars,
       callVars, RunnerFirst
<1>8. CASE RunnerDies
  BY <1>1, <1>4, <1>8 DEF RunnerDies
<1>9. ASSUME NEW c \in Call, NEW p \in Package, Install(c, p)
      PROVE  RecordIsOwn'
  <2>1. \A d \in Call : d # c => step'[d] = step[d] /\ asked'[d] = asked[d]
    BY <1>2, <1>9 DEF Install, Goes, TypeOK
  <2>2. step'[c] = "asked"
    BY <1>2, <1>9 DEF Install, Goes, TypeOK
  <2> QED
    BY <1>1, <1>4, <1>9, <2>1, <2>2 DEF Install, fileVars, Target
<1>10. ASSUME NEW c \in Call, NEW f \in File, FileStep(c, f), ~RunnerDies
       PROVE  RecordIsOwn'
  <2>1. disk' = disk
    BY <1>10 DEF FileStep, OpenDownload, FinishDownload, FinishRefused, DownloadFails,
         DownloadCut, ExtractRejects, BeginExtract, EndExtract, ExtractThrows, fileVars
  <2>2. manifest' = manifest /\ asked' = asked
    BY <1>2, <1>10, FileStepKeepsRecord
  <2>3. snapshot' = snapshot
    BY <1>2, <1>10, FileStepFrame
  <2>4. \A d \in Call : step'[d] \in {step[d], "failed"}
    BY <1>2, <1>10, FileStepFrame
  <2> QED
    BY <1>6, <2>1, <2>2, <2>3, <2>4
<1>11. ASSUME NEW c \in Call, CallStep(c)
       PROVE  RecordIsOwn'
  <2>1. CASE InstallEnds(c)
    BY <1>2, <1>6, <2>1 DEF InstallEnds, Goes, TypeOK, fileVars
  <2>2. CASE InstallGoesOn(c)
    BY <1>2, <1>6, <2>2 DEF InstallGoesOn, Goes, TypeOK, fileVars
  <2>3. CASE AddServiceEnds(c)
    BY <1>2, <1>6, <2>3 DEF AddServiceEnds, Goes, TypeOK, fileVars
  <2>4. CASE AddServiceGoesOn(c)
    <3>1. \A d \in Call : d # c => step'[d] \notin InProgress
      BY <1>2, <1>4, <2>4 DEF AddServiceGoesOn, Goes, TypeOK
    <3>2. step'[c] = "extract" /\ snapshot'[c] = manifest
      BY <1>2, <2>4 DEF AddServiceGoesOn, Goes, TypeOK
    <3> QED
      BY <1>1, <1>4, <2>4, <3>1, <3>2 DEF AddServiceGoesOn, fileVars, Target
  <2>5. CASE OpenManifest(c)
    <3>1. \A d \in Call : d # c => step'[d] \notin InProgress
      BY <1>2, <1>4, <2>5 DEF OpenManifest, Goes, TypeOK
    <3>2. step[c] = "extract" /\ step'[c] = "writing"
      BY <1>2, <2>5 DEF OpenManifest, Goes, TypeOK
    <3> QED
      BY <1>1, <1>4, <2>5, <3>1, <3>2 DEF OpenManifest, Target
  <2>6. CASE WriteManifest(c)
    <3>1. \A d \in Call : step'[d] \notin {"extract", "writing"}
      BY <1>1, <1>2, <2>6 DEF WriteManifest, Goes, TypeOK
    <3>2. manifest = {}
      BY <1>1, <2>6 DEF WriteManifest, Goes
    <3> QED
      BY <1>4, <2>6, <3>1, <3>2 DEF WriteManifest
  <2> QED
    BY <1>8, <1>10, <1>11, <2>1, <2>2, <2>3, <2>4, <2>5, <2>6 DEF CallStep
<1>12. CASE \E p \in Package, f \in File : Flush(p, f)
  BY <1>6, <1>12 DEF Flush, callVars
<1>13. CASE UNCHANGED vars
  BY <1>6, <1>13 DEF vars, fileVars, callVars
<1> QED
  BY <1>5, <1>7, <1>8, <1>9, <1>11, <1>12, <1>13 DEF Next, Crash

-----------------------------------------------------------------------------

\* What is whole stays whole where no archive is extracted.
LEMMA WholeKept ==
    ASSUME NEW p \in Package, NEW f \in File, AssetIsWhole(p, f), [TurnsNext]_turnVars,
           dir'[p][f] \in {dir[p][f], "full"}
    PROVE  AssetIsWhole(p, f)'
  BY SpoiledStays DEF AssetIsWhole

\* A runner that dies leaves what was whole of a recorded package, but for what it spoils.
LEMMA DeathKeepsWhole ==
    ASSUME TurnsNext, RunnerDies, runner # "down",
           NEW p \in Package, p \in manifest, NEW f \in File, AssetIsWhole(p, f)
    PROVE  AssetIsWhole(p, f)'
<1>1. CASE dir[p][f] = "flushing"
  <2>1. <<p, f>> \in CutShort
    BY <1>1 DEF CutShort, RunnerDies
  <2> QED
    BY <2>1 DEF TurnsNext, AssetIsWhole
<1>2. CASE dir[p][f] # "flushing"
  BY <1>2 DEF RunnerDies, AssetIsWhole, TurnsNext
<1> QED
  BY <1>1, <1>2

\* Nobody else is under way where a call is.
LEMMA NobodyElse ==
    ASSUME CallsResolved, FilesAreOwn, NEW c \in Call, NEW f \in File, task[c][f] # "none"
    PROVE  /\ \A d \in Call : d # c => ~UnderWay(d) /\ \A g \in File : task[d][g] = "none"
           /\ Writers(c, f) = {}
           /\ step[c] # "writing"
<1>1. task[c] # Nothing
  BY DEF Nothing
<1>2. \A d \in Call : d # c => ~UnderWay(d)
  BY <1>1 DEF FilesAreOwn, UnderWay
<1>3. \A d \in Call : d # c => \A g \in File : task[d][g] = "none"
  BY <1>2 DEF UnderWay, Nothing
<1>4. Writers(c, f) = {}
  BY <1>3 DEF Writers
<1>5. step[c] # "writing"
  BY <1>1 DEF CallsResolved
<1> QED
  BY <1>2, <1>3, <1>4, <1>5

\* A step that leaves directories, manifest and snapshots alone, and brings no call to
\* writing, keeps what is whole and what was promised of it.
LEMMA WholeFrame ==
    ASSUME TypeOK, CallsResolved, FilesAreOwn, [TurnsNext]_turnVars,
           asked' = asked, dir' = dir, manifest' = manifest, snapshot' = snapshot,
           \A d \in Call : step'[d] = "writing" => step[d] = "writing"
    PROVE  /\ \A d \in Call : step'[d] = "writing" =>
                /\ IsWhole(Target(d))'
                /\ \A p \in snapshot'[d] : IsWhole(p)'
           /\ RecordedIsWhole'
  BY SpoiledStays DEF FilesAreOwn, IsWhole, AssetIsWhole, RecordedIsWhole, Target

\* Writing a file changes no other one, and nothing that is read from others.
LEMMA WritesElsewhere ==
    ASSUME TypeOK, NEW f \in File, NEW content, Writes(f, content)
    PROVE  /\ file'[f] = content
           /\ \A g \in File : g # f => file'[g] = file[g]
           /\ \A d \in Call, g \in File : g # f => got'[d][g] = got[d][g]
<1>1. PICK D \in SUBSET {d \in Call : task[d][f] = "extracting" /\ got[d][f] # content} :
        got' = [d \in Call |-> IF d \in D THEN [got[d] EXCEPT ![f] = "partial"] ELSE got[d]]
  BY DEF Writes
<1> QED
  BY <1>1 DEF Writes, TypeOK

\* A step of one file leaves the others, and what the directories have of them.
LEMMA FilesElsewhere ==
    ASSUME TypeOK, NEW c \in Call, NEW f \in File, FileStep(c, f), ~RunnerDies
    PROVE  /\ \A g \in File : g # f => file'[g] = file[g] /\ got'[c][g] = got[c][g]
           /\ \A p \in Package, g \in File :
                 p # Target(c) \/ g # f => dir'[p][g] = dir[p][g]
<1>1. CASE OpenDownload(c, f) \/ FinishDownload(c, f) \/ FinishRefused(c, f)
  <2>1. dir' = dir /\ \E content : Writes(f, content)
    BY <1>1 DEF OpenDownload, FinishDownload, FinishRefused
  <2> QED
    BY <2>1, WritesElsewhere
<1>2. CASE DownloadFails(c, f) \/ DownloadCut(c, f) \/ ExtractRejects(c, f)
  BY <1>2 DEF DownloadFails, DownloadCut, ExtractRejects, fileVars
<1>3. CASE BeginExtract(c, f)
  BY <1>3 DEF BeginExtract, TypeOK
<1>4. CASE EndExtract(c, f)
  BY <1>4 DEF EndExtract, TypeOK
<1>5. CASE ExtractThrows(c, f)
  BY <1>5 DEF ExtractThrows
<1> QED
  BY <1>1, <1>2, <1>3, <1>4, <1>5 DEF FileStep

\* What a call reads in turn becomes what the directory should have.
LEMMA ExtractedIsWhole ==
    ASSUME TypeOK, CallsResolved, FilesAreOwn, [TurnsNext]_turnVars,
           NEW c \in Call, NEW f \in File, EndExtract(c, f)
    PROVE  AssetIsWhole(Target(c), f)'
<1> USE ResolvedAssumption
<1>1. task[c][f] = "extracting"
  BY DEF EndExtract, TaskGoes
<1>2. Target(c) \in Package /\ Target(c)' = Target(c)
  BY <1>1, BusyIsResolved DEF EndExtract, Target
<1>3. \/ got[c][f] = Target(c)
      \/ Kind[f] = "tar" /\ <<Target(c), f>> \in spoiled
  <2>1. IsOwn(got[c][f], Target(c), f)
    BY <1>1 DEF FilesAreOwn, TransferIsOwn
  <2>2. got[c][f] = "partial" => Kind[f] = "tar"
    BY DEF EndExtract
  <2> QED
    BY <2>1, <2>2 DEF IsOwn
<1>4. ~ \E d \in Call \ {c} : task[d][f] = "extracting" /\ Target(d) = Target(c)
  BY <1>1, NobodyElse
<1>5. got[c][f] = Target(c) => DirAfter(c, f) = IF Kind[f] = "zip" THEN "flushing" ELSE "full"
  BY <1>2, <1>4 DEF DirAfter
<1>6. dir'[Target(c)][f] = DirAfter(c, f)
  BY <1>2 DEF EndExtract, TypeOK
<1> QED
  BY <1>2, <1>3, <1>5, <1>6, SpoiledStays DEF AssetIsWhole

\* A step of one file goes on with its transfer as its call would have it.
LEMMA TransferStep ==
    ASSUME TypeOK, CallsResolved, RecordIsOwn, FilesAreOwn, TurnsNext,
           NEW c \in Call, NEW f \in File, FileStep(c, f), ~RunnerDies
    PROVE  TransferIsOwn(c, f)'
<1>1. Target(c)' = Target(c) /\ manifest' = manifest /\ Target(c) \in Package
  BY FileStepFrame, FileStepKeepsRecord, BusyIsResolved DEF Target
<1>2. TransferIsOwn(c, f)
  BY DEF FilesAreOwn
<1>3. Writers(c, f) = {}
  BY FileStepFrame, NobodyElse
<1> USE <1>1, <1>2 DEF TypeOK, TransferIsOwn
<1>4. CASE OpenDownload(c, f)
  <2>1. file'[f] = "partial" /\ task'[c][f] = "fetching"
    BY <1>3, <1>4, WritesElsewhere DEF OpenDownload, TaskGoes
  <2> QED
    BY <2>1
<1>5. CASE FinishDownload(c, f)
  <2>1. file[f] = "partial"
    BY <1>5 DEF FinishDownload, TaskGoes
  <2>2. Writes(f, Target(c)) /\ task'[c][f] \in {"fetched", "none"}
    BY <1>3, <1>5, <2>1 DEF FinishDownload, TaskGoes
  <2>3. file'[f] = Target(c)
    BY <2>2, WritesElsewhere
  <2> QED
    BY <2>2, <2>3 DEF IsOwn
<1>6. CASE FinishRefused(c, f)
  BY <1>6 DEF FinishRefused, TaskGoes
<1>7. CASE DownloadFails(c, f) \/ ExtractRejects(c, f)
  BY <1>7 DEF DownloadFails, ExtractRejects, TaskFails
<1>8. CASE DownloadCut(c, f)
  <2>1. file[f] = "partial" /\ file' = file /\ task'[c][f] \in {"fetched", "none"}
    BY <1>8 DEF DownloadCut, TaskGoes, fileVars
  <2>2. runner = "up" /\ runner' = "up"
    BY <1>8 DEF DownloadCut, TaskGoes
  <2>3. Kind[f] = "tar" => <<Target(c), f>> \in CutShort
    <3>1. ASSUME Kind[f] = "tar"
          PROVE  <<Target(c), f>> \in CutShort
      <4>1. <<c, f>> \in {u \in Call \X File : Kind[u[2]] = "tar" /\ DownloadCut(u[1], u[2])}
        BY <1>8, <3>1
      <4> QED
        BY <2>2, <4>1 DEF CutShort
    <3> QED
      BY <3>1
  <2>4. Kind[f] = "tar" => <<Target(c), f>> \in spoiled'
    BY <2>3 DEF TurnsNext
  <2> QED
    BY <2>1, <2>4 DEF IsOwn
<1>9. CASE BeginExtract(c, f)
  <2>1. IsOwn(file[f], Target(c), f) /\ Target(c) \notin manifest
    BY <1>9 DEF BeginExtract, TaskGoes
  <2>2. got'[c][f] = file[f] /\ task'[c][f] = "extracting"
    BY <1>9 DEF BeginExtract, TaskGoes
  <2> QED
    BY <2>1, <2>2, SpoiledStays DEF IsOwn
<1>10. CASE EndExtract(c, f)
  <2>1. AssetIsWhole(Target(c), f)'
    BY <1>10, ExtractedIsWhole
  <2>2. task'[c][f] \in {"extracted", "none"}
    BY <1>10 DEF EndExtract, TaskGoes
  <2>3. Target(c) \notin manifest'
    BY <1>10 DEF EndExtract, TaskGoes
  <2> QED
    BY <2>1, <2>2, <2>3
<1>11. CASE ExtractThrows(c, f)
  BY <1>11 DEF ExtractThrows
<1> QED
  BY <1>4, <1>5, <1>6, <1>7, <1>8, <1>9, <1>10, <1>11 DEF FileStep

\* A step of one file keeps what is promised of files.
LEMMA FileStepKeepsOwn ==
    ASSUME TypeOK, CallsResolved, RecordIsOwn, FilesAreOwn, TurnsNext,
           NEW c \in Call, NEW f \in File, FileStep(c, f), ~RunnerDies,
           \A d, e \in Call : UnderWay(d)' /\ UnderWay(e)' => d = e
    PROVE  FilesAreOwn'
<1>1. /\ task[c][f] # "none"
      /\ asked' = asked /\ snapshot' = snapshot
      /\ \A d \in Call : d # c => task'[d] = task[d] /\ step'[d] = step[d]
      /\ step'[c] \in {step[c], "failed"}
      /\ \A g \in File : g # f => task'[c][g] \in {task[c][g], "none"}
  BY FileStepFrame
<1>2. manifest' = manifest
  BY FileStepKeepsRecord
<1>3. \A d \in Call : Target(d)' = Target(d)
  BY <1>1 DEF Target
<1>4. Target(c) \in Package
  BY <1>1, BusyIsResolved
<1>5. \A d \in Call : d # c => ~UnderWay(d) /\ \A g \in File : task[d][g] = "none"
  BY <1>1, NobodyElse
<1>6. \A d \in Call : step'[d] # "writing"
  <2>1. step[c] # "writing"
    BY <1>1, NobodyElse
  <2> QED
    BY <1>1, <1>5, <2>1 DEF UnderWay, InProgress
<1>7. \A d \in Call, g \in File : TransferIsOwn(d, g)'
  <2>1. ASSUME NEW d \in Call, d # c, NEW g \in File
        PROVE  TransferIsOwn(d, g)'
    BY <1>1, <1>5, <2>1 DEF TransferIsOwn
  <2>2. ASSUME NEW g \in File, g # f
        PROVE  TransferIsOwn(c, g)'
    <3>1. TransferIsOwn(c, g)
      BY DEF FilesAreOwn
    <3>2. /\ file'[g] = file[g] /\ got'[c][g] = got[c][g]
          /\ dir'[Target(c)][g] = dir[Target(c)][g]
      BY <1>4, <2>2, FilesElsewhere
    <3> QED
      BY <1>1, <1>2, <1>3, <2>2, <3>1, <3>2, SpoiledStays DEF TransferIsOwn, AssetIsWhole, IsOwn
  <2>3. TransferIsOwn(c, f)'
    BY TransferStep
  <2> QED
    BY <2>1, <2>2, <2>3
<1>8. RecordedIsWhole'
  <2>1. ASSUME NEW p \in manifest, NEW g \in Assets[p]
        PROVE  AssetIsWhole(p, g)'
    <3>1. p \in Package /\ g \in File /\ AssetIsWhole(p, g)
      BY ResolvedAssumption DEF TypeOK, FilesAreOwn, RecordedIsWhole, IsWhole
    <3>2. dir'[p][g] = dir[p][g] \/ task[c][f] \in {"extract", "extracting"}
      BY <3>1 DEF FileStep, OpenDownload, FinishDownload, FinishRefused, DownloadFails,
         DownloadCut, ExtractRejects, BeginExtract, EndExtract, ExtractThrows, TaskGoes,
         TaskFails, fileVars
    <3>3. task[c][f] \in {"extract", "extracting"} => p # Target(c)
      BY DEF FilesAreOwn, TransferIsOwn
    <3>4. dir'[p][g] = dir[p][g]
      BY <3>1, <3>2, <3>3, FilesElsewhere
    <3> QED
      BY <3>1, <3>4, WholeKept
  <2> QED
    BY <1>1, <1>2, <2>1 DEF RecordedIsWhole, IsWhole
<1> QED
  BY <1>6, <1>7, <1>8 DEF FilesAreOwn

\* While calls are made in turn, what they download and extract is their own.
LEMMA FilesAreOwnStep ==
    /\ InductiveInvariant
    /\ RunnerFirst
    /\ overlapped = "none" => RecordIsOwn /\ FilesAreOwn
    /\ [TurnsNext]_turnVars
    => (overlapped' = "none" => FilesAreOwn')
<1> SUFFICES ASSUME InductiveInvariant, RunnerFirst,
                    overlapped = "none" => RecordIsOwn /\ FilesAreOwn,
                    [TurnsNext]_turnVars, overlapped' = "none"
             PROVE  FilesAreOwn'
  OBVIOUS
<1>1. RecordIsOwn /\ FilesAreOwn
  BY OverlapStep
<1>2. TypeOK /\ CallsResolved
  BY DEF InductiveInvariant
<1>3. CASE UNCHANGED turnVars
  BY <1>1, <1>3 DEF turnVars, vars, fileVars, callVars, FilesAreOwn, UnderWay, TransferIsOwn,
     IsWhole, RecordedIsWhole, AssetIsWhole, IsOwn, Target
<1> SUFFICES ASSUME ~UNCHANGED turnVars, TurnsNext
             PROVE  FilesAreOwn'
  BY <1>3
<1>4. \A c, d \in Call : UnderWay(c)' /\ UnderWay(d)' => c = d
  BY OverlapStep
<1>5. [Next]_vars
  BY TurnsStepIsStep
<1>6. ASSUME RunnerDies, runner # "down"
      PROVE  FilesAreOwn'
  <2>1. \A d \in Call : step'[d] # "writing" /\ task'[d] = Nothing
    BY <1>6 DEF RunnerDies, InProgress
  <2>2. RecordedIsWhole'
    <3>1. \A p \in manifest : \A f \in Assets[p] :
             p \in Package /\ f \in File /\ AssetIsWhole(p, f)
      BY <1>1, <1>2, ResolvedAssumption DEF TypeOK, FilesAreOwn, RecordedIsWhole, IsWhole
    <3> QED
      BY <1>6, <3>1, DeathKeepsWhole DEF RunnerDies, RecordedIsWhole, IsWhole
  <2>3. \A d \in Call, f \in File : TransferIsOwn(d, f)'
    BY <2>1 DEF TransferIsOwn, Nothing
  <2> QED
    BY <1>4, <2>1, <2>2, <2>3 DEF FilesAreOwn
<1>7. CASE Boot
  <2>1. \A d \in Call : step'[d] # "writing" /\ task'[d] = Nothing
    BY <1>7 DEF Boot, StartOnManifest, StartOnNothing, CreateManifest, RunnerFirst, UnderWay,
       callVars, InProgress
  <2>2. RecordedIsWhole'
    BY <1>1, <1>7, SpoiledStays DEF Boot, StartOnManifest, StartOnNothing, CreateManifest, fileVars,
       FilesAreOwn, RecordedIsWhole, IsWhole, AssetIsWhole
  <2>3. \A d \in Call, f \in File : TransferIsOwn(d, f)'
    BY <2>1 DEF TransferIsOwn, Nothing
  <2> QED
    BY <1>4, <2>1, <2>2, <2>3 DEF FilesAreOwn
<1>8. ASSUME NEW c \in Call, NEW p \in Package, Install(c, p)
      PROVE  FilesAreOwn'
  <2>1. /\ \A d \in Call : d # c => step'[d] = step[d] /\ asked'[d] = asked[d]
        /\ step'[c] = "asked" /\ task[c] = Nothing
    BY <1>2, <1>8 DEF Install, Goes, TypeOK, CallsResolved
  <2>2. \A d \in Call, f \in File : TransferIsOwn(d, f)'
    BY <1>1, <1>8, <2>1, SpoiledStays DEF Install, fileVars, FilesAreOwn, TransferIsOwn, AssetIsWhole, IsOwn, Target,
       Nothing
  <2>3. RecordedIsWhole'
    BY <1>1, <1>8, SpoiledStays DEF Install, fileVars, FilesAreOwn, RecordedIsWhole, IsWhole, AssetIsWhole
  <2>4. \A d \in Call : step'[d] = "writing" =>
           /\ IsWhole(Target(d))'
           /\ \A q \in snapshot'[d] : IsWhole(q)'
    BY <1>1, <1>8, <2>1, SpoiledStays DEF Install, fileVars, FilesAreOwn, IsWhole, AssetIsWhole, IsOwn, Target
  <2> QED
    BY <1>4, <2>2, <2>3, <2>4 DEF FilesAreOwn
<1>9. ASSUME NEW c \in Call, CallStep(c)
      PROVE  FilesAreOwn'
  <2>1. CASE InstallEnds(c)
    <3>1. \A d \in Call, f \in File : TransferIsOwn(d, f)'
      BY <1>1, <2>1, SpoiledStays DEF InstallEnds, fileVars, FilesAreOwn, TransferIsOwn, AssetIsWhole, IsOwn, Target
    <3>2. \A d \in Call : step'[d] = "writing" => step[d] = "writing"
      BY <1>2, <2>1 DEF InstallEnds, Goes, TypeOK
    <3>3. asked' = asked /\ dir' = dir /\ manifest' = manifest /\ snapshot' = snapshot
      BY <2>1 DEF InstallEnds, fileVars
    <3> QED
      BY <1>1, <1>2, <1>4, <3>1, <3>2, <3>3, WholeFrame DEF FilesAreOwn
  <2>2. CASE InstallGoesOn(c)
    <3>1. /\ \A d \in Call : d # c => task'[d] = task[d] /\ step'[d] = step[d]
          /\ \A f \in File : task'[c][f] \in {"fetch", "none"}
          /\ step'[c] = "fetch"
      BY <1>2, <2>2 DEF InstallGoesOn, Goes, StartsAll, TypeOK
    <3>2. \A d \in Call, f \in File : TransferIsOwn(d, f)'
      BY <1>1, <2>2, <3>1, SpoiledStays DEF InstallGoesOn, fileVars, FilesAreOwn, TransferIsOwn, AssetIsWhole,
         IsOwn, Target
    <3>3. asked' = asked /\ dir' = dir /\ manifest' = manifest /\ snapshot' = snapshot
      BY <2>2 DEF InstallGoesOn, fileVars
    <3>4. \A d \in Call : step'[d] = "writing" => step[d] = "writing"
      BY <3>1
    <3> QED
      BY <1>1, <1>2, <1>4, <3>2, <3>3, <3>4, WholeFrame DEF FilesAreOwn
  <2>3. CASE AddServiceEnds(c)
    <3>1. /\ \A d \in Call : d # c => task'[d] = task[d] /\ step'[d] = step[d]
          /\ \A f \in File : task'[c][f] = "none"
          /\ step'[c] \in {"done", "failed"}
      BY <1>2, <2>3 DEF AddServiceEnds, Goes, Nothing, TypeOK
    <3>2. \A d \in Call, f \in File : TransferIsOwn(d, f)'
      BY <1>1, <2>3, <3>1, SpoiledStays DEF AddServiceEnds, fileVars, FilesAreOwn, TransferIsOwn,
         AssetIsWhole, IsOwn, Target
    <3>3. asked' = asked /\ dir' = dir /\ manifest' = manifest /\ snapshot' = snapshot
      BY <2>3 DEF AddServiceEnds, fileVars
    <3>4. \A d \in Call : step'[d] = "writing" => step[d] = "writing"
      BY <3>1
    <3> QED
      BY <1>1, <1>2, <1>4, <3>2, <3>3, <3>4, WholeFrame DEF FilesAreOwn
  <2>4. CASE AddServiceGoesOn(c)
    <3>1. /\ \A d \in Call : d # c => task'[d] = task[d] /\ step'[d] = step[d]
          /\ \A f \in File : \/ task'[c][f] = "none"
                             \/ task'[c][f] = "extract" /\ task[c][f] = "fetched"
          /\ step'[c] = "extract"
          /\ step[c] = "fetch"
      BY <1>2, <2>4 DEF AddServiceGoesOn, Goes, StartsAll, AllAre, TypeOK
    <3>2. asked' = asked /\ dir' = dir /\ manifest' = manifest /\ file' = file /\ got' = got
      BY <2>4 DEF AddServiceGoesOn, fileVars
    <3>3. \A d \in Call, f \in File : TransferIsOwn(d, f)'
      BY <1>1, <2>4, <3>1, <3>2, SpoiledStays DEF AddServiceGoesOn, FilesAreOwn, TransferIsOwn, AssetIsWhole,
         IsOwn, Target
    <3>4. \A d \in Call : step'[d] # "writing"
      BY <1>1, <3>1 DEF RecordIsOwn, InProgress
    <3>5. RecordedIsWhole'
      BY <1>1, <3>2, SpoiledStays DEF FilesAreOwn, RecordedIsWhole, IsWhole, AssetIsWhole
    <3> QED
      BY <1>4, <3>3, <3>4, <3>5 DEF FilesAreOwn
  <2>5. CASE OpenManifest(c)
    <3>1. /\ \A d \in Call : d # c => task'[d] = task[d] /\ step'[d] = step[d]
          /\ task'[c] = Nothing
          /\ step'[c] = "writing"
          /\ step[c] = "extract"
      BY <1>2, <2>5 DEF OpenManifest, Goes, TypeOK
    <3>2. asked' = asked /\ dir' = dir /\ manifest' = {} /\ snapshot' = snapshot /\ file' = file
          /\ got' = got
      BY <2>5 DEF OpenManifest
    <3>3. \A d \in Call, f \in File : TransferIsOwn(d, f)'
      BY <1>1, <3>1, <3>2, SpoiledStays DEF FilesAreOwn, TransferIsOwn, AssetIsWhole, IsOwn, Target, Nothing
    <3>4. Target(c) \in Package
      BY <1>2, <3>1 DEF CallsResolved
    <3>5. IsWhole(Target(c))
      BY <1>1, <2>5, <3>4, ResolvedAssumption DEF OpenManifest, AllAre, Sources, FilesAreOwn,
         TransferIsOwn, IsWhole
    <3>6. \A p \in snapshot[c] : IsWhole(p)
      BY <1>1, <3>1 DEF RecordIsOwn, FilesAreOwn, RecordedIsWhole, IsWhole
    <3>7. \A d \in Call : d # c => step'[d] # "writing"
      BY <1>1, <3>1 DEF RecordIsOwn, InProgress
    <3>8. IsWhole(Target(c))' /\ \A p \in snapshot'[c] : IsWhole(p)'
      BY <3>2, <3>5, <3>6, SpoiledStays DEF IsWhole, AssetIsWhole, IsOwn, Target
    <3>9. RecordedIsWhole'
      BY <3>2 DEF RecordedIsWhole
    <3> QED
      BY <1>4, <3>1, <3>3, <3>7, <3>8, <3>9 DEF FilesAreOwn
  <2>6. CASE WriteManifest(c)
    <3>1. /\ \A d \in Call : d # c => step'[d] = step[d]
          /\ task' = task /\ task[c] = Nothing
          /\ step'[c] = "done"
          /\ step[c] = "writing"
      BY <1>1, <1>2, <2>6 DEF WriteManifest, Goes, TypeOK, CallsResolved
    <3>2. asked' = asked /\ dir' = dir /\ manifest' = snapshot[c] \cup {Target(c)}
      BY <2>6 DEF WriteManifest, Entries
    <3>3. \A d \in Call : task'[d] = Nothing
      BY <1>1, <3>1 DEF FilesAreOwn, UnderWay, InProgress
    <3>4. \A d \in Call, f \in File : TransferIsOwn(d, f)'
      BY <3>3 DEF TransferIsOwn, Nothing
    <3>5. \A p \in manifest' : IsWhole(p)
      BY <1>1, <3>1, <3>2 DEF FilesAreOwn
    <3>6. RecordedIsWhole'
      BY <3>2, <3>5, SpoiledStays DEF RecordedIsWhole, IsWhole, AssetIsWhole
    <3>7. \A d \in Call : step'[d] # "writing"
      BY <1>1, <3>1 DEF RecordIsOwn, InProgress
    <3> QED
      BY <1>4, <3>4, <3>6, <3>7 DEF FilesAreOwn
  <2>7. CASE \E f \in File : FileStep(c, f)
    <3>1. runner = "up"
      BY <2>7 DEF FileStep, OpenDownload, FinishDownload, FinishRefused, DownloadFails,
         DownloadCut, ExtractRejects, BeginExtract, EndExtract, ExtractThrows, TaskGoes, TaskFails
    <3> QED
      BY <1>1, <1>2, <1>4, <1>6, <2>7, <3>1, FileStepKeepsOwn
  <2> QED
    BY <1>9, <2>1, <2>2, <2>3, <2>4, <2>5, <2>6, <2>7 DEF CallStep
<1>10. ASSUME NEW p \in Package, NEW f \in File, Flush(p, f)
       PROVE  FilesAreOwn'
  <2>1. \A q \in Package, g \in File : AssetIsWhole(q, g) => AssetIsWhole(q, g)'
    BY <1>2, <1>10, SpoiledStays DEF Flush, AssetIsWhole, TypeOK
  <2>2. \A q \in Package : IsWhole(q) => IsWhole(q)'
    BY <2>1, ResolvedAssumption DEF IsWhole
  <2>3. \A d \in Call : Target(d)' = Target(d)
    BY <1>10 DEF Flush, callVars, Target
  <2>4. \A d \in Call, g \in File : TransferIsOwn(d, g)'
    <3>1. ASSUME NEW d \in Call, NEW g \in File
          PROVE  TransferIsOwn(d, g)'
      <4>1. task[d][g] = "extracted" => Target(d) \in Package
        BY <1>2, BusyIsResolved
      <4> QED
        BY <1>1, <1>10, <2>1, <2>3, <4>1, SpoiledStays DEF Flush, callVars, FilesAreOwn, TransferIsOwn,
           IsOwn
    <3> QED
      BY <3>1
  <2>5. RecordedIsWhole'
    BY <1>1, <1>2, <1>10, <2>2 DEF Flush, FilesAreOwn, RecordedIsWhole, TypeOK
  <2>6. \A d \in Call : step'[d] = "writing" =>
           /\ IsWhole(Target(d))'
           /\ \A q \in snapshot'[d] : IsWhole(q)'
    BY <1>1, <1>2, <1>10, <2>2, <2>3 DEF Flush, callVars, FilesAreOwn, CallsResolved, TypeOK
  <2> QED
    BY <1>4, <2>4, <2>5, <2>6 DEF FilesAreOwn
<1>11. CASE UNCHANGED vars
  <2>1. \A d \in Call, f \in File : TransferIsOwn(d, f)'
    BY <1>1, <1>11, SpoiledStays DEF vars, fileVars, callVars, FilesAreOwn, TransferIsOwn, AssetIsWhole, IsOwn, Target
  <2> QED
    BY <1>1, <1>4, <1>11, <2>1, SpoiledStays DEF vars, fileVars, callVars, FilesAreOwn, IsWhole,
       RecordedIsWhole, AssetIsWhole, IsOwn, Target
<1> QED
  BY <1>5, <1>6, <1>7, <1>8, <1>9, <1>10, <1>11 DEF Next, Crash

-----------------------------------------------------------------------------

\* The promises hold as far as calls were made in turn.
THEOREM InTurnInvariance == TurnsSpec => []InTurnInvariant
<1>1. TurnsInit => InTurnInvariant
  BY DEF TurnsInit, Init, InTurnInvariant, RunnerFirst, RecordIsOwn, FilesAreOwn, UnderWay,
     InProgress, TransferIsOwn, Nothing, RecordedIsWhole
<1>2. InductiveInvariant /\ InTurnInvariant /\ [TurnsNext]_turnVars => InTurnInvariant'
  <2> SUFFICES ASSUME InductiveInvariant, InTurnInvariant, [TurnsNext]_turnVars
               PROVE  InTurnInvariant'
    OBVIOUS
  <2>1. RunnerFirst'
    BY RunnerFirstStep, TurnsStepIsStep DEF InTurnInvariant, InductiveInvariant
  <2>2. overlapped' # "calls" => RecordIsOwn'
    BY RecordIsOwnStep DEF InTurnInvariant
  <2>3. overlapped' = "none" => FilesAreOwn'
    BY FilesAreOwnStep DEF InTurnInvariant
  <2> QED
    BY <2>1, <2>2, <2>3 DEF InTurnInvariant
<1>3. TurnsSpec => []InductiveInvariant
  BY TurnsKeepInstaller, Invariance, PTL
<1> QED
  BY <1>1, <1>2, <1>3, PTL DEF TurnsSpec

\* Installs that are made one at a time record whole packages, however many failed
\* before them, but for the assets that a cut or a crash spoiled unnoticed.
THEOREM InTurnWholeUnlessSpoiledHolds == TurnsSpec => []InTurnWholeUnlessSpoiled
<1>1. InTurnInvariant => InTurnWholeUnlessSpoiled
  BY DEF InTurnInvariant, FilesAreOwn, InTurnWholeUnlessSpoiled
<1> QED
  BY <1>1, InTurnInvariance, PTL

-----------------------------------------------------------------------------
(* The refinement. *)

\* What there is of the record while nobody writes it, and while one call does.
LEMMA RecordAtRest ==
    ASSUME Writing = {}
    PROVE  /\ Record = manifest
           /\ Kept = IF disk = "absent" \/ runner = "creating" THEN "none"
                     ELSE IF disk = "ok" THEN "kept" ELSE "lost"
BY DEF Record, Kept

LEMMA RecordInWriting ==
    ASSUME RunnerFirst, RecordIsOwn, NEW c \in Call, step[c] = "writing"
    PROVE  /\ Writing = {c} /\ Record = snapshot[c] /\ Kept = "kept"
           /\ disk = "garbled" /\ manifest = {} /\ runner = "up"
<1>1. Writing = {c}
  BY DEF Writing, RecordIsOwn, InProgress
<1>2. runner = "up" /\ disk = "garbled" /\ manifest = {}
  BY DEF RunnerFirst, RecordIsOwn, UnderWay, InProgress
<1>3. Record = snapshot[c]
  BY <1>1, <1>2 DEF Record
<1> QED
  BY <1>1, <1>2, <1>3 DEF Kept

\* A step that changes neither the manifest nor what its writers do to it.
LEMMA RecordFrame ==
    ASSUME disk' = disk, manifest' = manifest, runner' = runner,
           \A d \in Call : (step'[d] = "writing") <=> (step[d] = "writing"),
           \A d \in Call : step[d] = "writing" => snapshot'[d] = snapshot[d]
    PROVE  UNCHANGED <<Record, Kept>>
<1>1. Writing' = Writing
  BY DEF Writing
<1>2. {snapshot'[c] : c \in Writing} = {snapshot[c] : c \in Writing}
  BY DEF Writing
<1> QED
  BY <1>1, <1>2 DEF Record, Kept

\* A step of calls in turn is one of the repository, or nothing to it.
LEMMA RepositoryStep ==
    ASSUME InductiveInvariant, RunnerFirst, RecordIsOwn, [Next]_vars
    PROVE  InTurn!Next \/ UNCHANGED InTurn!vars
<1> USE DEF InTurn!vars
<1>1. TypeOK /\ CallsResolved
  BY DEF InductiveInvariant
<1>2. CASE RunnerDies
  <2>1. /\ disk' = disk /\ manifest' = manifest /\ runner' = "down" /\ Writing' = {}
    BY <1>2 DEF RunnerDies, Writing, InProgress
  <2>2. /\ Record' = manifest
        /\ Kept' = IF disk = "absent" THEN "none" ELSE IF disk = "ok" THEN "kept" ELSE "lost"
    BY <2>1 DEF Record, Kept
  <2>3. CASE \E c \in Call : step[c] = "writing"
    <3>1. PICK c \in Call : step[c] = "writing"
      BY <2>3
    <3>2. Kept = "kept" /\ disk = "garbled" /\ manifest = {}
      BY <3>1, RecordInWriting
    <3>3. InTurn!Lose
      BY <2>2, <3>2 DEF InTurn!Lose
    <3> QED
      BY <3>3 DEF InTurn!Next
  <2>4. CASE Writing = {} /\ runner = "creating"
    <3>1. Kept = "none" /\ disk = "garbled" /\ manifest = {}
      BY <2>4 DEF Kept, RunnerFirst
    <3>2. InTurn!Lose
      BY <2>2, <3>1 DEF InTurn!Lose
    <3> QED
      BY <3>2 DEF InTurn!Next
  <2>5. CASE Writing = {} /\ runner # "creating"
    BY <2>2, <2>5, RecordAtRest
  <2> QED
    BY <2>3, <2>4, <2>5 DEF Writing
<1>3. CASE Boot
  <2>1. Writing = {} /\ step' = step
    BY <1>3 DEF Boot, StartOnManifest, StartOnNothing, CreateManifest, callVars, RunnerFirst,
       UnderWay, InProgress, Writing
  <2>2. Writing' = {}
    BY <2>1 DEF Writing
  <2>3. CASE StartOnManifest
    BY <2>1, <2>2, <2>3 DEF StartOnManifest, fileVars, Record, Kept
  <2>4. CASE StartOnNothing
    BY <2>1, <2>2, <2>4 DEF StartOnNothing, Record, Kept
  <2>5. CASE CreateManifest
    <3>1. InTurn!Create
      BY <2>1, <2>2, <2>5 DEF CreateManifest, InTurn!Create, RunnerFirst, Record, Kept
    <3> QED
      BY <3>1 DEF InTurn!Next
  <2> QED
    BY <1>3, <2>3, <2>4, <2>5 DEF Boot
<1>4. ASSUME NEW c \in Call, NEW p \in Package, Install(c, p)
      PROVE  UNCHANGED <<Record, Kept>>
  <2>1. \A d \in Call : (step'[d] = "writing") <=> (step[d] = "writing")
    BY <1>1, <1>4 DEF Install, Goes, TypeOK
  <2> QED
    BY <1>4, <2>1, RecordFrame DEF Install, fileVars
<1>5. ASSUME NEW c \in Call, CallStep(c)
      PROVE  InTurn!Next \/ UNCHANGED <<Record, Kept>> \/ RunnerDies
  <2>1. CASE InstallEnds(c) \/ InstallGoesOn(c) \/ AddServiceEnds(c)
    <3>1. \A d \in Call : (step'[d] = "writing") <=> (step[d] = "writing")
      BY <1>1, <2>1 DEF InstallEnds, InstallGoesOn, AddServiceEnds, Goes, TypeOK
    <3>2. UNCHANGED <<disk, manifest, runner, snapshot>>
      BY <2>1 DEF InstallEnds, InstallGoesOn, AddServiceEnds, fileVars
    <3> QED
      BY <3>1, <3>2, RecordFrame
  <2>2. CASE AddServiceGoesOn(c)
    <3>1. \A d \in Call : (step'[d] = "writing") <=> (step[d] = "writing")
      BY <1>1, <2>2 DEF AddServiceGoesOn, Goes, TypeOK
    <3>2. \A d \in Call : step[d] = "writing" => snapshot'[d] = snapshot[d]
      BY <1>1, <2>2 DEF AddServiceGoesOn, Goes, TypeOK
    <3> QED
      BY <2>2, <3>1, <3>2, RecordFrame DEF AddServiceGoesOn, fileVars
  <2>3. CASE OpenManifest(c)
    <3>1. step[c] = "extract" /\ disk = "ok" /\ snapshot[c] = manifest /\ runner = "up"
      BY <2>3 DEF OpenManifest, Goes, RecordIsOwn
    <3>2. Writing = {}
      BY <3>1 DEF RecordIsOwn, InProgress, Writing
    <3>3. Writing' = {c} /\ disk' = "garbled" /\ snapshot' = snapshot /\ runner' = runner
      BY <1>1, <2>3, <3>2 DEF OpenManifest, Goes, Writing, TypeOK
    <3>4. Record' = manifest /\ Kept' = "kept"
      BY <3>1, <3>3 DEF Record, Kept
    <3> QED
      BY <3>1, <3>2, <3>4, RecordAtRest
  <2>4. CASE WriteManifest(c)
    <3>1. step[c] = "writing"
      BY <2>4 DEF WriteManifest, Goes
    <3>2. /\ Writing = {c} /\ Record = snapshot[c] /\ Kept = "kept"
          /\ disk = "garbled" /\ manifest = {} /\ runner = "up"
      BY <3>1, RecordInWriting
    <3>3. Target(c) \in Package /\ Target(c) \notin snapshot[c]
      BY <1>1, <3>1 DEF CallsResolved, RecordIsOwn
    <3>4. Writing' = {}
      BY <1>1, <2>4, <3>2 DEF WriteManifest, Goes, Writing, TypeOK
    <3>5. disk' = "ok" /\ manifest' = snapshot[c] \cup {Target(c)} /\ runner' = runner
      BY <2>4, <3>2 DEF WriteManifest, Entries
    <3>6. Record' = snapshot[c] \cup {Target(c)} /\ Kept' = "kept"
      BY <3>2, <3>4, <3>5 DEF Record, Kept
    <3>7. InTurn!Add(Target(c))
      BY <3>2, <3>3, <3>6 DEF InTurn!Add
    <3> QED
      BY <3>3, <3>7 DEF InTurn!Next
  <2>5. ASSUME NEW f \in File, FileStep(c, f), ~RunnerDies
        PROVE  UNCHANGED <<Record, Kept>>
    <3>1. /\ task[c][f] # "none"
          /\ snapshot' = snapshot
          /\ \A d \in Call : d # c => step'[d] = step[d]
          /\ step'[c] \in {step[c], "failed"}
      BY <1>1, <2>5, FileStepFrame
    <3>2. disk' = disk /\ manifest' = manifest /\ runner' = runner
      BY <2>5 DEF FileStep, OpenDownload, FinishDownload, FinishRefused, DownloadFails,
         DownloadCut, ExtractRejects, BeginExtract, EndExtract, ExtractThrows, fileVars
    <3>3. step[c] # "writing"
      BY <1>1, <3>1 DEF CallsResolved, Nothing
    <3>4. \A d \in Call : (step'[d] = "writing") <=> (step[d] = "writing")
      BY <3>1, <3>3
    <3> QED
      BY <3>1, <3>2, <3>4, RecordFrame
  <2> QED
    BY <1>5, <2>1, <2>2, <2>3, <2>4, <2>5 DEF CallStep
<1>6. ASSUME NEW p \in Package, NEW f \in File, Flush(p, f)
      PROVE  UNCHANGED <<Record, Kept>>
  BY <1>6, RecordFrame DEF Flush, callVars
<1>7. CASE UNCHANGED vars
  BY <1>7, RecordFrame DEF vars, fileVars, callVars
<1> QED
  BY <1>2, <1>3, <1>4, <1>5, <1>6, <1>7 DEF Next, Crash

\* Calls that are made one at a time do to the manifest what a repository promises:
\* whatever fails, is retried or is lost in a crash, what was recorded stays, and what is
\* added is one package that was not there.
THEOREM FollowsRepositoryHolds == TurnsSpec => FollowsRepository
<1>1. TurnsInit => InTurn!Init
  BY DEF TurnsInit, Init, InTurn!Init, Record, Kept
<1>2. InductiveInvariant /\ InTurnInvariant /\ [TurnsNext]_turnVars =>
         [InTurn!Next \/ overlapped' = "calls"]_(InTurn!vars)
  <2> SUFFICES ASSUME InductiveInvariant, InTurnInvariant, [TurnsNext]_turnVars,
                      overlapped' # "calls"
               PROVE  [InTurn!Next]_(InTurn!vars)
    OBVIOUS
  <2>1. RunnerFirst /\ RecordIsOwn
    BY OverlapStep DEF InTurnInvariant
  <2> QED
    BY <2>1, TurnsStepIsStep, RepositoryStep
<1>3. TurnsSpec => []InductiveInvariant
  BY TurnsKeepInstaller, Invariance, PTL
<1> QED
  BY <1>1, <1>2, <1>3, InTurnInvariance, PTL DEF TurnsSpec, FollowsRepository
=============================================================================
