---------------------------- MODULE InstallerProofs ----------------------------
(***************************************************************************)
(* The installer keeps its invariant, for any packages, calls, files and   *)
(* faults, however the calls interleave and whenever the runner is killed. *)
(***************************************************************************)
EXTENDS Installer, TLAPS

\* What a call begins for all files, and how it ends one of them.
LEMMA TaskShapes ==
    ASSUME TypeOK, NEW c \in Call, NEW f \in File
    PROVE  /\ \A from, to \in Task : TaskGoes(c, f, from, to) => task' \in [Call -> [File -> Task]]
           /\ \A from, left \in Task :
                TaskFails(c, f, from, left) =>
                  /\ task' \in [Call -> [File -> Task]]
                  /\ step' \in [Call -> InProgress \cup {"idle", "done", "failed"}]
           /\ \A status \in Task : StartsAll(c, status) => task' \in [Call -> [File -> Task]]
<1> USE DEF TypeOK, Task
<1>1. ASSUME NEW from \in Task, NEW to \in Task, TaskGoes(c, f, from, to)
      PROVE  task' \in [Call -> [File -> Task]]
  BY <1>1 DEF TaskGoes
<1>2. ASSUME NEW from \in Task, NEW left \in Task, TaskFails(c, f, from, left)
      PROVE  /\ task' \in [Call -> [File -> Task]]
             /\ step' \in [Call -> InProgress \cup {"idle", "done", "failed"}]
  BY <1>2 DEF TaskFails, InProgress
<1>3. ASSUME NEW status \in Task, StartsAll(c, status)
      PROVE  task' \in [Call -> [File -> Task]]
  BY <1>3 DEF StartsAll
<1> QED
  BY <1>1, <1>2, <1>3

\* Writing a file leaves files and what is read from them in their types.
LEMMA WritesType ==
    ASSUME TypeOK, NEW f \in File, NEW content \in Content, Writes(f, content)
    PROVE  file' \in [File -> Content] /\ got' \in [Call -> [File -> Content]]
<1>1. file' \in [File -> Content]
  BY DEF Writes, TypeOK
<1>2. PICK D \in SUBSET {d \in Call : task[d][f] = "extracting" /\ got[d][f] # content} :
        got' = [d \in Call |-> IF d \in D THEN [got[d] EXCEPT ![f] = "partial"] ELSE got[d]]
  BY DEF Writes
<1>3. \A d \in Call : [got[d] EXCEPT ![f] = "partial"] \in [File -> Content]
  BY DEF TypeOK, Content
<1> QED
  BY <1>1, <1>2, <1>3 DEF TypeOK

\* A call that has a file under way has a configured package.
LEMMA BusyIsResolved ==
    ASSUME CallsResolved, NEW c \in Call, NEW f \in File, task[c][f] # "none"
    PROVE  asked[c] \in Package /\ Target(c) \in Package
<1>1. task[c] # Nothing
  BY DEF Nothing
<1> QED
  BY <1>1 DEF CallsResolved

\* A step keeps every variable within what its field can hold.
LEMMA TypeStep == TypeOK /\ CallsResolved /\ [Next]_vars => TypeOK'
<1> SUFFICES ASSUME TypeOK, CallsResolved, [Next]_vars
             PROVE  TypeOK'
  OBVIOUS
<1> USE ResolvedAssumption, FaultAssumption
<1>1. CASE Boot
  BY <1>1 DEF Boot, StartOnManifest, StartOnNothing, CreateManifest, TypeOK, fileVars,
              callVars, historyVars
<1>2. ASSUME RunnerDies, faults' \in 0..MaxFaults
      PROVE  TypeOK'
  <2>1. /\ step' \in [Call -> InProgress \cup {"idle", "done", "failed"}]
        /\ task' \in [Call -> [File -> Task]]
        /\ snapshot' \in [Call -> SUBSET Package]
        /\ got' \in [Call -> [File -> Content]]
    BY <1>2 DEF RunnerDies, TypeOK, Nothing, Task, Content
  <2>2. dir' \in [Package -> [File ->
                    {"none", "extracting", "flushing", "short", "foreign", "full"}]]
    BY <1>2 DEF RunnerDies, TypeOK
  <2> QED
    BY <1>2, <2>1, <2>2 DEF RunnerDies, TypeOK, historyVars
<1>3. CASE Crash
  BY <1>2, <1>3 DEF Crash, Injects, TypeOK
<1>4. ASSUME NEW c \in Call, NEW p \in Package, Install(c, p)
      PROVE  TypeOK'
  BY <1>4 DEF Install, Goes, TypeOK, InProgress, fileVars, historyVars
<1>5. ASSUME NEW c \in Call, NEW f \in File, FileStep(c, f)
      PROVE  TypeOK'
  <2>1. CASE OpenDownload(c, f)
    <3>1. task' \in [Call -> [File -> Task]]
      BY <2>1, TaskShapes DEF OpenDownload, Task
    <3>2. file' \in [File -> Content] /\ got' \in [Call -> [File -> Content]]
      BY <2>1, WritesType DEF OpenDownload, Content
    <3> QED
      BY <2>1, <3>1, <3>2 DEF OpenDownload, TypeOK, historyVars
  <2>2. CASE FinishDownload(c, f)
    <3>1. task' \in [Call -> [File -> Task]]
      BY <2>2, TaskShapes DEF FinishDownload, Task
    <3>2. Target(c) \in Content
      BY <2>2, BusyIsResolved DEF FinishDownload, TaskGoes, Content
    <3>3. file' \in [File -> Content] /\ got' \in [Call -> [File -> Content]]
      BY <2>2, <3>2, WritesType DEF FinishDownload, Content
    <3> QED
      BY <2>2, <3>1, <3>3 DEF FinishDownload, TypeOK, historyVars
  <2>3. CASE FinishRefused(c, f)
    <3>1. task' \in [Call -> [File -> Task]]
      BY <2>3, TaskShapes DEF FinishRefused, Task
    <3>2. file' \in [File -> Content] /\ got' \in [Call -> [File -> Content]]
      BY <2>3, WritesType DEF FinishRefused, Content
    <3> QED
      BY <2>3, <3>1, <3>2 DEF FinishRefused, TypeOK, historyVars
  <2>4. CASE DownloadFails(c, f)
    <3>1. /\ task' \in [Call -> [File -> Task]]
          /\ step' \in [Call -> InProgress \cup {"idle", "done", "failed"}]
      BY <2>4, TaskShapes DEF DownloadFails, Task
    <3> QED
      BY <2>4, <3>1 DEF DownloadFails, Injects, TypeOK, fileVars, historyVars
  <2>5. CASE DownloadCut(c, f)
    <3>1. task' \in [Call -> [File -> Task]]
      BY <2>5, TaskShapes DEF DownloadCut, Task
    <3> QED
      BY <2>5, <3>1 DEF DownloadCut, Injects, TypeOK, fileVars, historyVars
  <2>6. CASE ExtractRejects(c, f)
    <3>1. /\ task' \in [Call -> [File -> Task]]
          /\ step' \in [Call -> InProgress \cup {"idle", "done", "failed"}]
      BY <2>6, TaskShapes DEF ExtractRejects, Task
    <3> QED
      BY <2>6, <3>1 DEF ExtractRejects, TypeOK, fileVars, historyVars
  <2>7. CASE BeginExtract(c, f)
    <3>1. task' \in [Call -> [File -> Task]]
      BY <2>7, TaskShapes DEF BeginExtract, Task
    <3>2. got' \in [Call -> [File -> Content]]
      BY <2>7 DEF BeginExtract, TypeOK
    <3>3. dir' \in [Package -> [File ->
                    {"none", "extracting", "flushing", "short", "foreign", "full"}]]
      BY <2>7 DEF BeginExtract, TypeOK
    <3> QED
      BY <2>7, <3>1, <3>2, <3>3 DEF BeginExtract, TypeOK, historyVars
  <2>8. CASE EndExtract(c, f)
    <3>1. Target(c) \in Package
      BY <2>8, BusyIsResolved DEF EndExtract, TaskGoes
    <3>2. task' \in [Call -> [File -> Task]]
      BY <2>8, TaskShapes DEF EndExtract, Task
    <3>3. got' \in [Call -> [File -> Content]]
      BY <2>8 DEF EndExtract, TypeOK, Content
    <3>4. DirAfter(c, f) \in {"extracting", "flushing", "short", "foreign", "full"}
      BY DEF DirAfter
    <3>5. dir' \in [Package -> [File ->
                    {"none", "extracting", "flushing", "short", "foreign", "full"}]]
      BY <2>8, <3>4 DEF EndExtract, TypeOK
    <3> QED
      BY <2>8, <3>1, <3>2, <3>3, <3>5 DEF EndExtract, TypeOK
  <2>9. CASE ExtractThrows(c, f)
    BY <1>2, <2>9 DEF ExtractThrows, TypeOK
  <2> QED
    BY <1>5, <2>1, <2>2, <2>3, <2>4, <2>5, <2>6, <2>7, <2>8, <2>9 DEF FileStep
<1>6. ASSUME NEW c \in Call, CallStep(c)
      PROVE  TypeOK'
  <2>1. CASE InstallEnds(c)
    BY <2>1 DEF InstallEnds, Goes, TypeOK, InProgress, fileVars, historyVars
  <2>2. CASE InstallGoesOn(c)
    <3>1. task' \in [Call -> [File -> Task]]
      BY <2>2 DEF InstallGoesOn, StartsAll, TypeOK, Task
    <3> QED
      BY <2>2, <3>1 DEF InstallGoesOn, Goes, TypeOK, InProgress, fileVars, historyVars
  <2>3. CASE AddServiceEnds(c)
    BY <2>3 DEF AddServiceEnds, Goes, TypeOK, InProgress, Nothing, Task, fileVars, historyVars
  <2>4. CASE AddServiceGoesOn(c)
    <3>1. task' \in [Call -> [File -> Task]]
      BY <2>4 DEF AddServiceGoesOn, StartsAll, TypeOK, Task
    <3> QED
      BY <2>4, <3>1 DEF AddServiceGoesOn, Goes, TypeOK, InProgress, fileVars, historyVars
  <2>5. CASE OpenManifest(c)
    BY <2>5 DEF OpenManifest, Goes, TypeOK, InProgress, Nothing, Task, historyVars
  <2>6. CASE WriteManifest(c)
    <3>1. Entries(c) \subseteq Package
      BY <2>6 DEF WriteManifest, Goes, CallsResolved, Entries, TypeOK
    <3> QED
      BY <2>6, <3>1 DEF WriteManifest, Goes, TypeOK, InProgress
  <2> QED
    BY <1>5, <1>6, <2>1, <2>2, <2>3, <2>4, <2>5, <2>6 DEF CallStep
<1>7. ASSUME NEW p \in Package, NEW f \in File, Flush(p, f)
      PROVE  TypeOK'
  <2>1. dir' \in [Package -> [File ->
                    {"none", "extracting", "flushing", "short", "foreign", "full"}]]
    BY <1>7 DEF Flush, TypeOK
  <2> QED
    BY <1>7, <2>1 DEF Flush, TypeOK, callVars, historyVars
<1>8. CASE UNCHANGED vars
  BY <1>8 DEF vars, fileVars, callVars, historyVars, TypeOK
<1> QED
  BY <1>1, <1>3, <1>4, <1>6, <1>7, <1>8 DEF Next

\* What a step of one file changes of the call: the call has the package it had, and
\* it was busy.
LEMMA FileStepFrame ==
    ASSUME TypeOK, NEW c \in Call, NEW f \in File, FileStep(c, f)
    PROVE  \/ RunnerDies
           \/ /\ task[c][f] # "none"
              /\ asked' = asked /\ snapshot' = snapshot
              /\ \A d \in Call : d # c => task'[d] = task[d] /\ step'[d] = step[d]
              /\ step'[c] \in {step[c], "failed"}
              /\ \A g \in File : g # f => task'[c][g] \in {task[c][g], "none"}
<1> USE DEF TypeOK
<1>1. CASE OpenDownload(c, f) \/ FinishDownload(c, f) \/ FinishRefused(c, f)
  BY <1>1 DEF OpenDownload, FinishDownload, FinishRefused, TaskGoes
<1>2. CASE DownloadFails(c, f) \/ ExtractRejects(c, f)
  BY <1>2 DEF DownloadFails, ExtractRejects, TaskFails
<1>3. CASE DownloadCut(c, f) \/ BeginExtract(c, f) \/ EndExtract(c, f)
  BY <1>3 DEF DownloadCut, BeginExtract, EndExtract, TaskGoes
<1>4. CASE ExtractThrows(c, f)
  BY <1>4 DEF ExtractThrows
<1> QED
  BY <1>1, <1>2, <1>3, <1>4 DEF FileStep

\* A call keeps the package it was made for, and goes on only with one that is
\* configured.
LEMMA ResolvedStep == TypeOK /\ CallsResolved /\ [Next]_vars => CallsResolved'
<1> SUFFICES ASSUME TypeOK, CallsResolved, [Next]_vars
             PROVE  CallsResolved'
  OBVIOUS
<1> USE ResolvedAssumption
<1>1. CASE Boot
  BY <1>1 DEF Boot, StartOnManifest, StartOnNothing, CreateManifest, callVars, CallsResolved,
              Target, Nothing
<1>2. CASE RunnerDies
  BY <1>2 DEF RunnerDies, CallsResolved, Target, Nothing, InProgress
<1>3. ASSUME NEW c \in Call, NEW p \in Package, Install(c, p)
      PROVE  CallsResolved'
  <2>1. \A d \in Call \ {c} : asked'[d] = asked[d] /\ step'[d] = step[d]
    BY <1>3 DEF Install, Goes, TypeOK
  <2>2. asked'[c] = p /\ step'[c] = "asked" /\ step[c] = "idle" /\ task' = task
    BY <1>3 DEF Install, Goes, TypeOK
  <2> QED
    BY <2>1, <2>2 DEF CallsResolved, Target, Nothing
<1>4. ASSUME NEW c \in Call, NEW f \in File, FileStep(c, f), ~RunnerDies
      PROVE  CallsResolved'
  <2>1. asked[c] \in Package /\ Target(c) \in Package
    BY <1>4, FileStepFrame, BusyIsResolved
  <2>2. asked' = asked /\ step'[c] \in {step[c], "failed"} /\ step[c] \notin {"idle", "writing"}
    BY <1>4, FileStepFrame DEF CallsResolved, Nothing
  <2>3. \A d \in Call : d # c => task'[d] = task[d] /\ step'[d] = step[d]
    BY <1>4, FileStepFrame
  <2> QED
    BY <2>1, <2>2, <2>3 DEF CallsResolved, Target, Nothing
<1>5. ASSUME NEW c \in Call, CallStep(c)
      PROVE  CallsResolved'
  <2>1. CASE InstallEnds(c)
    BY <2>1 DEF InstallEnds, Goes, CallsResolved, Target, Nothing, TypeOK
  <2>2. CASE InstallGoesOn(c)
    BY <2>2 DEF InstallGoesOn, StartsAll, Goes, CallsResolved, Target, Nothing, TypeOK
  <2>3. CASE AddServiceEnds(c)
    BY <2>3 DEF AddServiceEnds, Goes, CallsResolved, Target, Nothing, TypeOK
  <2>4. CASE AddServiceGoesOn(c)
    BY <2>4 DEF AddServiceGoesOn, StartsAll, Goes, CallsResolved, Target, Nothing, TypeOK
  <2>5. CASE OpenManifest(c) \/ WriteManifest(c)
    BY <2>5 DEF OpenManifest, WriteManifest, Goes, CallsResolved, Target, Nothing, TypeOK
  <2> QED
    BY <1>2, <1>4, <1>5, <2>1, <2>2, <2>3, <2>4, <2>5 DEF CallStep
<1>6. ASSUME NEW p \in Package, NEW f \in File, Flush(p, f)
      PROVE  CallsResolved'
  BY <1>6 DEF Flush, callVars, CallsResolved, Target, Nothing
<1>7. CASE UNCHANGED vars
  BY <1>7 DEF vars, callVars, CallsResolved, Target, Nothing
<1> QED
  BY <1>1, <1>2, <1>3, <1>5, <1>6, <1>7 DEF Next, Crash

\* What is extracted stays extracted.
LEMMA ExtractedGrows == [Next]_vars => extracted \subseteq extracted'
<1> SUFFICES ASSUME [Next]_vars
             PROVE  extracted \subseteq extracted'
  OBVIOUS
<1> USE DEF historyVars
<1>1. CASE Boot \/ Crash
  BY <1>1 DEF Boot, StartOnManifest, StartOnNothing, CreateManifest, Crash, RunnerDies
<1>2. ASSUME NEW c \in Call, NEW f \in File, FileStep(c, f)
      PROVE  extracted \subseteq extracted'
  BY <1>2 DEF FileStep, OpenDownload, FinishDownload, FinishRefused, DownloadFails, DownloadCut,
         ExtractRejects, BeginExtract, EndExtract, ExtractThrows, RunnerDies
<1>3. ASSUME NEW c \in Call, CallStep(c)
      PROVE  extracted \subseteq extracted'
  BY <1>2, <1>3 DEF CallStep, InstallEnds, InstallGoesOn, AddServiceEnds, AddServiceGoesOn,
         OpenManifest, WriteManifest
<1>4. CASE \E c \in Call, p \in Package : Install(c, p)
  BY <1>4 DEF Install
<1>5. CASE \E p \in Package, f \in File : Flush(p, f)
  BY <1>5 DEF Flush
<1>6. CASE UNCHANGED vars
  BY <1>6 DEF vars
<1> QED
  BY <1>1, <1>3, <1>4, <1>5, <1>6 DEF Next

\* A step of one file marks it as extracted only together with its package.
LEMMA MarkedStep ==
    ASSUME TypeOK, EntriesExtracted, NEW c \in Call, NEW f \in File, FileStep(c, f),
           ~RunnerDies, task'[c][f] = "extracted"
    PROVE  <<Target(c), f>> \in extracted'
<1> USE DEF TypeOK
<1>1. CASE OpenDownload(c, f) \/ FinishDownload(c, f) \/ FinishRefused(c, f)
  BY <1>1 DEF OpenDownload, FinishDownload, FinishRefused, TaskGoes
<1>2. CASE DownloadFails(c, f) \/ ExtractRejects(c, f)
  BY <1>2 DEF DownloadFails, ExtractRejects, TaskFails
<1>3. CASE DownloadCut(c, f) \/ BeginExtract(c, f)
  BY <1>3 DEF DownloadCut, BeginExtract, TaskGoes
<1>4. CASE EndExtract(c, f)
  BY <1>4 DEF EndExtract
<1>5. CASE ExtractThrows(c, f)
  BY <1>5 DEF ExtractThrows
<1> QED
  BY <1>1, <1>2, <1>3, <1>4, <1>5 DEF FileStep

\* What was read from a manifest of extracted packages stays extracted, and a call
\* gets to the manifest only by the end of all of its extractions.
LEMMA EntriesStep ==
    /\ TypeOK
    /\ CallsResolved
    /\ EntriesExtracted
    /\ RecordedAfterExtraction
    /\ [Next]_vars
    => EntriesExtracted'
<1> SUFFICES ASSUME TypeOK, CallsResolved, EntriesExtracted, RecordedAfterExtraction,
                    [Next]_vars
             PROVE  EntriesExtracted'
  OBVIOUS
<1>1. extracted \subseteq extracted'
  BY ExtractedGrows
<1>2. \A p : IsExtracted(p) => IsExtracted(p)'
  BY <1>1 DEF IsExtracted
<1>3. CASE RunnerDies
  BY <1>3 DEF RunnerDies, EntriesExtracted, Nothing, InProgress
<1>4. CASE UNCHANGED <<callVars, historyVars>>
  BY <1>4 DEF callVars, historyVars, EntriesExtracted, IsExtracted, Target
<1>5. ASSUME NEW c \in Call, NEW p \in Package, Install(c, p)
      PROVE  EntriesExtracted'
  <2>1. \A d \in Call : d # c => asked'[d] = asked[d] /\ step'[d] = step[d]
    BY <1>5 DEF Install, Goes, TypeOK
  <2>2. step'[c] = "asked" /\ task' = task /\ snapshot' = snapshot /\ step[c] = "idle"
    BY <1>5 DEF Install, Goes, TypeOK
  <2>3. task[c] = Nothing
    BY <1>5 DEF Install, Goes, CallsResolved
  <2> QED
    BY <1>2, <1>1, <2>1, <2>2, <2>3 DEF EntriesExtracted, Target, Nothing
<1>6. ASSUME NEW c \in Call, NEW f \in File, FileStep(c, f), ~RunnerDies
      PROVE  EntriesExtracted'
  <2>1. /\ asked' = asked /\ snapshot' = snapshot
        /\ \A d \in Call : d # c => task'[d] = task[d] /\ step'[d] = step[d]
        /\ step'[c] \in {step[c], "failed"}
        /\ \A g \in File : g # f => task'[c][g] \in {task[c][g], "none"}
    BY <1>6, FileStepFrame
  <2>2. \A d \in Call : Target(d)' = Target(d)
    BY <2>1 DEF Target
  <2>3. \A d \in Call : step'[d] = "writing" => IsExtracted(Target(d))'
    BY <1>2, <2>1, <2>2 DEF EntriesExtracted
  <2>4. \A d \in Call, g \in File :
           task'[d][g] = "extracted" => <<Target(d), g>> \in extracted'
    BY <1>1, <1>6, <2>1, MarkedStep DEF EntriesExtracted
  <2>5. \A d \in Call : \A p \in snapshot'[d] : IsExtracted(p)'
    BY <1>2, <2>1 DEF EntriesExtracted
  <2> QED
    BY <2>2, <2>3, <2>4, <2>5 DEF EntriesExtracted
<1>7. ASSUME NEW c \in Call, CallStep(c)
      PROVE  EntriesExtracted'
  <2>1. CASE InstallEnds(c)
    BY <1>1, <1>2, <2>1 DEF InstallEnds, Goes, EntriesExtracted, Target, TypeOK
  <2>2. CASE InstallGoesOn(c)
    BY <1>1, <1>2, <2>2 DEF InstallGoesOn, StartsAll, Goes, EntriesExtracted, Target, TypeOK
  <2>3. CASE AddServiceEnds(c)
    BY <1>1, <1>2, <2>3 DEF AddServiceEnds, Goes, Nothing, EntriesExtracted, Target, TypeOK
  <2>4. CASE AddServiceGoesOn(c)
    BY <1>1, <1>2, <2>4 DEF AddServiceGoesOn, StartsAll, Goes, EntriesExtracted,
                             RecordedAfterExtraction, Target, TypeOK
  <2>5. CASE OpenManifest(c)
    <3>1. IsExtracted(Target(c))
      <4>1. Target(c) \in Package
        BY <2>5 DEF OpenManifest, Goes, CallsResolved
      <4> QED
        BY <2>5, <4>1, ResolvedAssumption DEF OpenManifest, AllAre, Sources, EntriesExtracted,
           IsExtracted
    <3> QED
      BY <1>1, <1>2, <2>5, <3>1 DEF OpenManifest, Goes, Nothing, EntriesExtracted, Target, TypeOK
  <2>6. CASE WriteManifest(c)
    BY <1>1, <1>2, <2>6 DEF WriteManifest, Goes, EntriesExtracted, Target, TypeOK
  <2> QED
    BY <1>3, <1>6, <1>7, <2>1, <2>2, <2>3, <2>4, <2>5, <2>6 DEF CallStep
<1>8. CASE Boot
  BY <1>4, <1>8 DEF Boot, StartOnManifest, StartOnNothing, CreateManifest
<1>9. CASE \E p \in Package, f \in File : Flush(p, f)
  BY <1>4, <1>9 DEF Flush
<1> QED
  BY <1>3, <1>4, <1>5, <1>7, <1>8, <1>9 DEF Next, Crash, vars

\* A call's steps through its files leave the manifest alone, and end it, if at all,
\* as failed.
LEMMA FileStepKeepsRecord ==
    ASSUME TypeOK, NEW c \in Call, NEW f \in File, FileStep(c, f)
    PROVE  /\ manifest' = manifest /\ recorded' = recorded /\ asked' = asked
           /\ \A d \in Call : step'[d] = "done" => step[d] = "done"
<1> USE DEF TypeOK, fileVars, historyVars
<1>1. CASE OpenDownload(c, f) \/ FinishDownload(c, f) \/ FinishRefused(c, f)
  BY <1>1 DEF OpenDownload, FinishDownload, FinishRefused
<1>2. CASE DownloadFails(c, f) \/ ExtractRejects(c, f)
  BY <1>2 DEF DownloadFails, ExtractRejects, TaskFails
<1>3. CASE DownloadCut(c, f) \/ BeginExtract(c, f) \/ EndExtract(c, f)
  BY <1>3 DEF DownloadCut, BeginExtract, EndExtract
<1>4. CASE ExtractThrows(c, f)
  BY <1>4 DEF ExtractThrows, RunnerDies
<1> QED
  BY <1>1, <1>2, <1>3, <1>4 DEF FileStep

\* The manifest is emptied, or written with entries that are extracted.
LEMMA ManifestStep ==
    /\ TypeOK
    /\ EntriesExtracted
    /\ manifest \subseteq recorded
    /\ RecordedAfterExtraction
    /\ [Next]_vars
    => manifest' \subseteq recorded' /\ RecordedAfterExtraction'
<1> SUFFICES ASSUME TypeOK, EntriesExtracted, manifest \subseteq recorded,
                    RecordedAfterExtraction, [Next]_vars
             PROVE  manifest' \subseteq recorded' /\ RecordedAfterExtraction'
  OBVIOUS
<1>1. \A p : IsExtracted(p) => IsExtracted(p)'
  BY ExtractedGrows DEF IsExtracted
<1>2. CASE manifest' \in {manifest, {}} /\ recorded' = recorded
  BY <1>1, <1>2 DEF RecordedAfterExtraction
<1>3. CASE Boot
  BY <1>2, <1>3 DEF Boot, StartOnManifest, StartOnNothing, CreateManifest, fileVars, historyVars
<1>4. CASE Crash
  BY <1>2, <1>4 DEF Crash, RunnerDies, historyVars
<1>5. ASSUME NEW c \in Call, CallStep(c)
      PROVE  manifest' \subseteq recorded' /\ RecordedAfterExtraction'
  <2>1. CASE WriteManifest(c)
    <3>1. \A p \in Entries(c) : IsExtracted(p)
      BY <2>1 DEF WriteManifest, Goes, Entries, EntriesExtracted
    <3> QED
      BY <1>1, <2>1, <3>1 DEF WriteManifest, RecordedAfterExtraction
  <2>2. CASE OpenManifest(c)
    BY <1>2, <2>2 DEF OpenManifest, historyVars
  <2>3. CASE \E f \in File : FileStep(c, f)
    BY <1>2, <2>3, FileStepKeepsRecord
  <2>4. CASE InstallEnds(c) \/ InstallGoesOn(c) \/ AddServiceEnds(c) \/ AddServiceGoesOn(c)
    BY <1>2, <2>4 DEF InstallEnds, InstallGoesOn, AddServiceEnds, AddServiceGoesOn, fileVars,
         historyVars
  <2> QED
    BY <1>5, <2>1, <2>2, <2>3, <2>4 DEF CallStep
<1>6. CASE \E c \in Call, p \in Package : Install(c, p)
  BY <1>2, <1>6 DEF Install, fileVars, historyVars
<1>7. CASE \E p \in Package, f \in File : Flush(p, f)
  BY <1>2, <1>7 DEF Flush, historyVars
<1>8. CASE UNCHANGED vars
  BY <1>2, <1>8 DEF vars, fileVars, historyVars
<1> QED
  BY <1>3, <1>4, <1>5, <1>6, <1>7, <1>8 DEF Next

\* A call is done when it finds its package recorded or has written it.
LEMMA DoneStep ==
    /\ TypeOK
    /\ manifest \subseteq recorded
    /\ DoneWasRecorded
    /\ [Next]_vars
    => DoneWasRecorded'
<1> SUFFICES ASSUME TypeOK, manifest \subseteq recorded, DoneWasRecorded, [Next]_vars
             PROVE  DoneWasRecorded'
  OBVIOUS
<1> USE DEF DoneWasRecorded, Target
<1>1. CASE Boot
  BY <1>1 DEF Boot, StartOnManifest, StartOnNothing, CreateManifest, callVars, historyVars
<1>2. CASE Crash
  BY <1>2 DEF Crash, RunnerDies, historyVars
<1>3. ASSUME NEW c \in Call, NEW p \in Package, Install(c, p)
      PROVE  DoneWasRecorded'
  BY <1>3 DEF Install, Goes, historyVars, TypeOK
<1>4. ASSUME NEW c \in Call, CallStep(c)
      PROVE  DoneWasRecorded'
  <2>1. CASE InstallEnds(c)
    BY <2>1 DEF InstallEnds, Goes, historyVars, TypeOK
  <2>2. CASE InstallGoesOn(c)
    BY <2>2 DEF InstallGoesOn, Goes, historyVars, TypeOK
  <2>3. CASE AddServiceEnds(c)
    BY <2>3 DEF AddServiceEnds, Goes, historyVars, TypeOK
  <2>4. CASE AddServiceGoesOn(c)
    BY <2>4 DEF AddServiceGoesOn, Goes, historyVars, TypeOK
  <2>5. CASE OpenManifest(c)
    BY <2>5 DEF OpenManifest, Goes, historyVars, TypeOK
  <2>6. CASE WriteManifest(c)
    <3>1. asked' = asked /\ recorded \subseteq recorded' /\ Target(c) \in recorded'
      BY <2>6 DEF WriteManifest, Entries
    <3>2. \A d \in Call : d # c => step'[d] = step[d]
      BY <2>6 DEF WriteManifest, Goes, TypeOK
    <3> QED
      BY <3>1, <3>2
  <2>7. CASE \E f \in File : FileStep(c, f)
    BY <2>7, FileStepKeepsRecord
  <2> QED
    BY <1>4, <2>1, <2>2, <2>3, <2>4, <2>5, <2>6, <2>7 DEF CallStep
<1>5. ASSUME NEW p \in Package, NEW f \in File, Flush(p, f)
      PROVE  DoneWasRecorded'
  BY <1>5 DEF Flush, callVars, historyVars
<1>6. CASE UNCHANGED vars
  BY <1>6 DEF vars, callVars, historyVars
<1> QED
  BY <1>1, <1>2, <1>3, <1>4, <1>5, <1>6 DEF Next

-----------------------------------------------------------------------------

\* The invariant holds of every behaviour of the installer.
THEOREM Invariance == Spec => []InductiveInvariant
<1>1. Init => InductiveInvariant
  BY ResolvedAssumption, FaultAssumption DEF Init, InductiveInvariant, TypeOK, Content,
     Task, Nothing, CallsResolved, EntriesExtracted, RecordedAfterExtraction, DoneWasRecorded
<1>2. InductiveInvariant /\ [Next]_vars => InductiveInvariant'
  BY TypeStep, ResolvedStep, EntriesStep, ManifestStep, DoneStep DEF InductiveInvariant
<1> QED
  BY <1>1, <1>2, PTL DEF Spec

\* The manifest, the files and the calls of the installer are well typed.
THEOREM TypeCorrect == Spec => []TypeOK
<1>1. InductiveInvariant => TypeOK
  BY DEF InductiveInvariant
<1> QED
  BY <1>1, Invariance, PTL

\* An entry in the manifest stands for a package all of whose archives were
\* extracted, whatever calls run at the same time and whenever the runner is killed.
THEOREM RecordedAfterExtractionHolds == Spec => []RecordedAfterExtraction
<1>1. InductiveInvariant => RecordedAfterExtraction
  BY DEF InductiveInvariant
<1> QED
  BY <1>1, Invariance, PTL

\* install returns only for a package that was recorded.
THEOREM DoneWasRecordedHolds == Spec => []DoneWasRecorded
<1>1. InductiveInvariant => DoneWasRecorded
  BY DEF InductiveInvariant
<1> QED
  BY <1>1, Invariance, PTL
=============================================================================
