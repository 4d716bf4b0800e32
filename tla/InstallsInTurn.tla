---------------------------- MODULE InstallsInTurn ----------------------------
(***************************************************************************)
(* What the installer promises to clients that wait for one install before *)
(* they ask for the next (Installer with history variables).  An install   *)
(* that failed may have left downloads and extractions behind, which go on *)
(* while the next one runs.                                                *)
(***************************************************************************)
EXTENDS Installer

VARIABLES
    overlapped,     \* history: what has been in progress at the same time, at most
    spoiled         \* history: assets of packages that something unnoticed has cut short

turnVars == <<vars, overlapped, spoiled>>

UnderWay(c) == step[c] \in InProgress \/ task[c] # Nothing

Overlap ==
    IF \E c, d \in Call : c # d /\ step[c] \in InProgress /\ step[d] \in InProgress THEN "calls"
    ELSE IF \E c, d \in Call : c # d /\ UnderWay(c) /\ UnderWay(d) THEN "leftovers"
    ELSE "none"

\* What a step cuts short without an error that somebody would see: a plain tar file
\* whose download is cut, and a zip archive of a recorded package whose last files the
\* runner had still to write when it ended.
CutShort ==
    IF runner' = "down" /\ runner # "down"
    THEN {a \in manifest \X File : dir[a[1]][a[2]] = "flushing"}
    ELSE {<<Target(t[1]), t[2]>> :
             t \in {u \in Call \X File : Kind[u[2]] = "tar" /\ DownloadCut(u[1], u[2])}}

TurnsInit == Init /\ overlapped = "none" /\ spoiled = {}

TurnsNext ==
    /\ Next
    /\ overlapped' = IF overlapped = "calls" \/ Overlap' = "none" THEN overlapped ELSE Overlap'
    /\ spoiled' = spoiled \cup CutShort

TurnsSpec == TurnsInit /\ [][TurnsNext]_turnVars

-----------------------------------------------------------------------------
(* Properties. *)

\* The directory of a package has an asset, or gets the last files of it: addService
\* records a zip archive when it has been read, before they are written.
AssetIsWhole(p, f) == dir[p][f] \in {"full", "flushing"} \/ <<p, f>> \in spoiled

\* All assets of a package are whole in its directory, but for those that were spoiled.
IsWhole(p) == \A f \in Assets[p] : AssetIsWhole(p, f)
RecordedIsWhole == \A p \in manifest : IsWhole(p)

\* What calls record that are made one at a time, with nothing left behind by those
\* that failed, is the whole of their own package: files that are broken, of another
\* package, or still to be extracted are never recorded.  Two things go unnoticed, and
\* only they do: a tar file whose download was cut, and a crash after the entry of a
\* zip archive was written and before its last files were.
InTurnWholeUnlessSpoiled == overlapped = "none" => RecordedIsWhole

Writing == {c \in Call : step[c] = "writing"}

\* The record as its readers would want it: while it is written anew, what it was.
Record == IF disk = "garbled" /\ Writing # {} THEN UNION {snapshot[c] : c \in Writing}
          ELSE manifest

\* What there is of the record as a whole.
Kept == IF disk = "absent" \/ runner = "creating" THEN "none"
        ELSE IF disk = "ok" \/ Writing # {} THEN "kept"
        ELSE "lost"

InTurn == INSTANCE Repository WITH record <- Record, kept <- Kept

\* Calls that are made one at a time, through downloads that fail and go on behind a
\* retry, crashes and restarts, keep the promise of a repository: what was recorded
\* stays, and what is added is one package that was not there.
FollowsRepository == InTurn!Init /\ [][InTurn!Next \/ overlapped' = "calls"]_(InTurn!vars)

-----------------------------------------------------------------------------
(* The inductive invariant. *)

\* Nothing is under way without a runner, and no manifest without its first start.
RunnerFirst ==
    /\ runner # "up" => \A c \in Call : ~UnderWay(c)
    /\ disk = "absent" => runner = "down" /\ manifest = {}
    /\ runner = "creating" => disk = "garbled" /\ manifest = {}

\* A call that is alone finds the manifest as it has read it until it writes, and its
\* own package is not there.
RecordIsOwn ==
    /\ \A c, d \in Call : step[c] \in InProgress /\ step[d] \in InProgress => c = d
    /\ disk # "ok" => manifest = {}
    /\ \A c \in Call :
          /\ step[c] = "extract" =>
                disk = "ok" /\ snapshot[c] = manifest /\ Target(c) \notin manifest
          /\ step[c] = "writing" => disk = "garbled" /\ Target(c) \notin snapshot[c]

\* A content that is the whole archive of a package, or what a cut left of it: for a
\* plain tar file, with a trace in spoiled.
IsOwn(content, p, f) ==
    \/ content = p
    \/ content = "partial" /\ (Kind[f] = "tar" => <<p, f>> \in spoiled)

\* What a call makes that nobody disturbs: what it downloads is its own, or cut short,
\* and so is what it reads.
TransferIsOwn(c, f) ==
    /\ task[c][f] = "fetching" => file[f] = "partial"
    /\ task[c][f] \in {"fetched", "extract"} => IsOwn(file[f], Target(c), f)
    /\ task[c][f] = "extracting" => IsOwn(got[c][f], Target(c), f)
    /\ task[c][f] = "extracted" => AssetIsWhole(Target(c), f)
    /\ task[c][f] \in {"extract", "extracting", "extracted"} => Target(c) \notin manifest

FilesAreOwn ==
    /\ \A c, d \in Call : UnderWay(c) /\ UnderWay(d) => c = d
    /\ \A c \in Call, f \in File : TransferIsOwn(c, f)
    /\ \A c \in Call : step[c] = "writing" =>
          /\ IsWhole(Target(c))
          /\ \A p \in snapshot[c] : IsWhole(p)
    /\ RecordedIsWhole

\* The promises hold as far as calls were made in turn.
InTurnInvariant ==
    /\ RunnerFirst
    /\ overlapped # "calls" => RecordIsOwn
    /\ overlapped = "none" => FilesAreOwn
=============================================================================
