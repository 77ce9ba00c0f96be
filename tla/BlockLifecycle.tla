--------------------------- MODULE BlockLifecycle ---------------------------
(***************************************************************************)
(* The life of a backed up block: backups write or deduplicate blocks,     *)
(* versions are removed, cleanups delete the blocks nobody references.     *)
(*                                                                         *)
(* Every version has its own backup process (BackupServicer.create calling *)
(* Benji.backup on a node) with a database session of its own; removals    *)
(* (Benji.rm) and the two kinds of cleanup (Benji.cleanup and Benji.clean) *)
(* run beside them.  They share the database (versions, blocks,            *)
(* deleted_blocks, locks) and the object storage and nothing else.         *)
(*                                                                         *)
(* The database is taken at READ COMMITTED: a session sees what others     *)
(* have committed and its own uncommitted rows.                            *)
(***************************************************************************)
EXTENDS Naturals

CONSTANTS
    Version,       \* version rows that can be created
    Idx,           \* block indexes of a volume
    Content,       \* contents a non-sparse block can have (its checksum)
    Dt,            \* the dt argument of cleanup: age a candidate must reach
    CommitWindow,  \* the longest a session keeps a block row uncommitted
    MaxClock,      \* bound on the clock
    UseBase,       \* whether backups may be based on another version
    Cleaner,       \* which cleanups run: "cleanup", "clean"
    Fault,         \* what goes wrong: "backup", "crash", "rm", "override"
    NoUid,         \* no block row: the block is sparse
    Unset,         \* the session has not touched this block row
    Unread,        \* the block has not been read from the source yet
    Sparse,        \* content of a block of zeros
    Never          \* no committed reference was ever lost

Uid == Version \X Idx
Faults == {"backup", "crash", "rm", "override"}
Cleaners == {"cleanup", "clean"}
RowValue == Uid \cup {NoUid}
Data == Content \cup {Sparse}

ASSUME ClockAssumption ==
    /\ Dt \in Nat /\ CommitWindow \in Nat /\ MaxClock \in Nat
    /\ CommitWindow <= Dt
ASSUME ChoiceAssumption ==
    UseBase \in BOOLEAN /\ Cleaner \subseteq Cleaners /\ Fault \subseteq Faults
ASSUME ValueAssumption ==
    /\ NoUid \notin Uid /\ Unset \notin RowValue
    /\ Sparse \notin Content /\ Unread \notin Data
    /\ Never \notin Nat

VARIABLES
    now,       \* the clock
    status,    \* versions.status, with "absent" and "removed"
    rows,      \* blocks: the committed uid of every block of every version
    pend,      \* block rows a backup session has set and not committed
    txStart,   \* when the oldest uncommitted row of the session was set
    data,      \* what the backup of a version has read from its source
    bpc,       \* where the backup process of a version is
    lock,      \* locks: owner of the version lock
    wq,        \* block writes submitted to the storage, not executed yet
    landed,    \* block writes executed, result not handled by the backup
    objects,   \* block objects on the storage
    meta,      \* version metadata objects on the storage
    kept,      \* versions removed without their metadata object
    cand,      \* deleted_blocks: the deletion candidates
    cpc,       \* where a cleanup is
    cstart,    \* when the running cleanup was started
    hits,      \* uids a cleanup is about to remove from the storage
    fps,       \* uids a cleanup found still in use
    dels,      \* candidate rows a cleanup has deleted and not committed
    lost,      \* history: when a uid last lost one of its committed references
    rash       \* history: uids removed too soon after that

dbVars == <<status, rows, cand, lock>>
backupVars == <<pend, txStart, data, bpc, wq, landed>>
cleanVars == <<cpc, cstart, hits, fps, dels>>
storeVars == <<objects, meta, kept>>
vars == <<now, dbVars, backupVars, storeVars, cleanVars, lost, rash>>

Candidate == [uid : Uid, date : Nat]

TypeOK ==
    /\ now \in Nat
    /\ status \in [Version ->
            {"absent", "incomplete", "valid", "invalid", "removed"}]
    /\ rows \in [Version -> [Idx -> RowValue]]
    /\ pend \in [Version -> [Idx -> RowValue \cup {Unset}]]
    /\ txStart \in [Version -> Nat]
    /\ data \in [Version -> [Idx -> Data \cup {Unread}]]
    /\ bpc \in [Version -> {"idle", "reading", "committed", "valid", "exported",
                           "saved", "failed", "done", "crashed"}]
    /\ lock \in [Version -> {"free", "backup"}]
    /\ wq \in [Version -> SUBSET Idx]
    /\ landed \in [Version -> SUBSET Idx]
    /\ objects \subseteq Uid
    /\ meta \subseteq Version /\ kept \subseteq Version
    /\ cand \subseteq Candidate
    /\ cpc \in [Cleaners -> {"idle", "check", "delete", "remove"}]
    /\ cstart \in [Cleaners -> Nat]
    /\ hits \in [Cleaners -> SUBSET Uid]
    /\ fps \in [Cleaners -> SUBSET Uid]
    /\ dels \in [Cleaners -> SUBSET Candidate]
    /\ lost \in [Uid -> Nat \cup {Never}]
    /\ rash \subseteq Uid

-----------------------------------------------------------------------------
(* The block table as sessions see it.                                     *)

\* The checksum recorded for a uid: that of the data its backup read.
Checksum(u) == data[u[1]][u[2]]

\* Some version references u in a committed row.
CommittedRef(u) == \E v \in Version, i \in Idx : rows[v][i] = u

\* The same, or a backup session is about to commit such a row.
Referenced(u) == CommittedRef(u) \/ \E v \in Version, i \in Idx : pend[v][i] = u

HasPend(v) == \E i \in Idx : pend[v][i] # Unset

\* The row of block i of version w as the session of the backup of v sees it.
SeenBy(v, w, i) == IF w = v /\ pend[v][i] # Unset THEN pend[v][i] ELSE rows[w][i]

\* Version.get_block_by_checksum: uids the session of v finds for content c.
KnownUids(v, c) ==
    {u \in Uid : Checksum(u) = c /\ \E w \in Version, i \in Idx : SeenBy(v, w, i) = u}

\* The rows of v once p, a row function with Unset for untouched rows, is committed.
Merge(v, p) == [i \in Idx |-> IF p[i] = Unset THEN rows[v][i] ELSE p[i]]

\* Uids that lose a committed reference when the block table becomes r.
Loses(r) ==
    {u \in Uid : \E v \in Version, i \in Idx : rows[v][i] = u /\ r[v][i] # u}

\* The committed block table becomes r.
SetRows(r) ==
    /\ rows' = r
    /\ lost' = [u \in Uid |-> IF u \in Loses(r) THEN now ELSE lost[u]]

NoPend == [i \in Idx |-> Unset]

\* The session of v starts a new transaction.
ClearPend(v) ==
    /\ pend' = [pend EXCEPT ![v] = NoPend]
    /\ txStart' = [txStart EXCEPT ![v] = 0]

\* Session.commit() of the session of v with uncommitted rows p.
CommitRows(v, p) == SetRows([rows EXCEPT ![v] = Merge(v, p)]) /\ ClearPend(v)

\* Session.rollback() of the session of v.
RollbackRows(v) == ClearPend(v) /\ UNCHANGED <<rows, lost>>

(* Version.set_block with its _timed_commit: whether the commit interval   *)
(* has passed since the last timed commit of the process is not tracked.   *)
(* A row needs its version row (a foreign key).                            *)
SetBlock(v, i, u) ==
    LET p == [pend[v] EXCEPT ![i] = u]
    IN  \/ /\ u = NoUid /\ SeenBy(v, v, i) = NoUid
           /\ UNCHANGED <<rows, lost, pend, txStart>>
        \/ /\ u # NoUid \/ SeenBy(v, v, i) # NoUid
           /\ status[v] # "removed"
           /\ \/ CommitRows(v, p)
              \/ /\ pend' = [pend EXCEPT ![v] = p]
                 /\ txStart' = [txStart EXCEPT ![v] = IF HasPend(v) THEN @ ELSE now]
                 /\ UNCHANGED <<rows, lost>>

-----------------------------------------------------------------------------
(* Backups.                                                                *)

\* A version row is created by the API or by a schedule job.
CreateVersion(v) ==
    /\ status[v] = "absent"
    /\ status' = [status EXCEPT ![v] = "incomplete"]
    /\ UNCHANGED <<now, rows, cand, lock, backupVars, storeVars, cleanVars,
                   lost, rash>>

(* Benji.update_version: lock the base version and the version, copy the   *)
(* base version's block rows, commit, unlock the base version.             *)
UpdateVersion(v) ==
    /\ bpc[v] = "idle" /\ status[v] = "incomplete" /\ lock[v] = "free"
    /\ \/ UNCHANGED <<rows, lost>>
       \/ /\ UseBase
          /\ \E b \in Version \ {v} :
                /\ status[b] = "valid" /\ lock[b] = "free"
                /\ SetRows([rows EXCEPT ![v] = rows[b]])
    /\ lock' = [lock EXCEPT ![v] = "backup"]
    /\ bpc' = [bpc EXCEPT ![v] = "reading"]
    /\ UNCHANGED <<now, status, cand, pend, txStart, data, wq, landed, storeVars,
                   cleanVars, rash>>

(* Benji.update_version raises: the base version is not valid any more or  *)
(* locked by somebody else.  BackupServicer.create marks the version.      *)
RefuseBackup(v) ==
    /\ UseBase
    /\ bpc[v] = "idle" /\ status[v] = "incomplete"
    /\ \E b \in Version \ {v} : status[b] # "valid" \/ lock[b] # "free"
    /\ status' = [status EXCEPT ![v] = "invalid"]
    /\ bpc' = [bpc EXCEPT ![v] = "done"]
    /\ UNCHANGED <<now, rows, cand, lock, pend, txStart, data, wq, landed, storeVars,
                   cleanVars, lost, rash>>

(* One iteration of the read loop of Benji.backup: the block is sparse,    *)
(* known (deduplicated) or new (its write is submitted to the storage).    *)
ReadBlock(v, i) ==
    /\ bpc[v] = "reading" /\ data[v][i] = Unread
    /\ \E c \in Data :
        /\ data' = [data EXCEPT ![v][i] = c]
        /\ \/ /\ c = Sparse
              /\ SetBlock(v, i, NoUid)
              /\ UNCHANGED wq
           \/ /\ c # Sparse
              /\ \E u \in KnownUids(v, c) : SetBlock(v, i, u)
              /\ UNCHANGED wq
           \/ /\ c # Sparse /\ KnownUids(v, c) = {}
              /\ wq' = [wq EXCEPT ![v] = @ \cup {i}]
              /\ UNCHANGED <<rows, lost, pend, txStart>>
    /\ UNCHANGED <<now, status, cand, lock, bpc, landed, storeVars, cleanVars, rash>>

(* StorageBase._write in a writer thread.  The threads outlive the backup: *)
(* nothing closes the storage instance that get_by_name created.  A result *)
(* nobody waits for any more is dropped.                                   *)
WriteLands(v, i) ==
    /\ i \in wq[v]
    /\ wq' = [wq EXCEPT ![v] = @ \ {i}]
    /\ landed' = [landed EXCEPT ![v] = IF bpc[v] = "reading" THEN @ \cup {i} ELSE @]
    /\ objects' = objects \cup {<<v, i>>}
    /\ UNCHANGED <<now, dbVars, pend, txStart, data, bpc, meta, kept, cleanVars, lost, rash>>

\* handle_write_completed: record a block whose write has finished.
HandleWriteCompleted(v, i) ==
    /\ bpc[v] = "reading" /\ i \in landed[v]
    /\ SetBlock(v, i, <<v, i>>)
    /\ landed' = [landed EXCEPT ![v] = @ \ {i}]
    /\ UNCHANGED <<now, status, cand, lock, data, bpc, wq, storeVars, cleanVars, rash>>

\* Mutant: the results of the last writes are not waited for.
CommitBackup_NoWait(v) ==
    /\ bpc[v] = "reading" /\ status[v] # "removed"
    /\ \A i \in Idx : data[v][i] # Unread
    /\ CommitRows(v, pend[v])
    /\ bpc' = [bpc EXCEPT ![v] = "committed"]
    /\ UNCHANGED <<now, status, cand, lock, data, wq, landed, storeVars, cleanVars, rash>>

\* The finally of the backup loop commits; the job counts agree.
CommitBackup(v) ==
    /\ bpc[v] = "reading" /\ wq[v] = {} /\ landed[v] = {}
    /\ \A i \in Idx : data[v][i] # Unread
    /\ status[v] # "removed"
    /\ CommitRows(v, pend[v])
    /\ bpc' = [bpc EXCEPT ![v] = "committed"]
    /\ UNCHANGED <<now, status, cand, lock, data, wq, landed, storeVars, cleanVars, rash>>

\* version.set(status=VersionStatus.valid).
MarkValid(v) ==
    /\ bpc[v] = "committed" /\ status[v] # "removed"
    /\ status' = [status EXCEPT ![v] = "valid"]
    /\ bpc' = [bpc EXCEPT ![v] = "valid"]
    /\ UNCHANGED <<now, rows, cand, lock, pend, txStart, data, wq, landed, storeVars,
                   cleanVars, lost, rash>>

\* metadata_backup reads the version and its blocks from the database.
ExportMetadata(v) ==
    /\ bpc[v] = "valid" /\ status[v] # "removed"
    /\ bpc' = [bpc EXCEPT ![v] = "exported"]
    /\ UNCHANGED <<now, dbVars, pend, txStart, data, wq, landed, storeVars, cleanVars,
                   lost, rash>>

\* StorageBase.write_version: the metadata object is written, overwriting.
WriteMetadata(v) ==
    /\ bpc[v] = "exported"
    /\ meta' = meta \cup {v}
    /\ bpc' = [bpc EXCEPT ![v] = "saved"]
    /\ UNCHANGED <<now, dbVars, pend, txStart, data, wq, landed, objects, kept,
                   cleanVars, lost, rash>>

\* set_stats and unlock_version at the end of a backup.
FinishBackup(v) ==
    /\ bpc[v] = "saved" /\ status[v] # "removed" /\ lock[v] = "backup"
    /\ lock' = [lock EXCEPT ![v] = "free"]
    /\ bpc' = [bpc EXCEPT ![v] = "done"]
    /\ UNCHANGED <<now, status, rows, cand, pend, txStart, data, wq, landed, storeVars,
                   cleanVars, lost, rash>>

Running == {"reading", "committed", "valid", "exported", "saved"}

(* Benji.backup raises.  In the read loop unlock_version commits the       *)
(* session, unless set_block has rolled it back; later on the lock is left *)
(* to Database.close.  Submitted writes still run, except the failed ones. *)
FailBackup(v) ==
    /\ bpc[v] \in Running
    /\ "backup" \in Fault \/ status[v] = "removed"
    /\ CommitRows(v, pend[v]) \/ RollbackRows(v)
    /\ \E failed \in SUBSET wq[v] : wq' = [wq EXCEPT ![v] = @ \ failed]
    /\ landed' = [landed EXCEPT ![v] = {}]
    /\ lock' = IF bpc[v] = "reading" THEN [lock EXCEPT ![v] = "free"] ELSE lock
    /\ bpc' = [bpc EXCEPT ![v] = "failed"]
    /\ UNCHANGED <<now, status, cand, data, storeVars, cleanVars, rash>>

\* BackupServicer.create marks the version invalid and closes the database.
MarkInvalid(v) ==
    /\ bpc[v] = "failed"
    /\ status' = [status EXCEPT ![v] = IF @ = "removed" THEN @ ELSE "invalid"]
    /\ lock' = [lock EXCEPT ![v] = "free"]
    /\ bpc' = [bpc EXCEPT ![v] = "done"]
    /\ UNCHANGED <<now, rows, cand, pend, txStart, data, wq, landed, storeVars,
                   cleanVars, lost, rash>>

\* The backup process dies: its session is lost, its lock row stays.
CrashBackup(v) ==
    /\ "crash" \in Fault
    /\ bpc[v] \in Running \cup {"failed"}
    /\ RollbackRows(v)
    /\ wq' = [wq EXCEPT ![v] = {}]
    /\ landed' = [landed EXCEPT ![v] = {}]
    /\ bpc' = [bpc EXCEPT ![v] = "crashed"]
    /\ UNCHANGED <<now, dbVars, data, storeVars, cleanVars, rash>>

-----------------------------------------------------------------------------
(* Removals and cleanups.                                                  *)

RowUids(v) == {u \in Uid : \E i \in Idx : rows[v][i] = u}

\* Mutant: the version is removed without taking its lock.
RemoveVersion_NoLock(v) ==
    /\ status[v] \in {"incomplete", "valid", "invalid"} /\ ~HasPend(v)
    /\ cand' = cand \cup {[uid |-> u, date |-> now] : u \in RowUids(v)}
    /\ SetRows([rows EXCEPT ![v] = [i \in Idx |-> NoUid]])
    /\ status' = [status EXCEPT ![v] = "removed"]
    /\ meta' = meta \ {v}
    /\ UNCHANGED <<now, backupVars, objects, kept, lock, rash>>

(* Benji.rm: Version.remove turns the block rows into deletion candidates  *)
(* and deletes the version in one transaction; the metadata object is then *)
(* removed unless it is to be kept, or that removal fails.  An overriding  *)
(* removal takes the lock of a backup over; it waits for the version row   *)
(* while that backup has uncommitted block rows.                           *)
RemoveVersion(v) ==
    /\ status[v] \in {"incomplete", "valid", "invalid"}
    /\ lock[v] = "free" \/ "override" \in Fault
    /\ ~HasPend(v)
    /\ cand' = cand \cup {[uid |-> u, date |-> now] : u \in RowUids(v)}
    /\ SetRows([rows EXCEPT ![v] = [i \in Idx |-> NoUid]])
    /\ status' = [status EXCEPT ![v] = "removed"]
    /\ \/ meta' = meta \ {v} /\ UNCHANGED kept
       \/ kept' = kept \cup {v} /\ UNCHANGED meta
    /\ lock' = [lock EXCEPT ![v] = "free"]
    /\ UNCHANGED <<now, backupVars, objects, rash>>

\* A removal of its own: delete_expired_versions or the command line.
Rm(v) ==
    /\ RemoveVersion(v)
    /\ UNCHANGED cleanVars

\* A cleanup takes its lock and computes its cut-off date.
Start(k) ==
    /\ cpc' = [cpc EXCEPT ![k] = "check"]
    /\ cstart' = [cstart EXCEPT ![k] = now]
    /\ UNCHANGED <<hits, fps, dels>>

(* BackupServicer.delete: rm, then clean of the version's storage, which   *)
(* is refused while another clean holds its lock.                          *)
Delete(v) ==
    /\ "clean" \in Cleaner
    /\ RemoveVersion(v)
    /\ IF cpc["clean"] = "idle" THEN Start("clean") ELSE UNCHANGED cleanVars

\* Benji.cleanup is started.
StartCleanup ==
    /\ "cleanup" \in Cleaner /\ cpc["cleanup"] = "idle"
    /\ Start("cleanup")
    /\ UNCHANGED <<now, dbVars, backupVars, storeVars, lost, rash>>

\* The rows get_unused_block_uids selects: with a storage id there is no cut-off.
Candidates(k) ==
    {r \in cand \ dels[k] : k = "clean" \/ r.date + Dt < cstart[k]}

CandidateUids(k) == {r.uid : r \in Candidates(k)}

\* Mutant: candidates are not checked for being in use.
CheckCandidates_NoCheck(k) ==
    /\ cpc[k] = "check" /\ Candidates(k) # {}
    /\ hits' = [hits EXCEPT ![k] = CandidateUids(k)]
    /\ cpc' = [cpc EXCEPT ![k] = "delete"]
    /\ UNCHANGED <<now, dbVars, backupVars, storeVars, cstart, fps, dels, lost, rash>>

(* One round of get_unused_block_uids, up to the deletion of candidates:   *)
(* split the candidates into those in use and the hit list, or commit and  *)
(* finish when there are none.                                             *)
CheckCandidates(k) ==
    /\ cpc[k] = "check"
    /\ \/ /\ Candidates(k) = {}
          /\ cand' = cand \ dels[k]
          /\ dels' = [dels EXCEPT ![k] = {}]
          /\ cpc' = [cpc EXCEPT ![k] = "idle"]
          /\ UNCHANGED <<hits, fps>>
       \/ /\ Candidates(k) # {}
          /\ fps' = [fps EXCEPT ![k] = {u \in CandidateUids(k) : CommittedRef(u)}]
          /\ hits' = [hits EXCEPT ![k] = {u \in CandidateUids(k) : ~CommittedRef(u)}]
          /\ cpc' = [cpc EXCEPT ![k] = "delete"]
          /\ UNCHANGED <<cand, dels>>
    /\ UNCHANGED <<now, status, rows, lock, backupVars, storeVars, cstart, lost, rash>>

\* Mutant: candidates still in use stay on the list.
DeleteCandidates_HitsOnly(k) ==
    /\ cpc[k] = "delete"
    /\ dels' = [dels EXCEPT ![k] = @ \cup {r \in cand : r.uid \in hits[k]}]
    /\ fps' = [fps EXCEPT ![k] = {}]
    /\ cpc' = [cpc EXCEPT ![k] = IF hits[k] = {} THEN "check" ELSE "remove"]
    /\ UNCHANGED <<now, dbVars, backupVars, storeVars, cstart, hits, lost, rash>>

(* The DELETE statements of the round: all candidate rows with these uids, *)
(* by uid.  They wait for rows another cleanup has deleted uncommitted.    *)
DeleteCandidates(k) ==
    LET gone == {r \in cand : r.uid \in fps[k] \cup hits[k]}
    IN  /\ cpc[k] = "delete"
        /\ \A o \in Cleaners \ {k} : gone \cap dels[o] = {}
        /\ dels' = [dels EXCEPT ![k] = @ \cup gone]
        /\ fps' = [fps EXCEPT ![k] = {}]
        /\ cpc' = [cpc EXCEPT ![k] = IF hits[k] = {} THEN "check" ELSE "remove"]
        /\ UNCHANGED <<now, dbVars, backupVars, storeVars, cstart, hits, lost, rash>>

\* Whatever references u lost, it lost more than Dt before run k began.
LongLost(k, u) == lost[u] # Never /\ lost[u] + Dt < cstart[k]

\* StorageBase._rm_block in a remover thread; a missing object is only logged.
RemoveObject(k, u) ==
    /\ cpc[k] = "remove" /\ u \in hits[k]
    /\ objects' = objects \ {u}
    /\ hits' = [hits EXCEPT ![k] = @ \ {u}]
    /\ rash' = IF LongLost(k, u) THEN rash ELSE rash \cup {u}
    /\ UNCHANGED <<now, dbVars, backupVars, meta, kept, cpc, cstart, fps, dels, lost>>

\* The hit list is handled: get_unused_block_uids commits after its yield.
CommitRound(k) ==
    /\ cpc[k] = "remove" /\ hits[k] = {}
    /\ cand' = cand \ dels[k]
    /\ dels' = [dels EXCEPT ![k] = {}]
    /\ cpc' = [cpc EXCEPT ![k] = "check"]
    /\ UNCHANGED <<now, status, rows, lock, backupVars, storeVars, cstart, hits, fps,
                   lost, rash>>

(* A removal fails with an error other than a missing object: the cleanup  *)
(* raises, and the unlock of with_lock commits the session.  Removals      *)
(* already submitted still run.                                            *)
FailCleanup(k) ==
    /\ "rm" \in Fault
    /\ cpc[k] = "remove" /\ hits[k] # {}
    /\ \E failed \in SUBSET hits[k] \ {{}} :
        /\ objects' = objects \ (hits[k] \ failed)
        /\ rash' = rash \cup {u \in hits[k] \ failed : ~LongLost(k, u)}
    /\ cand' = cand \ dels[k]
    /\ dels' = [dels EXCEPT ![k] = {}]
    /\ hits' = [hits EXCEPT ![k] = {}]
    /\ cpc' = [cpc EXCEPT ![k] = "idle"]
    /\ UNCHANGED <<now, status, rows, lock, backupVars, meta, kept, cstart, fps, lost>>

(* A cleanup dies: its deletions are rolled back.  The stale lock row is   *)
(* overridden by whoever starts the next one.                              *)
CrashCleanup(k) ==
    /\ "crash" \in Fault
    /\ cpc[k] # "idle"
    /\ dels' = [dels EXCEPT ![k] = {}]
    /\ hits' = [hits EXCEPT ![k] = {}]
    /\ fps' = [fps EXCEPT ![k] = {}]
    /\ cpc' = [cpc EXCEPT ![k] = "idle"]
    /\ UNCHANGED <<now, dbVars, backupVars, storeVars, cstart, lost, rash>>

(* Time passes.  That no session keeps a block row uncommitted longer than *)
(* CommitWindow is an assumption on the environment: _timed_commit is only *)
(* reached when the next block is set.                                     *)
Tick ==
    /\ now < MaxClock
    /\ \A v \in Version : HasPend(v) => now < txStart[v] + CommitWindow
    /\ now' = now + 1
    /\ UNCHANGED <<dbVars, backupVars, storeVars, cleanVars, lost, rash>>

-----------------------------------------------------------------------------
Init ==
    /\ now = 0
    /\ status = [v \in Version |-> "absent"]
    /\ rows = [v \in Version |-> [i \in Idx |-> NoUid]]
    /\ pend = [v \in Version |-> NoPend]
    /\ txStart = [v \in Version |-> 0]
    /\ data = [v \in Version |-> [i \in Idx |-> Unread]]
    /\ bpc = [v \in Version |-> "idle"]
    /\ lock = [v \in Version |-> "free"]
    /\ wq = [v \in Version |-> {}] /\ landed = [v \in Version |-> {}]
    /\ objects = {} /\ meta = {} /\ kept = {} /\ cand = {}
    /\ cpc = [k \in Cleaners |-> "idle"] /\ cstart = [k \in Cleaners |-> 0]
    /\ hits = [k \in Cleaners |-> {}] /\ fps = [k \in Cleaners |-> {}]
    /\ dels = [k \in Cleaners |-> {}]
    /\ lost = [u \in Uid |-> Never] /\ rash = {}

BackupStep(v) ==
    \/ UpdateVersion(v) \/ RefuseBackup(v)
    \/ CommitBackup(v) \/ MarkValid(v)
    \/ ExportMetadata(v) \/ WriteMetadata(v) \/ FinishBackup(v) \/ MarkInvalid(v)
    \/ \E i \in Idx : ReadBlock(v, i) \/ WriteLands(v, i) \/ HandleWriteCompleted(v, i)

CleanupStep(k) ==
    \/ CheckCandidates(k) \/ DeleteCandidates(k) \/ CommitRound(k)
    \/ \E u \in Uid : RemoveObject(k, u)

Next ==
    \/ \E v \in Version : CreateVersion(v) \/ BackupStep(v)
    \/ \E v \in Version : FailBackup(v) \/ CrashBackup(v)
    \/ \E v \in Version : Rm(v) \/ Delete(v)
    \/ StartCleanup
    \/ \E k \in Cleaners : CleanupStep(k) \/ FailCleanup(k) \/ CrashCleanup(k)
    \/ Tick

Spec == Init /\ [][Next]_vars

(* The threads of a running cleanup are scheduled and its database and     *)
(* storage calls return; a backup has no such promise (its source may      *)
(* hang), nor does anybody have to remove anything.                        *)
FairSpec == Spec /\ \A k \in Cleaners : WF_vars(CleanupStep(k))

-----------------------------------------------------------------------------
(* Properties.                                                             *)

(* A block reference can dangle only because a cleanup removed the object  *)
(* less than Dt after a committed reference to it was lost: the race       *)
(* between a cleanup and an uncommitted deduplication (Benji.backup) is    *)
(* closed for blocks that have been unreferenced for longer than that.     *)
DanglingOnlyIfRash ==
    \A u \in Uid : Referenced(u) /\ u \notin objects => u \in rash

\* The row value r is right for what the backup of v read at index i.
Right(v, i, r) ==
    /\ data[v][i] # Unread
    /\ data[v][i] = Sparse <=> r = NoUid
    /\ r # NoUid => Checksum(r) = data[v][i]

(* A version marked valid has been read completely and each of its blocks  *)
(* is sparse or references a block with the checksum of what was read: no  *)
(* row of the base version and no lost write result is left over.          *)
ValidIsComplete ==
    \A v \in Version : status[v] = "valid" => \A i \in Idx : Right(v, i, rows[v][i])

(* The metadata object of a version goes when the version is removed,      *)
(* unless it is to be kept: the version lock keeps Benji.rm from removing  *)
(* it before the backup writes it.                                         *)
MetadataGoesWithVersion ==
    \A v \in Version : status[v] = "removed" /\ v \notin kept => v \notin meta

(* A cleanup ends: every round of get_unused_block_uids makes progress,    *)
(* also one that finds nothing but blocks still in use.                    *)
CleanupTerminates ==
    \A k \in Cleaners : cpc[k] # "idle" ~> cpc[k] = "idle"

-----------------------------------------------------------------------------
(* The inductive invariant behind DanglingOnlyIfRash and ValidIsComplete.  *)

\* A uid whose block is not recorded yet has never been referenced.
FreshUnused ==
    \A v \in Version, i \in Idx :
        /\ data[v][i] \notin Content => i \notin wq[v] \cup landed[v]
        /\ data[v][i] = Unread \/ i \in wq[v] \cup landed[v]
            => lost[<<v, i>>] = Never /\ ~Referenced(<<v, i>>)
        /\ i \in landed[v] => i \notin wq[v] /\ <<v, i>> \in objects

\* Deletion candidates have lost a reference, and nothing is in the future.
CandidatesLost ==
    /\ \A r \in cand : lost[r.uid] # Never
    /\ \A k \in Cleaners : \A u \in hits[k] : lost[u] # Never
    /\ \A k \in Cleaners : cpc[k] \in {"idle", "check"} => hits[k] = {}
    /\ \A k \in Cleaners : cstart[k] <= now

\* Uncommitted rows are young, and are left in a running backup only.
PendYoung ==
    \A v \in Version : HasPend(v) =>
        /\ bpc[v] = "reading" /\ status[v] # "removed"
        /\ txStart[v] <= now /\ now <= txStart[v] + CommitWindow

\* If a session deduplicated against u, then u has kept its committed
\* references or lost one since the transaction began.
PendBacked ==
    \A v \in Version, i \in Idx : \A u \in Uid :
        pend[v][i] = u =>
            CommittedRef(u) \/ lost[u] = Never \/ lost[u] >= txStart[v]

\* Nobody references a hit that lost its references long before the run.
HitsUnused ==
    \A k \in Cleaners : \A u \in hits[k] : LongLost(k, u) => ~Referenced(u)

\* What a backup has read is recorded, or its write is under way.
Recorded ==
    \A v \in Version :
        /\ bpc[v] = "reading" /\ status[v] # "removed" =>
            \A i \in Idx : data[v][i] # Unread /\ i \notin wq[v] \cup landed[v]
                => Right(v, i, SeenBy(v, v, i))
        /\ bpc[v] \in Running \ {"reading"} /\ status[v] # "removed" =>
            \A i \in Idx : Right(v, i, rows[v][i])
        /\ bpc[v] \in {"idle", "reading"} => status[v] # "valid"
        /\ bpc[v] = "idle" => \A i \in Idx : data[v][i] = Unread
        /\ status[v] = "absent" => bpc[v] = "idle"

(* The invariant that every step preserves: it relates the age of an       *)
(* uncommitted deduplication to the last loss of a reference to its block. *)
IndInv ==
    /\ FreshUnused /\ CandidatesLost /\ PendYoung /\ PendBacked /\ HitsUnused
    /\ Recorded /\ DanglingOnlyIfRash /\ ValidIsComplete
=============================================================================
