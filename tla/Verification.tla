---------------------------- MODULE Verification ----------------------------
(***************************************************************************)
(* Finding damaged blocks: restores, scrubs and deep-scrubs (Benji.restore, *)
(* Benji.scrub, Benji.deep_scrub) and the flags they set with              *)
(* Version.set_block_valid, beside backups that deduplicate against the    *)
(* same blocks and objects that decay on the storage.                      *)
(*                                                                         *)
(* The version lock lets one job at a time work on a version, so what the  *)
(* job does and the lock are one variable.  How a backup writes its blocks *)
(* is the subject of BlockLifecycle; here a new block is on the storage as *)
(* soon as it is read, and what matters is when its row is committed.      *)
(*                                                                         *)
(* StorageFactory.get_by_name makes a new storage object at every call, so *)
(* the reads that _scrub_prepare submits are on another object than the    *)
(* one scrub and deep_scrub collect results from: their loops over         *)
(* read_get_completed() never run, and what is left of a scrub is the      *)
(* comparison of the number of submitted and completed reads.              *)
(***************************************************************************)
EXTENDS Naturals

CONSTANTS
    Version,   \* version rows that can be created
    Last,      \* index of the last block of a volume
    Damage,    \* how objects decay: "rotten", "badmeta", "missing"
    Fault,     \* what else goes wrong: "backup", "io", "key"
    NoUid,     \* no block row: the block is sparse
    Unset      \* the session has not set this block row

Idx == 0..Last
Uid == Version \X Idx
Damages == {"rotten", "badmeta", "missing"}

ASSUME VerificationAssumption ==
    /\ Last \in Nat
    /\ Damage \subseteq Damages /\ Fault \subseteq {"backup", "io", "key"}
    /\ NoUid \notin Uid /\ Unset \notin Uid \cup {NoUid}

VARIABLES
    status,    \* versions.status, with "absent"
    rows,      \* blocks: the committed uid of every block of every version
    flag,      \* blocks.valid of these rows
    pend,      \* rows a backup session has set and not committed
    health,    \* the state of the block objects on the storage
    at,        \* what the job that holds the version lock is doing
    left,      \* blocks the job has still to read
    cur,       \* the local variable "block" of a restore
    target,    \* what a restore has written to a block of its target
    result,    \* how the last restore of a version ended
    complete   \* history: versions whose backup has completed

vars == <<status, rows, flag, pend, health, at, left, cur, target, result,
          complete>>
restoreVars == <<cur, target, result>>

TypeOK ==
    /\ status \in [Version -> {"absent", "incomplete", "valid", "invalid"}]
    /\ rows \in [Version -> [Idx -> Uid \cup {NoUid}]]
    /\ flag \in [Version -> [Idx -> BOOLEAN]]
    /\ pend \in [Version -> [Idx -> Uid \cup {NoUid, Unset}]]
    /\ health \in [Uid -> {"absent", "good"} \cup Damages]
    /\ at \in [Version -> {"idle", "backup", "committed", "marked", "scrub", "deep",
                           "deep part", "leaked", "restore"}]
    /\ left \in [Version -> SUBSET Idx]
    /\ cur \in [Version -> Idx]
    /\ target \in [Version -> [Idx -> {"old", "right", "wrong"}]]
    /\ result \in [Version -> {"none", "done", "failed"}]
    /\ complete \subseteq Version

Filled(v) == {i \in Idx : rows[v][i] # NoUid}
Damaged(u) == health[u] \in Damages

-----------------------------------------------------------------------------
(* Backups.                                                                *)

\* A version is created and its backup begins.
StartBackup(v) ==
    /\ status[v] = "absent"
    /\ status' = [status EXCEPT ![v] = "incomplete"]
    /\ at' = [at EXCEPT ![v] = "backup"]
    /\ left' = [left EXCEPT ![v] = Idx]
    /\ UNCHANGED <<rows, flag, pend, health, restoreVars, complete>>

\* Version.get_block_by_checksum: the uids of committed rows flagged valid and
\* of the session's own rows; one of them may have the checksum of the block.
Known(v) ==
    {u \in Uid : \/ \E w \in Version, i \in Idx : rows[w][i] = u /\ flag[w][i]
                 \/ \E i \in Idx : pend[v][i] = u}

\* Session.commit() of a backup session with uncommitted rows p.
CommitRows(v, p) ==
    /\ rows' = [rows EXCEPT ![v] = [i \in Idx |-> IF p[i] = Unset THEN @[i] ELSE p[i]]]
    /\ flag' = [flag EXCEPT ![v] = [i \in Idx |-> IF p[i] = Unset THEN @[i] ELSE TRUE]]
    /\ pend' = [pend EXCEPT ![v] = [i \in Idx |-> Unset]]

\* One block of a backup: sparse, known or new, and perhaps a timed commit.
BackupBlock(v, i) ==
    /\ at[v] = "backup" /\ i \in left[v]
    /\ left' = [left EXCEPT ![v] = @ \ {i}]
    /\ \E u \in Known(v) \cup {NoUid, <<v, i>>} :
        LET p == [pend[v] EXCEPT ![i] = u]
        IN  /\ health' = IF u = <<v, i>> THEN [health EXCEPT ![u] = "good"] ELSE health
            /\ \/ CommitRows(v, p)
               \/ pend' = [pend EXCEPT ![v] = p] /\ UNCHANGED <<rows, flag>>
    /\ UNCHANGED <<status, at, restoreVars, complete>>

\* All blocks are read: the session is committed.
CommitBackup(v) ==
    /\ at[v] = "backup" /\ left[v] = {}
    /\ CommitRows(v, pend[v])
    /\ at' = [at EXCEPT ![v] = "committed"]
    /\ UNCHANGED <<status, health, left, restoreVars, complete>>

\* The version is set valid.
MarkValid(v) ==
    /\ at[v] = "committed"
    /\ status' = [status EXCEPT ![v] = "valid"]
    /\ at' = [at EXCEPT ![v] = "marked"]
    /\ complete' = complete \cup {v}
    /\ UNCHANGED <<rows, flag, pend, health, left, restoreVars>>

\* Its metadata is backed up, its statistics are set, and it is unlocked.
EndBackup(v) ==
    /\ at[v] = "marked"
    /\ at' = [at EXCEPT ![v] = "idle"]
    /\ UNCHANGED <<status, rows, flag, pend, health, left, restoreVars, complete>>

\* A backup fails, before or after it has set the version valid: its rows may
\* be committed; BackupServicer.create marks it invalid.
FailBackup(v) ==
    /\ "backup" \in Fault
    /\ at[v] \in {"backup", "committed", "marked"}
    /\ CommitRows(v, pend[v]) \/ CommitRows(v, [i \in Idx |-> Unset])
    /\ status' = [status EXCEPT ![v] = "invalid"]
    /\ at' = [at EXCEPT ![v] = "idle"]
    /\ left' = [left EXCEPT ![v] = {}]
    /\ UNCHANGED <<health, restoreVars, complete>>

\* An object decays.
Decay(u) ==
    /\ health[u] = "good"
    /\ \E d \in Damage : health' = [health EXCEPT ![u] = d]
    /\ UNCHANGED <<status, rows, flag, pend, at, left, restoreVars, complete>>

-----------------------------------------------------------------------------
(* Scrubs.                                                                 *)

\* Reads _scrub_prepare submits: all blocks with data, or the first and some
\* others of them.
Selections(v, full) ==
    IF full THEN {Filled(v)} ELSE {S \in SUBSET Filled(v) : {0} \cap Filled(v) \subseteq S}

\* Benji.scrub locks the version and submits its reads.
StartScrub(v) ==
    /\ at[v] = "idle" /\ status[v] = "valid"
    /\ at' = [at EXCEPT ![v] = "scrub"]
    /\ \E full \in BOOLEAN : \E S \in Selections(v, full) : left' = [left EXCEPT ![v] = S]
    /\ UNCHANGED <<status, rows, flag, pend, health, restoreVars, complete>>

\* It collects nothing, unlocks and, if it had submitted reads, raises.
EndScrub(v) ==
    /\ at[v] = "scrub"
    /\ at' = [at EXCEPT ![v] = "idle"]
    /\ left' = [left EXCEPT ![v] = {}]
    /\ UNCHANGED <<status, rows, flag, pend, health, restoreVars, complete>>

\* Benji.deep_scrub does the same, also for invalid versions.
StartDeepScrub(v) ==
    /\ at[v] = "idle" /\ status[v] \in {"valid", "invalid"}
    /\ \E full \in BOOLEAN :
        /\ at' = [at EXCEPT ![v] = IF full THEN "deep" ELSE "deep part"]
        /\ \E S \in Selections(v, full) : left' = [left EXCEPT ![v] = S]
    /\ UNCHANGED <<status, rows, flag, pend, health, restoreVars, complete>>

\* Mutant: submitted and completed reads are not compared.
EndDeepScrub_NoCount(v) ==
    /\ at[v] \in {"deep", "deep part"}
    /\ status' = IF at[v] = "deep" THEN [status EXCEPT ![v] = "valid"] ELSE status
    /\ at' = [at EXCEPT ![v] = "idle"]
    /\ left' = [left EXCEPT ![v] = {}]
    /\ UNCHANGED <<rows, flag, pend, health, restoreVars, complete>>

\* With reads submitted it raises InternalError and leaves the lock; without
\* any, the version has passed: a full deep-scrub marks it valid.
EndDeepScrub(v) ==
    /\ at[v] \in {"deep", "deep part"}
    /\ IF left[v] = {}
       THEN /\ status' = IF at[v] = "deep" THEN [status EXCEPT ![v] = "valid"] ELSE status
            /\ at' = [at EXCEPT ![v] = "idle"]
       ELSE at' = [at EXCEPT ![v] = "leaked"] /\ UNCHANGED status
    /\ left' = [left EXCEPT ![v] = {}]
    /\ UNCHANGED <<rows, flag, pend, health, restoreVars, complete>>

\* Database.close() releases the lock.
CloseSession(v) ==
    /\ at[v] = "leaked"
    /\ at' = [at EXCEPT ![v] = "idle"]
    /\ UNCHANGED <<status, rows, flag, pend, health, left, restoreVars, complete>>

-----------------------------------------------------------------------------
(* Restores.                                                               *)

\* Version.set_block_valid(uid of block i of v, False): all committed rows with
\* the uid are flagged and their versions become invalid, in one transaction.
SetBlockInvalid(v, i) ==
    LET hit(w) == {j \in Idx : rows[w][j] = rows[v][i] /\ rows[w][j] # NoUid}
    IN  /\ flag' = [w \in Version |-> [j \in Idx |-> flag[w][j] /\ j \notin hit(w)]]
        /\ status' = [w \in Version |-> IF hit(w) = {} THEN status[w] ELSE "invalid"]

\* Benji.restore, whatever the status: lock, open the target, submit the reads.
\* The loop that submits leaves its variable "block" at the last block.
StartRestore(v) ==
    /\ at[v] = "idle" /\ status[v] # "absent"
    /\ at' = [at EXCEPT ![v] = "restore"]
    /\ left' = [left EXCEPT ![v] = Filled(v)]
    /\ cur' = [cur EXCEPT ![v] = Last]
    /\ target' = [target EXCEPT ![v] = [i \in Idx |-> "old"]]
    /\ result' = [result EXCEPT ![v] = "none"]
    /\ UNCHANGED <<status, rows, flag, pend, health, complete>>

WriteTarget(v, i, what) ==
    /\ target' = [target EXCEPT ![v][i] = what]
    /\ cur' = [cur EXCEPT ![v] = i]

\* Mutant: what is written is not checked.
RestoreBlock_NoChecksum(v, i) ==
    /\ at[v] = "restore" /\ i \in left[v]
    /\ left' = [left EXCEPT ![v] = @ \ {i}]
    /\ health[rows[v][i]] # "missing"
    /\ WriteTarget(v, i, IF health[rows[v][i]] = "rotten" THEN "wrong" ELSE "right")
    /\ UNCHANGED <<rows, pend, health, at, result, complete, flag, status>>

\* Mutant: the flag is set on the block handled before.
RestoreBlock_MarksPrevious(v, i) ==
    /\ at[v] = "restore" /\ i \in left[v]
    /\ left' = [left EXCEPT ![v] = @ \ {i}]
    /\ health[rows[v][i]] # "missing"
    /\ WriteTarget(v, i, IF health[rows[v][i]] = "rotten" THEN "wrong" ELSE "right")
    /\ \/ health[rows[v][i]] = "good" /\ UNCHANGED <<flag, status>>
       \/ health[rows[v][i]] # "good" /\ SetBlockInvalid(v, cur[v])
    /\ UNCHANGED <<rows, pend, health, at, result, complete>>

\* The result of a read is handled: the data is written, then its metadata and
\* checksum are checked.  A read that fails with ValueError or KeyError (the
\* keys or the encryption materials are not right) flags the block of the
\* variable "block", which is another one, and goes on.
RestoreBlock(v, i) ==
    /\ at[v] = "restore" /\ i \in left[v]
    /\ left' = [left EXCEPT ![v] = @ \ {i}]
    /\ \/ /\ health[rows[v][i]] = "good"
          /\ WriteTarget(v, i, "right")
          /\ UNCHANGED <<flag, status>>
       \/ /\ health[rows[v][i]] = "rotten"
          /\ WriteTarget(v, i, "wrong")
          /\ SetBlockInvalid(v, i)
       \/ /\ health[rows[v][i]] = "badmeta"
          /\ WriteTarget(v, i, "right")
          /\ SetBlockInvalid(v, i)
       \/ /\ "key" \in Fault
          /\ health[rows[v][i]] # "missing"
          /\ SetBlockInvalid(v, cur[v])
          /\ UNCHANGED <<target, cur>>
    /\ UNCHANGED <<rows, pend, health, at, result, complete>>

\* Any other failed read ends the restore: InvalidBlockException, when data or
\* metadata of the object are missing, or an error of the storage or the target.
FailRestore(v) ==
    /\ at[v] = "restore"
    /\ "io" \in Fault \/ \E i \in left[v] : health[rows[v][i]] = "missing"
    /\ at' = [at EXCEPT ![v] = "idle"]
    /\ left' = [left EXCEPT ![v] = {}]
    /\ result' = [result EXCEPT ![v] = "failed"]
    /\ UNCHANGED <<status, rows, flag, pend, health, cur, target, complete>>

\* All results are handled: "Successfully restored version".
EndRestore(v) ==
    /\ at[v] = "restore" /\ left[v] = {}
    /\ at' = [at EXCEPT ![v] = "idle"]
    /\ result' = [result EXCEPT ![v] = "done"]
    /\ UNCHANGED <<status, rows, flag, pend, health, left, cur, target, complete>>

-----------------------------------------------------------------------------

Init ==
    /\ status = [v \in Version |-> "absent"]
    /\ rows = [v \in Version |-> [i \in Idx |-> NoUid]]
    /\ flag = [v \in Version |-> [i \in Idx |-> TRUE]]
    /\ pend = [v \in Version |-> [i \in Idx |-> Unset]]
    /\ health = [u \in Uid |-> "absent"]
    /\ at = [v \in Version |-> "idle"]
    /\ left = [v \in Version |-> {}]
    /\ cur = [v \in Version |-> Last]
    /\ target = [v \in Version |-> [i \in Idx |-> "old"]]
    /\ result = [v \in Version |-> "none"]
    /\ complete = {}

BackupStep(v) ==
    \/ StartBackup(v) \/ CommitBackup(v) \/ MarkValid(v) \/ EndBackup(v) \/ FailBackup(v)
    \/ \E i \in Idx : BackupBlock(v, i)

ScrubStep(v) ==
    \/ StartScrub(v) \/ EndScrub(v)
    \/ StartDeepScrub(v) \/ EndDeepScrub(v) \/ CloseSession(v)

RestoreStep(v) ==
    \/ StartRestore(v) \/ FailRestore(v) \/ EndRestore(v)
    \/ \E i \in Idx : RestoreBlock(v, i)

Next ==
    \/ \E v \in Version : BackupStep(v) \/ ScrubStep(v) \/ RestoreStep(v)
    \/ \E u \in Uid : Decay(u)

Spec == Init /\ [][Next]_vars

-----------------------------------------------------------------------------
(* Properties.                                                             *)

\* After a restore that reported success, every block of the target is right or
\* its block row is flagged invalid: Benji.restore writes what it has, and what
\* it could not write or verify it marks.
RestoreHonest ==
    \A v \in Version : result[v] = "done" =>
        \A i \in Filled(v) : target[v][i] = "right" \/ ~flag[v][i]

\* Only damaged blocks are flagged: set_block_valid(False) is called for the
\* block that failed its check, not for another one.
OnlyDamagedFlagged ==
    \A v \in Version, i \in Idx : ~flag[v][i] => rows[v][i] # NoUid /\ Damaged(rows[v][i])

\* A version is valid only if its backup completed, or if it has no blocks with
\* data at all: a deep-scrub does not turn a failed backup that has some blocks
\* into a valid version.
ValidUnlessEmpty ==
    \A v \in Version : status[v] = "valid" => v \in complete \/ Filled(v) = {}

-----------------------------------------------------------------------------
(* The inductive invariant behind the first three.                         *)

\* Uids that rows and sessions use have an object, and the uid of a block that
\* is still to be backed up has none.
UidsHaveObjects ==
    /\ \A v \in Version, i \in Idx :
        /\ rows[v][i] # NoUid => health[rows[v][i]] # "absent"
        /\ pend[v][i] \in Uid => health[pend[v][i]] # "absent"
    /\ \A v \in Version, i \in Idx :
        status[v] = "absent" \/ (at[v] = "backup" /\ i \in left[v]) =>
            health[<<v, i>>] = "absent"

\* What a version's job implies about the version.
JobsFit ==
    \A v \in Version :
        /\ status[v] = "absent" => at[v] = "idle" /\ result[v] = "none" /\ Filled(v) = {}
        /\ at[v] \in {"backup", "committed"} => status[v] # "valid"
        /\ at[v] \in {"backup", "committed", "marked"} => result[v] = "none"
        /\ at[v] = "deep" => left[v] = Filled(v)
        /\ at[v] = "restore" => left[v] \subseteq Filled(v)

\* A restore under way has dealt honestly with the blocks it has handled.
RestoringHonestly ==
    \A v \in Version : at[v] = "restore" =>
        \A i \in Filled(v) \ left[v] : target[v][i] = "right" \/ ~flag[v][i]

\* The reads of a restore never fail with ValueError or KeyError.
NoKeyFaults == "key" \notin Fault

\* At every step: types, the three properties and what they rest on.  Without
\* the right keys restores flag and skip blocks they should not.
VerificationInv ==
    /\ TypeOK /\ UidsHaveObjects /\ JobsFit /\ ValidUnlessEmpty
    /\ NoKeyFaults => OnlyDamagedFlagged /\ RestoringHonestly /\ RestoreHonest

=============================================================================
