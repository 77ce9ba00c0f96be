# A verification project for be-backup (Benji)

be-backup is a fork of the Benji deduplicating backup program: a library that
splits volumes into blocks, stores new blocks as objects on a storage and keeps
the rest in an SQL database (`src/src/benji`), and a control plane of REST API,
scheduler and gRPC workers around it. This directory holds TLA+ models of its
core, the TLC configurations that check them and TLAPS proofs of their main
properties. `PROJECT.json` is the index: which definition models which lines,
which run checks which property, what each mutation of the model breaks.

Paths below are relative to `src/src/benji/` unless they begin with `docs/`
(that is `src/docs/`).

## 1. Inventory

| part | state it keeps | operations | talks to |
|---|---|---|---|
| Backup engine (`benji.py`, `database.py`) | rows of `versions` and `blocks`; the uncommitted rows of its session; submitted writes | `update_version`, `backup`, `Version.set_block`, `Version.set` | source IO module, storage, database, locks |
| Removal and cleanup (`benji.py`, `database.py`, `taskmanager/grpc/servicers/backup.py`) | `deleted_blocks` | `rm`, `clean`, `cleanup`, `DeletedBlock.get_unused_block_uids`, `BackupServicer.delete` | database, storage, locks |
| Database locks (`database.py` `_Locking`) | table `locks` | `lock`, `update_lock`, `unlock`, `unlock_all`, `with_lock` | database; used by every operation |
| Job executor (`jobexecutor.py`) | futures, semaphore, thread pool | `submit`, `get_completed`, `wait_for_all`, `shutdown` | used by storages and IO modules |
| Restore and scrub (`benji.py`) | `blocks.valid`, `versions.status` | `restore`, `scrub`, `deep_scrub`, `Version.set_block_valid` | storage, database, locks |
| Storage object layer, backends and transforms (`storage/*`, `transform/*`) | data and metadata objects of blocks and versions, read cache | `write_block`, `read_block`, `rm_block`, `write_version`, `read_version`, `rm_version` | file system, B2, S3 |
| IO modules (`io/*`) | queues of requests, permits, the device | `open_r`, `open_w`, `read`, `write`, `read_get_completed`, `write_get_completed`, `close` | devices, job executor; called by backup, deep-scrub, restore |
| Metadata export and import | metadata objects | `metadata_backup`, `metadata_restore` | storage, database |
| NBD server and BenjiStore | copy-on-write versions | `open`, `read`, `write`, `fixate` | backup engine |
| Retention filter (`retentionfilter.py`) | none | `filter` | - |
| Schedule jobs (`tasks/schedule_job.py`, `services/schedule_job`) | `schedule_jobs`, `volume_schedule_job` | run due jobs, delete expired versions; create, update, delete jobs | gRPC workers, locks |
| Versions, quotas, storages, nodes (`services/version`, `storage`, `node`) | their tables, logical volumes of the nodes, the queue of Celery | create, update, restore, delete, quota accounting | REST API, Celery, gRPC servers, LVM scripts |
| Volume groups (`services/vm`) | `volume_group`, `volume_backup_group` | create, update, delete | REST API |
| Users, virtual machines, login (`services/user`, `context.py`, gRPC servicers) | `users`, `vms`, tokens | create, lock, login, refresh, lists and statistics | REST API, gRPC servers |
| gRPC task manager, REST API, command line | none | dispatch | services, `Benji` |
| Configuration, queries, notifications, formatting, utilities | none | parsing and output | - |

Processes interact only through the database, the storage, the queue of Celery and
gRPC calls. A node runs a gRPC worker; each request opens `with Benji(...)`, with a
database session of its own and thread pools of its own for reads and writes. The
database sees short transactions with `autoflush`: a session sees its own
uncommitted rows and what the others have committed. A request of the API commits
several times on its way, and whatever is left when it is answered.

What is hard here:

* **A block deduplicated but not committed.** A backup finds a block by its
  checksum and sets a row for it, which is committed seconds later. Meanwhile
  the last version that references the block can be removed and a cleanup can
  delete the object. A list of deletion candidates and a delay of an hour
  separate the two.
* **Look first, write later.** Candidates are checked and then deleted, locks
  are selected and then deleted, a block is found damaged and then flagged, a quota
  is compared and then used up, a name is found free and then taken: in between
  others run.
* **Asynchronous writes and reads** whose results come in any order and are
  matched with rows and local variables afterwards.
* **One thing in two places**: a block is two objects, a storage is a row and a
  logical volume on a node, a backup is a row and a task, a group and its job have
  volumes each. They change one after the other, and each step can fail.
* **Failures half way**: removals that raise after rows were deleted in the
  session, backups that raise without unlocking, requests that raise and are
  committed, processes that die and leave their lock rows, objects that decay.
* **Bounded queues** whose permits are taken and returned by different threads.

What makes the parts correct: a reference resolves to an object; a valid version
holds what was read; what is read is what was written; a removed version leaves no
metadata object; one process at a time works on a version; locks are released; a
bounded queue stays bounded and never blocks for ever; a restore that reports
success wrote the right data or said which is not; a block that is marked damaged
is; due jobs run once; rows agree with volumes, quotas with what is used, groups
with what was asked for; a locked user's sessions end. `hazards` in `PROJECT.json`
lists the places where these could fail.

## 2. Modules

| module | models | proofs |
|---|---|---|
| `BlockLifecycle` | backups, deduplication, removals, both cleanups | `BlockLifecycleProofs` |
| `Locking` | the lock table and the methods that use it | `BackupGroupsProofs` |
| `JobExecutor` | the thread pool with its semaphore | `VerificationProofs` |
| `Verification` | restores, scrubs, deep-scrubs, flags of damaged blocks | `VerificationProofs` |
| `Scheduling` | the periodic tasks: jobs that are due, their locks, expiry of versions | `SchedulingProofs` |
| `ObjectStore` | what the storage layer promises: a regular store | |
| `StorageObjects` | storage layer, backends and transforms; implements `ObjectStore` | `StorageObjectsProofs` |
| `IoModules` | the four IO modules under the loops of backup, deep-scrub and restore | `IoModulesProofs` |
| `ControlPlane` | storages, versions, quotas, nodes: requests, tasks, servers, volumes | `ControlPlaneProofs` |
| `BackupGroups` | volume groups, schedule jobs and their volumes | `BackupGroupsProofs` |
| `Accounts` | users, virtual machines, tokens, roles, lists | `AccountsProofs` |
| `MC...` | values and symmetry sets for TLC | |

They are separate because the code couples the parts through single steps. A
version lock is one variable of `BlockLifecycle` (and part of `at` in
`Verification`), which is what `Locking` shows it to be as long as nobody overrides
it. Block writes and removals are unordered sets of pending jobs there, which is
what `JobExecutor` gives, and single steps, which `ObjectStore` justifies: nothing
reads a block before its write has returned, because its row is set after that.
`Scheduling` and `ControlPlane` end where a backup begins on a node, and
`Scheduling` takes the job rows that `BackupGroups` makes as given. The lists of
`Accounts` see the storages of `ControlPlane` as rows that come and go.

Operators with an underscore in their name (`CommitBackup_NoWait`) are mutations
of the operator that follows them, and no specification uses them
(`IOFactory_get` is the one exception: it is the name of a method).

### 2.1 BlockLifecycle

One action per step at which other processes can be seen or see a change.
Backup of a version: `CreateVersion`, `UpdateVersion` (lock, base version, rows
copied) or `RefuseBackup`, `ReadBlock` for each block in the order the reads
complete (sparse, deduplicated, or submitted as a write; each with or without the
commit of `_timed_commit`), `WriteLands` in a storage thread,
`HandleWriteCompleted`, `CommitBackup` when all writes are in, `MarkValid`,
`ExportMetadata`, `WriteMetadata`, `FinishBackup`. `FailBackup`, `CrashBackup`
and `MarkInvalid` are its error paths. `Rm` and `Delete` remove a version, insert
its block uids into `cand` and remove the metadata object; `Delete` also starts
`Benji.clean`. A cleanup is a loop of `CheckCandidates` (select and split
into hits and blocks still in use), `DeleteCandidates` (both deleted in the
session, those in use by uid), `RemoveObject` for each hit, and `CommitRound`;
`FailCleanup` and `CrashCleanup` end it early.

`lost` and `rash` are history: when a uid last lost a committed reference, and
which objects were removed less than `Dt` after that.

Three things the model shows are not as documents and comments have them, and no
property claims them:

* the delay of `cleanup` is measured per candidate row (`database.py:990`). V1 loses
  a block long ago, V2 still shares it, V3 deduplicates against it without
  committing, V2 is removed: the row of V1 is old enough, nobody references the block
  in a committed row, and the object goes (`docs/source/cleanup.rst:51` promises a
  delay after the last use). `Benji.clean` has no delay at all (`database.py:986`).
  `DanglingOnlyIfRash` says that nothing else makes a reference dangle. It is checked
  where a cleanup with a delay runs (`block_cleanups`): of `clean` alone, whose every
  removal is soon, it would say nothing;
* candidates found in use are deleted by uid (`database.py:1018`), and with them a row
  that a removal has added since the check: the object is on no list any more;
* a removal that raises still commits the deletion of the candidates of its round,
  when `with_lock` unlocks (`database.py:1970`, against the comment at 1028).

Abstractions:

* contents are model values and a uid is the version and index that created the
  block, as in the code;
* backups without hints and with whole blocks only; the batch size of 250
  candidates is not reached; one storage; `protected` and the age check of `rm`
  are left out of its guard, so more removals are allowed than in the code;
* the check of one round of candidates is one step; `RefuseBackup` and the copy
  of the rows of a base version are one step each;
* the two `DELETE`s of a round of candidates are one step, since they belong to one
  transaction; the commit of a removal and the removal of the metadata object are one
  step, whose second half may fail or be missing by choice (`MetadataGoesWithVersion`
  excepts those);
* whether a timed commit happens is a free choice; that an uncommitted row is
  never older than `CommitWindow` is an assumption (`Tick`). The code comes back to
  `_timed_commit` only when the next block is set, so a source that hangs for
  longer than the delay of a cleanup is outside it;
* the removals still running when a cleanup raises are merged into `FailCleanup`.

### 2.2 Locking

`lock` is a plain `INSERT` on the primary key and one step (`Lock`). With
`override_lock` it is a `Session.merge`: a `SELECT` (`LockOverride`) and an
`INSERT` or `UPDATE` (`Merge`), where the `INSERT` fails if the row has come in the
meantime. `unlock` and `unlock_all` select the rows of the process (`Unlock`,
`Close`) and delete them by primary key, the name alone (`Delete`, `DeleteFails`).
`Crash` leaves rows behind. `update_lock` changes the reason text and otherwise
refuses like `unlock` (`NotHeld`). Callers never lock a name they hold.

Because the `DELETE` is by name, an override between the `SELECT` and the `DELETE`
makes `unlock` remove the row of the new owner (`database.py:1927`). The two
properties therefore exclude names that were overridden while their owner was
alive; on all others, also on those taken over from a dead process, they hold.

### 2.3 JobExecutor

One thread calls, `Workers` threads execute. `blocking`, chosen in `Init`, is the
constructor's `blocking_submit`: with it `submit` takes a permit and the job
returns it in a `finally`; without it the worker takes the permit and
`get_completed` returns it. The queue of `ThreadPoolExecutor` is first in, first
out (`AtHead`); `Take`, `SetResult` and `NotifyCancel` model the library from its
use. Two facts of the code are visible in `Holding`: a cancelled job of a blocking
executor never returns its permit, and `wait_for_all` is called on blocking
executors only.

### 2.4 Verification

Two or more versions whose blocks may be shared by deduplication; objects rot,
lose their metadata's integrity or disappear (`Decay`); restores read, write to the
target and flag; scrubs run beside them. `StorageFactory.get_by_name`
(`storage/factory.py:117`) makes a new storage object at every call, so the reads
`_scrub_prepare` submits and the results `scrub` and `deep_scrub` collect belong to
different objects: their loops never run, and the model has what is left, the
comparison of the two counts at the end and what follows from it.
A restore that gets `ValueError` or `KeyError` from a read handles it with the
variable `block`, which holds another block: `cur` in the model. With the fault
`"key"` the block that failed is neither written nor marked, another one is marked
and the restore reports success (`benji.py:755`; `docs/source/restore.rst:223`
expects the mark), so `RestoreHonest` and `OnlyDamagedFlagged` are about behaviours
without it. A deep-scrub marks nothing (`benji.py:347`; `docs/source/scrub.rst:47`
says that it does).

Abstractions: a write is on the storage when the block is read (`BlockLifecycle`
has the details); whether a block is deduplicated is a free choice; the gap
between the unlock of a failed backup and its mark as invalid is one step;
partial sparse last blocks are left out.

### 2.5 Scheduling

Celery beat sends `run_schedule_job` every `Window` minutes and
`delete_expired_versions` every `Hour` minutes. A run selects the jobs that start in
the window that begins now (`RunScheduleJob`, `Due`), then for each in turn passes it
over (`SkipJob`) or takes its lock (`LockJob`), handles its volumes (`StartVolume`,
`FailVolume`) and releases the lock (`UnlockJob`), until none is left (`EndRun`).
`count` is history: how often a volume was handled for the occurrence that comes
next. A version is represented by the day on which it expires; versions with the
same day are removed together.

Both tasks run in children that the Celery worker forks after `benji.database` was
imported. `_process_id()` is a uuid made at import and the id of the main thread, the
same in all children, so `unlock_all` at the end of one task removes the lock rows of
the others (`Leave`, `DeleteExpiredVersions`). `UnlockJob` then raises. This also
lets a later task remove the row of a child that died (`Kill`); the rows of a worker
that died as a whole stay for ever (`Crash`). `Locking` speaks of processes with
different ids and leaves this case to `Scheduling`.

`Regular` names what `OnceEach` leaves out, because the code gets it wrong: a start
time of 1440, which the controllers accept (`services/schedule_job/controller.py:170`)
and no window contains; the minutes after midnight on Monday and Tuesday, as the next
day of Sunday is computed as Tuesday (`tasks/schedule_job.py:43`); and a machine in
another time zone than Asia/Saigon, since `_now.today()` asks the machine
(`tasks/schedule_job.py:23`).

Assumption: beat sends its tasks exactly on the grid of the windows. The schedules are
`timedelta`s (`config.py:261`), which begin when beat does and may drift; of a run that
begins inside a window instead of at its edge `OnceEach` says nothing.

Abstractions: a task starts in the minute in which it is sent and ends in it; the
removals of one run of `delete_expired_versions` are one step; job rows do not
change; a volume that is passed over because its storage is full counts as handled;
the retention is a set of days, from which a version gets any.

### 2.6 ObjectStore and StorageObjects

`ObjectStore` is the promise: a map from keys to contents. A call is not one
instant; the content of a key changes only while a call that writes or removes it
runs, a read returns a content its key had while the read ran, or one an earlier
read returned (the read cache is never invalidated), and calls fail only for a
reason. A call that overwrites the metadata backup of a version may leave it
garbled, one that writes a block never does. Nothing is promised of the outcome of
a call for a version that another call for the same version overlapped (`contested`,
history): that is what the lock of the version is for, and only an override lets two
in. The content itself still changes only as the calls write and remove.

`StorageObjects` is the code: each key has two objects, `data` and `meta`, and each
operation on one object is a step. A write puts the data and then the metadata
(`FileWriteObject`, `FillObject`, `BucketWriteObject`), may read both back
(`CheckWrite`), and on an error removes the two, the second only if the first was
there (`WriteObjectFails`, `LookObject`, `FileRmObject`, `S3RmObject`,
`B2RmObject`). A read takes the cache, or the data and then the metadata, checks
and decapsulates (`ReadCache`, `ReadData`, `ReadMeta`, `Answer`). A file is
truncated when it is opened and filled later. B2 tries again (`Retried`). Data
remembers which call encrypted or compressed it, so data and metadata of two calls
do not fit: `zstd` fails on them, `aes` decrypts them to something else. The
refinement maps `content[k]` to what a read of both objects would return now.
`marred` is history: the keys that a death, a failed cleanup or an overridden lock
left behind.

`Storage._read_object` of S3 calls `get()` of the bucket, which has no such method
(`storage/s3.py:98`), so every read of an S3 storage raises; its keys are
`Unreadable` in the promise.

Abstractions: contents with a length; checksum and HMAC stand for what they are made
of; a bucket keeps one version per name; throttling and listing are left out.

### 2.7 IoModules

One job - a backup, a deep-scrub or a restore - with one IO object. `setup` says
which, what the target was before and what the version holds. The caller opens
(`FileOpenW`, `RbdTarget`...), queues requests, and collects results, in the loops
of `benji.py`. `file` and `rbd` use the executor (`WorkerTakes`, `WorkerEnds`,
`PoolGet`); `rbdaio` has its own queue, at most `sim` requests in flight and
callbacks in a thread of librbd (`SubmitAioReads`, `AioCallback`, `AioReleases`);
`iscsi` does the request when the result is asked for (`IscsiGet`). `medium` is
what the target holds, block by block and one cell beyond the end; `cut` is where
a source that shrank ends.

What the model shows of the code: the callbacks of `rbdaio` share the variable
`block` of the call that made them, which is harmless because every call submits one
request at a time or sits in a turn that has collected the others (`ReadsAreOwn`);
`file` and `rbd` take a short read for a block; `iscsi` ignores size, `force` and
`sparse`, and asserts when a restore passes over a block with wrong metadata; the
zeros of a short sparse last block are a whole block, which `rbd` refuses at the end
of the image and a file grows by; an exception of the sanity check of a backup
leaves the IO object open.

Abstractions: what hints, checksums and storage reads make of the blocks is given by
`BackupPlans` and `RestorePlans`; blocks of equal size but the last.

### 2.8 ControlPlane

A request is one step per transaction, message and remote call. Storages:
`CreateStorage` selects a node and commits the row, the server makes the volume and
records its overcommitment (`MapStorage`, `Record`), the answer is handled
(`UndoStorage`); growing is volume first (`GrowVolume`, `CommitUpdate`), deletion
too (`UnmapStorage`, `CommitDelete`). Versions: `Admit` compares the used space
with the quota, `CommitVersion` and `SendVersion` make the row and the task,
`Take` hands it to the server, `Backup`, `Remove` and `Clean`, `Restore` do it and
`Measure`, `RecordUse` the statistics. `ScheduleJobs` makes and deletes the job row of a
storage. Nodes: `CreateNode`, `DeleteNode`, `Ping`
(`monitor_nodes`), `NodeDown`, `NodeUp`. In a behaviour one of three kinds of
things fails: messages and answers, the scripts of LVM, or nodes.

The properties say what agrees at rest. The places where the code lets go of a fact
are named in the actions, which put it into `loose`: a lost answer, a script that
fails after its work or hides that it failed, a second request for the same storage
(`Contest`: it also takes the overcommitment of the nodes of both), statistics that
overlap a change or the deletion of the volume (`Blur`), a storage that grows (which
records no overcommitment), a cleanup that raises after it removed something, a
deletion that is refused by a foreign key or only a mark. All else keeps the facts.

Rows of three tables refer to a storage (`Referred`): versions, jobs
(`database.py:1139`) and deleted blocks (`database.py:968`). A forced deletion takes
the volume first and is refused by them afterwards, so the row stays without a volume
and still admits backups (`CommitDelete`). `delete` of the servicer runs `rm`, then
`clean`, then the statistics: where `clean` raises, the row of the version is gone and
the used space is not measured (`taskmanager/grpc/servicers/backup.py:97`).

The scripts of LVM run to their end and answer with the status of their last command.
`lvmctl_do_storage_update` says what `resize2fs` says, so a failed `lvextend` lets the
row grow alone, and `mount -a` may mount a volume again that was left over (`Remount`);
`lvmctl_do_storage_delete` says what `rm` says, so a failed `lvremove` leaves a volume
without a mount, which is `stray`; `lvmctl_do_storage_create` finds such a volume and
uses it with the size it has.

Abstractions: sizes in units of what a backup writes; one storage per user, as the
unique name makes it; requests that only read, or are refused, have no step;
percentages of disk use are left out. The variants with `wait=True` raise in the
code (a task's `delay` returns no version) and are left out.

### 2.9 BackupGroups

`VolumeGroupModel` and `ScheduleJobModel` with the sessions of the API's threads:
each row of a volume is committed on its own (`AddVolume`, `AddJobVolume`), a
conflict rolls back whatever the session holds, and its error is not looked at;
`ReplaceVolumes` deletes in the session only. A request that raises is committed by
`after_request` (`RaiseVolume`). `loose` names here too what breaks a property:
a volume in two requests, a group deleted meanwhile, two updates of one job, an
update of a group with a job (which does not change the job), a volume that another
job has when a job is made: it is left out, and in no job once the other one goes.

The check for a job of the group and the query of its volumes are one step
(`CreateJob`): two queries of one request that nothing of it comes between.

`create_volume_backup_groups` never makes a version: the column `vm_id` of versions
may not be null and the request has none (`BackupNow` changes nothing).

### 2.10 Accounts

Servants of the gRPC server create and lock users and create virtual machines;
threads of the API log in, refresh tokens and read lists. A worker keeps its
database transaction from its first read to its next commit. A call that is refused
returns before `Database.close()` (`taskmanager/grpc/servicers/user.py:24`,
`vm.py:23`), so the next call on that worker may see old rows under repeatable read:
`view`. `walk` is a client that follows `next_page`. Its lists have no order:
`paginate` adds none (`database.py:2267`) and `build_s` throws its own away
(`database.py:2203`). So the list begins in any order (`ListPage`), a new row takes any
place (`Appears`), and a row that is updated any other one (`Moves`: a user who is
locked, a storage whose row is written), as on PostgreSQL, which
`docs/source/configuration.rst:79` names beside SQLite. A page and the number of rows
are two statements, and the table may change in between (`CountPage`). `PagesAreWhole`
therefore says how much such changes can cost: one row missed at most for each that
went or moved, one seen twice for each that came or moved, and none otherwise.

What the model shows of the code: a deleted user keeps row and name;
`delete_user` and `create_vm` answer success when the row could not be saved;
functions for second factors lack `self`, so users with `enable_two_factors` cannot
log in; `logout` ends no token, tokens end by their time only; `refresh_token`
accepts no user name, and only thereby does `LockedOut` hold (its mutant adds the
argument); `delete_vm` does nothing.

Abstractions: passwords are right; two reads of a table that nobody changed in between
return its rows in the same order, which no standard promises and both databases do
(PostgreSQL as long as the plan of the query stays and nobody vacuums the table); the
endpoints of second factors, which raise before they read anything, are one step
without effect together with `logout`; the database is at repeatable read or read
committed.

## 3. Runs

| run | configuration | properties |
|---|---|---|
| `block_faults` | two versions, base or not, failing, dying and overridden backups, `clean` | `ValidIsComplete` |
| `block_cleanups` | two versions, `cleanup` and `clean` together, failing removals, fair | `DanglingOnlyIfRash`, `MetadataGoesWithVersion`, `CleanupTerminates` |
| `locks` | two processes, two names, overrides, crashes, failing unlocks, fair | `ExclusiveUnlessOverridden`, `ReleasesOwnUnlessOverridden`, `Released` |
| `jobs` | two workers, six jobs, both modes, fair | `PermitsAccounted`, `OutstandingBounded`, `CallsReturn`, `ShutdownCompletes` |
| `verify_honest` | two versions of two blocks, rotting objects | `RestoreHonest`, `OnlyDamagedFlagged` |
| `verify_kinds` | two versions of one block, all damage, all faults | `ValidUnlessEmpty` |
| `schedule` | two jobs, two volumes, three days, all faults | `LocksLeftByTheDead`, `NoneOutlives`, `OnceEach` |
| `storage_objects` | two threads, three calls, a block in B2, one in S3, a version in a directory, one fault | `NoHalfObjects`, `IsRegularStore` |
| `control_plane` | one user and node, two versions, two threads, three requests, all faults | `VolumeMatchesRow`, `UseIsKnown`, `OvercommitIsKnown`, `IncompleteIsPending`, `QuotaIsKept` |
| `backup_groups` | two volumes, groups, jobs and threads, six requests | `NothingIsLeftBehind`, `GroupIsAsAsked`, `OneJobPerGroup`, `GroupIsCovered`, `PolicyRunsDaily` |
| `io_modules` | four blocks, every module, one or two simultaneous requests, one fault, fair | `ReadsAreOwn`, `RestoredIsVersion`, `FailsForCause`, `NothingAfterClose`, `JobEnds` |
| `accounts` | two workers, two threads, four scenes | `AnsweredIsDone`, `LockedOut`, `PagesAreWhole`, `OthersNeedRank`, `MissesFollowRefusals` |

All pass; the inductive invariants of section 4 are proved and not among their
properties. Each property is violated by a mutation of the code's model
(`mutants` in `PROJECT.json`): a guard dropped, a wait forgotten, a step left out.

Seen while modelling, without a property, beside what section 2 says of each module: a restore
ends at the first missing object (`benji.py:759`, while
`docs/source/restore.rst:232` says that restores always succeed); `set_block_valid`
misses rows a running backup has not committed (`database.py:656`); a backup that
ends sets its version valid over the mark a restore has just set (`benji.py:1097`);
the occurrences `Regular` leaves out (2.5).

**Bounds.** *Blocks*: one block index and one content beside `Sparse` are enough for
two versions to share an object, to hold a sparse and a full block in turn and to
race for it; two clock values beyond the start, with `Dt = CommitWindow = 1`, let a
candidate become old enough while another is not. *Locks*: two processes can
override each other, and both properties compare two processes on one name; the
second name lets `close` release several. *Jobs*: with two workers the limit is five,
so six jobs fill it and leave one waiting. *Verification*: two versions with two
blocks let a restore handle a result with the wrong block, and share blocks.
*Scheduling*: a day of six minutes with windows of three and hours of four puts
windows in every position relative to midnight and expiry runs across it; the starts
are the first and the last minute of the day, three days from any weekday contain
every transition, and two jobs let one run skip the second. *Storage*: a write, an
overwrite or removal, and a read that meets both, two at a time, need three calls; one
fault at any step; both kinds of contents make data and metadata of different calls
differ in length and in layers. *Control plane*: three requests are a storage made,
used or grown, and deleted, or two that overlap and one that sees the result; two
versions let statistics of one overlap the backup of the other. One node and one user
leave out only the choice among nodes, since facts of different storages and nodes
meet in the sums of overcommitment alone; a storage that exists from the start, of the
smaller of two sizes so that it can grow, saves requests. *Groups*: two volumes let a volume be in the way while another is not, and six
requests are two groups, a job for each, an update and a deletion. *IO*: four blocks exceed
what is in flight, and the plans put sparse, missing and wrong blocks at the
beginning, the middle and the end. *Accounts*: the scenes are servants from
nothing, sessions while users are locked and time passes, lists of two pages whose
rows come, go and move, and two administrators.

The theorems of section 4 are for every value of the constants of their modules.

**Deadlock.** Not checked: every model may stop, when all versions are used up,
all processes have died, the executor or the job is over, no requests are left or the last day
(`MaxDay`) has passed.

**Fairness.**

* `BlockLifecycle!FairSpec`: weak fairness of the steps of a running cleanup, whose
  database and storage calls return. No backup, removal or clock step is fair.
  `CleanupTerminates` rests on finitely many versions: the code selects until no
  candidate is left, and an endless stream of removals would feed it. It is checked
  without crashes; in the model a `clean` that dies and is started for ever can
  keep putting `cleanup` back.
* `Locking!LockFairSpec`: a method that was called goes on; `Close` is strongly fair,
  because every entry point runs in `with Benji(...)`, whose exit calls it, however
  many other methods come before. `Released` is checked without a failing `close`:
  `unlock_all` swallows errors and the rows stay.
* `JobExecutor!PoolFairSpec`: threads are scheduled, jobs end, and a caller inside a
  method goes on. What the program does between calls is not fair.
* `IoModules!Spec`: the caller, the threads of the executor and those of librbd go on
  while any of them can. This is weaker than fairness of each; it is enough because
  every step but `Shrink` (which happens once) brings the job nearer to its end.

## 4. Proofs

TLAPS proves the following for every value of the constants.

* `TypeCorrect`, `Invariance`, `DanglingOnlyIfRashAlways`, `ValidIsCompleteAlways`.
  `DanglingOnlyIfRash` is not inductive: whether a removal is harmless depends on
  what uncommitted sessions did. `IndInv` adds that an uncommitted row is young
  (`PendYoung`), that a uid it names either has a committed reference, never lost
  one, or lost one after the transaction began (`PendBacked`), and that candidates
  and hits have lost a reference (`CandidatesLost`). If the last loss is more than `Dt`
  before the cleanup began then, with `CommitWindow <= Dt`, no session can hold the
  uid any more (`HitsUnused`), so removing it leaves nothing dangling.
  `FreshUnused` says that a uid not yet recorded has never been referenced, and
  `Recorded`, for `ValidIsComplete`, that each block read is right in the rows its
  session sees or has its write under way.
* `MetadataGoesAlways`, under the hypothesis that no lock is overridden
  (`"override" \notin Fault`; with it a removal can overtake the backup that writes the
  object). `LockedMeta` adds that a backup that runs holds the lock of its version and
  the version is there, so a removal waits until the object is written.
* `LockInvariance`, `Exclusion`, `OwnReleases`. `LockInv` adds to exclusion that on
  a name nobody overrode the row names the process inside, and that a process about
  to delete a row still owns it and is no longer inside.
  These theorems are at the end of `BackupGroupsProofs`, with the other rows that
  several processes write.
* `PermitsAlwaysAccounted`, `OutstandingAlwaysBounded`, at the end of
  `VerificationProofs`. `PermitsAccounted` is itself inductive: free permits and
  holders add up to the limit, in both modes. The bound follows by cardinality.
* `VerificationInvariance`, `ValidAlwaysEarned`, `RestoresAreHonest`,
  `FlagsAreEarned`. `VerificationInv` adds what the job of a version implies about it
  (`JobsFit`), that uids in use have objects (`UidsHaveObjects`), and that
  a restore under way has been honest so far. The last two theorems assume
  `NoKeyFaults`, without which they fail (2.4).
* `Invariant`, `ExactlyOnce`, `LocksReleased`, `ExpiredRemoved`, for any length of day,
  window and hour with two windows and an hour in a day. `OnceEach` needs
  `CountsRight`: outside the blurred minutes a volume is counted, or will be by the
  run under way, exactly if its job is due before the next run (`Upcoming`), or that
  run has failed. The selected window is `Upcoming` when the run starts (`CountsRun`), and a minute
  that passes leaves both (`CountsTick`). `LocksRight` relates the rows to the task, and
  `ExpiryRight` says that what expires today is gone once the first expiry run of the
  day was, or has been refused.
* `GroupsInvariance`, `DeletionsLeaveNothing`. `GroupsInv` adds to
  `NothingIsLeftBehind` the types of the job rows and what each thread has in its
  hands (`ThreadsFit`). The argument: a deletion that commits
  removes every row of its job or group; one that looked up its job before another
  was made is refused by the foreign key and keeps the group and its jobs.
* `OneJobPerGroupAlways`, `PolicyRunsDailyAlways`, `GroupIsAsAskedAlways`,
  `GroupIsCoveredAlways`, each from `GroupsInv` and an invariant of its own. `SingleInv`:
  a request that found no job and has not made its own is alone and still right.
  `PolicyInv`: what an update is about to write fits the policy the job has by then.
  `MembersInv`: while volumes are added, those there are the ones asked for but for
  those still to come and the rows the next commit deletes; with `PendInv`, by which
  uncommitted deletions are in the hands of one thread. `CoveredInv`: a group whose
  volumes are not all there has no job, one request at most makes a job, it started
  from all the volumes, and what it has added is what is not left to add.
* `ControlPlaneFits`: `Fits` has the types of rows, requests and tasks and the foreign
  key by which a version has its storage (`KeysHold`). From it come
  `IncompleteIsPendingAlways`, which is inductive with it, and three more invariants.
  `VolumeMatchesRowAlways` by `VolumeInv`: a storage that nothing was loosened of has
  one request at most, row and volume differ by the part of it that is done
  (`Underway`), and no volume is stray (`Bare`), so that one that is made has the
  size that was asked for. `UseIsKnownAlways` and `QuotaIsKeptAlways` by `UseInv`: what a thread
  has measured and not recorded is still what is stored, and nothing is stored where
  there is no volume. `OvercommitIsKnownAlways` by `OverInv`: a sum that was queried
  and not recorded is still the sum (`Summed`), and the requests of a node are the
  only ones for their storages (`Sole`).
* `AccountsInvariance`, `AnsweredIsDoneAlways`, `LockedOutAlways`,
  `PagesAreWholeAlways`, `OthersNeedRankAlways`, `MissesFollowRefusalsAlways`.
  `AccountsInv` says that names are unique, that a transaction open between two
  calls was left so by a refusal (`CallsFit`), that a request that saw its user active
  began before he was locked (`SessionsFit`), and what a client at a page can count on
  (`WalkFit`): of the rows that were there at the start, those he has not read and that
  are not on the pages ahead of him are no more than went or moved, and the rows he has
  read and that are ahead of him again, with those he has seen twice, are no more than
  came or moved (`Balance`). A row that leaves its place shifts those behind it by one,
  so that one at most slips to the pages already read (`AfterWithout`); one that takes
  a place pushes one at most to those ahead (`AfterWith`). After the last page nothing
  is ahead, which is the property.
* `StorageObjectsProofs!Invariance`, `ObjectsArePaired`, `RegularStore`. The first part
  of the module is about data alone: a chain of transforms puts layer on layer and its
  metadata takes the same layers off again (`Encapsulate`, `Decapsulate`), by the
  induction stated for a set of numbers (`Inductive`, from the well-foundedness of the
  order, since the provers instantiate no theorem with a predicate as parameter); so `Decode` returns what was written when
  both objects are of one write, and never the content of somebody else when they are
  not. `IInv` says where a call of each kind can be (`Places`), that calls for one key
  overlap only as the code lets them (`Apart`, `Contests`), that a uid is written once
  and named by a row after that (`Uids`, `Ids`), that a block with a row is what one
  write stored, as far as it is still there (`Kept`), what the cache holds (`Cached`),
  and what a call has seen (`Sights`). `Alone` is what a call relies on while no other
  works on its key: a write past its first object still has it there, a removal past
  the first has seen the key unreadable. `Whole` is the same for keys that nothing
  went wrong with, from which `NoHalfObjects` follows. For the refinement, `content[k]`
  is what a read would return now; a step on one object is a `Change` when a reader
  can tell, else a stutter or a `Trouble`, and the end of every call is a `Finish`
  with an outcome that store allows, which is where `Alone`, `Kept` and `Cached` are
  used.
* `IoModulesProofs!Invariance`, `OwnReads`, `RestoredVersion`, `FailureHasCause`,
  `QuietAfterClose`. `Control` relates the calling thread to the job it does. By
  `Places` a block a loop has asked for is in exactly one of the queue, the requests
  in flight, the completions and the caller's results, and while the loop goes on
  none is lost; with `Counts`, two counters that agree at the end mean that every
  block was answered. `Frames` is why the variable shared by the callbacks of
  `rbdaio` does no harm: whenever the queue of reads is not empty, all its permits
  are out but one at most, so a call of `_submit_aio_reads` starts one request.
  `Answers` and `Causes` say what an answer is about and why one may be an error.
  `Media` says that the target is the one that was opened, with the zeros of the sparse blocks and the
  data of the others laid over it as far as they have been answered, in any order;
  at the end of the loop over the sparse blocks that is where the loop over the
  data begins, and at the end of that one it is `Expected` (`Endings`).

What the proofs found, beyond the bounds of the runs, and what was changed for it:

* two requests for one storage on different nodes: the second one takes the
  overcommitment of its own node too (`Contest`), which one node in TLC does not show;
* a storage deleted while a thread has measured its use and not recorded it: the
  next storage of that user gets the old number (`UnmapStorage` loosens it);
* a volume that another job has is left out of a job, and the group is not covered
  when that other job is deleted; six requests are needed to see it. On the other
  hand `GroupIsCovered` does not depend on the volumes being those asked for, and no
  longer has that premise;
* a special value that is also a name, a number or a row would be taken for one: the
  assumptions on the constants now exclude it;
* with two calls on one version under an overridden lock, a write may report success
  although what it wrote was never readable as a whole: one call puts its data between
  the two objects of the other, and each overwrites what the other left. The promise of
  `ObjectStore` said otherwise, which more calls than the run makes refute; it now
  leaves the outcome of such calls open (`contested`);
* the open actions of `IoModules` had alternatives whose conditions overlap, of which
  a `CASE` may take either: they are disjuncts with conditions of their own now.

Assumptions: the named `ASSUME`s of the modules, which say that the constants have
their types, that the special values are distinct from each other and from the values
they stand beside (`None` and `Gone`; `NoRow`, `NoUser`, `NoNode`; `None`, `Garbled` and
names, numbers, contents and objects), that the scenes `Accounts` begins with obey the unique columns of the
tables, that `CommitWindow <= Dt`, and that two windows and an hour fit into a day.

Only model-checked: the liveness properties (`CleanupTerminates`, `Released`,
`CallsReturn`, `ShutdownCompletes`, `JobEnds`), which need fairness and are out of
the prover's reach. Every safety invariant, every action property and the refinement
that the runs check are theorems.

## 5. Order of work

Blocks, locks, jobs, verification and scheduling came first, with their proofs; then
the storage layer with its refinement, the control plane, the groups, the IO modules
and the accounts. Then came the proofs, in the order of what others rely on: the
control plane, the groups and the accounts, the storage layer, and the IO modules.
Worth adding next: the two hazards of `PROJECT.json` without a property, once the code
keeps what its comments say; the requests that change rows no other part depends on.

## 6. Not modelled

* The NBD server and `BenjiStore`. `create_cow_version` calls `Version.create` with
  arguments it does not have, so no copy-on-write version is ever made. What was
  seen in reading it: a second client that opens a version is refused by an error
  whose `finally` releases the lock of the first; reads behind the end of a version
  raise `AttributeError`, where the comment at `benji.py:1453` speaks of zeros.
* The retention filter: `enforce_retention_policy` reads `version.date`, which
  versions do not have in this fork. Import of metadata reads columns that do
  not exist. `backup` of `commands.py` calls a function with arguments it does not
  have.
* The arithmetic of hints and partial blocks: data without interleaving; its outcome
  is an input of `IoModules`.
* Device and cloud I/O, encryption, compression and gRPC transport (libraries);
  parsing of arguments and filter expressions, configuration, schemas, notifications,
  logging, formatting: no state and no ordering.
* Requests that change names, descriptions, labels, hosts or the protection of a version: no
  other part depends on them, but for `protected`, which only refuses removals.
