----------------------------- MODULE Scheduling -----------------------------
(***************************************************************************)
(* Scheduled backups and their expiry: the Celery tasks run_schedule_job   *)
(* and delete_expired_versions (tasks/schedule_job.py), which Celery beat  *)
(* sends every Window and every Hour minutes, over the rows that           *)
(* create_schedule_job and update_schedule_job have accepted.              *)
(*                                                                         *)
(* The clock is the local time of get_local_time(), in minutes.  The       *)
(* weekday comes from another clock: today() is the date of the machine,   *)
(* which may be Offset minutes behind.                                     *)
(*                                                                         *)
(* The tasks run in forked children of one Celery worker.  _process_id()   *)
(* is computed from a uuid made before the fork and the id of the main     *)
(* thread, so to the table "locks" the children are one process: the       *)
(* unlock_all() at the end of a task removes the rows of all of them.      *)
(***************************************************************************)
EXTENDS Naturals

CONSTANTS
    Job,        \* rows of schedule_job
    Volume,     \* volumes that are backed up
    Day,        \* minutes of a day: 1440
    Window,     \* minutes between two runs of run_schedule_job: 10
    Hour,       \* minutes between two runs of delete_expired_versions: 60
    Offset,     \* how far the machine's time zone is behind the local time
    Starts,     \* start times of jobs, of those the controllers accept
    DaySets,    \* days_of_week of jobs
    Retentions, \* sets of days after which versions of a job may expire
    MaxDay,     \* bound on the number of days
    Fault,      \* what goes wrong: the worker or a child dies ("crash", "kill"),
                \* a backup cannot be sent ("broker"), a version not removed ("rm")
    NoJob       \* no job: of a volume, or under work

Faults == {"crash", "kill", "broker", "rm"}
Weekday == 0..6

ASSUME TimeAssumption ==
    /\ Day \in Nat /\ Window \in Nat /\ Hour \in Nat /\ Offset \in Nat
    /\ 0 < Window /\ 2 * Window <= Day /\ 0 < Hour /\ Hour <= Day
    /\ MaxDay \in Nat
ASSUME JobAssumption ==
    /\ Starts \subseteq 0..Day /\ DaySets \subseteq SUBSET Weekday
    /\ Retentions \subseteq SUBSET (Nat \ {0})
    /\ Fault \subseteq Faults /\ NoJob \notin Job

VARIABLES
    job,       \* schedule_job: start_time, days_of_week and retention
    jobOf,     \* volume_schedule_job: the job of a volume
    today,     \* number of the day
    weekday,   \* the weekday of the local time, 0 is Monday
    minute,    \* the minute of the day
    beat,      \* minutes until run_schedule_job is sent
    hour,      \* minutes until delete_expired_versions is sent
    task,      \* what run_schedule_job is doing
    todo,      \* jobs it has selected and not handled
    cur,       \* the job it works on
    left,      \* volumes of that job it has not handled
    locks,     \* jobs with a row in the table "locks" that belongs to the worker
    stale,     \* jobs with a row of a worker that has died
    expiry,    \* days on which versions expire that are in the database
    refused,   \* history: days on which versions could not be removed
    count,     \* history: how often a volume was handled since it was last due
    died,      \* history: the last run has died or failed
    orphans    \* history: rows in locks that belonged to a child that died

rowVars == <<job, jobOf>>
clockVars == <<today, weekday, minute>>
taskVars == <<task, todo, cur, left>>
lockVars == <<locks, stale, orphans>>
vars == <<rowVars, clockVars, beat, hour, taskVars, lockVars, expiry, refused, count, died>>

Row == [start : Starts, days : DaySets, keep : Retentions]

TypeOK ==
    /\ job \in [Job -> Row]
    /\ jobOf \in [Volume -> Job \cup {NoJob}]
    /\ today \in Nat /\ weekday \in Weekday /\ minute \in 0..(Day - 1)
    /\ beat \in 0..Window /\ hour \in 0..Hour
    /\ task \in {"idle", "run", "job"}
    /\ todo \subseteq Job /\ cur \in Job \cup {NoJob} /\ left \subseteq Volume
    /\ locks \subseteq Job /\ stale \subseteq Job /\ orphans \subseteq Job
    /\ expiry \subseteq Nat /\ refused \subseteq Nat
    /\ count \in [Volume -> Nat]
    /\ died \in BOOLEAN

VolumesOf(j) == {v \in Volume : jobOf[v] = j}

-----------------------------------------------------------------------------
(* run_schedule_job.                                                       *)

Before(d) == IF d = 0 THEN 6 ELSE d - 1
After(d) == IF d = 6 THEN 0 ELSE d + 1

\* _now.today().weekday(): today() is a class method and asks the machine.
MachineDay == IF minute < Offset THEN Before(weekday) ELSE weekday

\* The day whose jobs are selected for the minutes after midnight.  On Sunday
\* the weekday is set to 0 before 1 is added.
NextDay(d) == IF d >= 6 THEN 1 ELSE d + 1

\* Mutant: the last minute of the window is left out.
Due_ShortWindow(j) ==
    LET end == minute + Window - 1
    IN  \/ /\ job[j].start >= minute /\ job[j].start < end /\ job[j].start < Day
           /\ MachineDay \in job[j].days
        \/ /\ end > Day /\ job[j].start < end - Day
           /\ NextDay(MachineDay) \in job[j].days

\* The two queries: jobs of today that start in this window, and jobs of the
\* next day if the window reaches over midnight.
Due(j) ==
    LET end == minute + Window
    IN  \/ /\ job[j].start >= minute /\ job[j].start < end /\ job[j].start < Day
           /\ MachineDay \in job[j].days
        \/ /\ end > Day /\ job[j].start < end - Day
           /\ NextDay(MachineDay) \in job[j].days

\* The task is sent and selects its jobs.
RunScheduleJob ==
    /\ beat = 0 /\ task = "idle"
    /\ todo' = {j \in Job : Due(j)}
    /\ task' = "run"
    /\ beat' = Window
    /\ died' = FALSE
    /\ UNCHANGED <<rowVars, clockVars, hour, cur, left, lockVars, expiry, refused, count>>

\* A job without volumes is passed over.
SkipJob(j) ==
    /\ task = "run" /\ j \in todo /\ VolumesOf(j) = {}
    /\ todo' = todo \ {j}
    /\ UNCHANGED <<rowVars, clockVars, beat, hour, task, cur, left, lockVars,
                   expiry, refused, count, died>>

\* The run ends and leaves "with Benji": unlock_all() removes what rows there are.
Leave ==
    /\ task' = "idle" /\ todo' = {} /\ cur' = NoJob /\ left' = {}
    /\ locks' = {} /\ orphans' = {}
    /\ UNCHANGED stale

\* Locking.lock() for a job.  It is outside the try block: when the row exists,
\* the exception ends the task and the jobs that come after it are not run.
LockJob(j) ==
    /\ task = "run" /\ j \in todo /\ VolumesOf(j) # {}
    /\ \/ /\ j \notin locks \cup stale
          /\ locks' = locks \cup {j}
          /\ task' = "job" /\ cur' = j /\ left' = VolumesOf(j)
          /\ todo' = todo \ {j}
          /\ UNCHANGED <<stale, orphans, died>>
       \/ /\ j \in locks \cup stale
          /\ Leave /\ died' = TRUE
    /\ UNCHANGED <<rowVars, clockVars, beat, hour, expiry, refused, count>>

\* The days do_check_gfs() may let a version of the job expire, if it is made now:
\* after the retention of the job, or 8 days, 5 weeks or 2 months if that is -1.
ExpiresAt(j) == {today + n : n \in job[j].keep}

\* One volume: its version is created and its backup is sent to a node, or it is
\* passed over because disk_used has reached disk_allowed.
StartVolume(v) ==
    /\ task = "job" /\ v \in left
    /\ left' = left \ {v}
    /\ count' = [count EXCEPT ![v] = @ + 1]
    /\ expiry' \in {expiry} \cup {expiry \cup {d} : d \in ExpiresAt(cur)}
    /\ UNCHANGED <<rowVars, clockVars, beat, hour, task, todo, cur, lockVars, refused, died>>

\* The version cannot be created or its backup not be sent: the exception is
\* logged and the rest of the volumes is not handled.
FailVolume(v) ==
    /\ "broker" \in Fault
    /\ task = "job" /\ v \in left
    /\ left' = {}
    /\ expiry' \in {expiry} \cup {expiry \cup {d} : d \in ExpiresAt(cur)}
    /\ died' = TRUE
    /\ UNCHANGED <<rowVars, clockVars, beat, hour, task, todo, cur, lockVars, refused, count>>

\* Mutant: the lock of the job is kept.
UnlockJob_Keeps ==
    /\ task = "job" /\ left = {}
    /\ task' = "run" /\ cur' = NoJob
    /\ UNCHANGED <<rowVars, clockVars, beat, hour, todo, left, lockVars, expiry,
                   refused, count, died>>

\* The finally clause.  If another task has removed the row, unlock() raises and
\* the jobs that are left are not run.
UnlockJob ==
    /\ task = "job" /\ left = {}
    /\ \/ /\ cur \in locks
          /\ locks' = locks \ {cur}
          /\ task' = "run" /\ cur' = NoJob
          /\ UNCHANGED <<todo, left, stale, orphans, died>>
       \/ /\ cur \notin locks
          /\ Leave /\ died' = TRUE
    /\ UNCHANGED <<rowVars, clockVars, beat, hour, expiry, refused, count>>

\* No job is left.
EndRun ==
    /\ task = "run" /\ todo = {}
    /\ Leave
    /\ UNCHANGED <<rowVars, clockVars, beat, hour, expiry, refused, count, died>>

\* The child that runs the task dies, and the row stays until some task ends.
Kill ==
    /\ "kill" \in Fault
    /\ task # "idle"
    /\ task' = "idle" /\ todo' = {} /\ cur' = NoJob /\ left' = {}
    /\ died' = TRUE /\ orphans' = locks
    /\ UNCHANGED <<rowVars, clockVars, beat, hour, locks, stale, expiry, refused, count>>

\* The worker dies with its children.  Its rows stay, as the next one has another
\* uuid, and no run overrides them.
Crash ==
    /\ "crash" \in Fault
    /\ task # "idle"
    /\ task' = "idle" /\ todo' = {} /\ cur' = NoJob /\ left' = {}
    /\ died' = TRUE
    /\ stale' = stale \cup locks /\ locks' = {} /\ orphans' = {}
    /\ UNCHANGED <<rowVars, clockVars, beat, hour, expiry, refused, count>>

-----------------------------------------------------------------------------
(* Expiry and time.                                                        *)

\* Mutant: versions are removed the day after they expire.
DeleteExpiredVersions_DayAfter ==
    /\ hour = 0
    /\ hour' = Hour
    /\ expiry' = {d \in expiry : d + 1 # today}
    /\ locks' = {} /\ orphans' = {}
    /\ UNCHANGED <<rowVars, clockVars, beat, taskVars, stale, refused, count, died>>

\* The versions that expire today are removed; a removal that fails (its version
\* is locked, its storage cannot be reached) is only logged.  unlock_all() at the
\* end also takes the row of a run under way in another child.
DeleteExpiredVersions ==
    /\ hour = 0
    /\ hour' = Hour
    /\ \/ expiry' = expiry \ {today} /\ UNCHANGED refused
       \/ /\ "rm" \in Fault /\ today \in expiry
          /\ refused' = refused \cup {today} /\ UNCHANGED expiry
    /\ locks' = {} /\ orphans' = {}
    /\ UNCHANGED <<rowVars, clockVars, beat, taskVars, stale, count, died>>

\* Job j is due in the current minute.  A start time of Day is midnight.
DueNow(j) ==
    /\ weekday \in job[j].days
    /\ job[j].start = minute \/ (job[j].start = Day /\ minute = Day - 1)

\* A minute passes.  Tasks are started when they are sent and end within the
\* minute.
Tick ==
    /\ beat > 0 /\ hour > 0 /\ task = "idle"
    /\ today + 1 < MaxDay \/ minute + 1 < Day
    /\ minute' = IF minute + 1 = Day THEN 0 ELSE minute + 1
    /\ weekday' = IF minute + 1 = Day THEN After(weekday) ELSE weekday
    /\ today' = IF minute + 1 = Day THEN today + 1 ELSE today
    /\ beat' = beat - 1 /\ hour' = hour - 1
    /\ count' = [v \in Volume |->
                    IF jobOf[v] \in Job /\ DueNow(jobOf[v]) THEN 0 ELSE count[v]]
    /\ UNCHANGED <<rowVars, taskVars, lockVars, expiry, refused, died>>

-----------------------------------------------------------------------------

Init ==
    /\ job \in [Job -> Row]
    /\ jobOf \in [Volume -> Job \cup {NoJob}]
    /\ today = 0 /\ weekday \in Weekday /\ minute \in 0..(Day - 1)
    /\ beat = 0 /\ hour = 0
    /\ task = "idle" /\ todo = {} /\ cur = NoJob /\ left = {}
    /\ locks = {} /\ expiry = {} /\ refused = {}
    /\ count = [v \in Volume |-> 0]
    /\ died = FALSE /\ stale = {} /\ orphans = {}

Next ==
    \/ RunScheduleJob \/ UnlockJob \/ EndRun \/ Kill \/ Crash
    \/ \E j \in Job : SkipJob(j) \/ LockJob(j)
    \/ \E v \in Volume : StartVolume(v) \/ FailVolume(v)
    \/ DeleteExpiredVersions \/ Tick

Spec == Init /\ [][Next]_vars

-----------------------------------------------------------------------------
(* Properties.                                                             *)

\* The minute of an occurrence of the job of v passes in this step.
Passes(v) == minute' # minute /\ jobOf[v] \in Job /\ DueNow(jobOf[v])

(* The minutes run_schedule_job gets right.  Not among them are 1440, and   *)
(* the minutes after midnight on Monday, which Sunday's window leaves out,  *)
(* and on Tuesday, which it takes instead.  The machine must have the local *)
(* time zone.                                                               *)
Regular(j) ==
    /\ Offset = 0
    /\ job[j].start < Day
    /\ job[j].start + 1 < Window => weekday \notin {0, 1}

(* A volume is handled exactly once for every occurrence of its job, however *)
(* the windows of run_schedule_job fall on the day and across midnight.  It  *)
(* is missed only when that run died or ended with an exception, and it is   *)
(* never handled twice, whatever happens to runs and their locks.            *)
OnceEach ==
    [][\A v \in Volume : Passes(v) /\ Regular(jobOf[v]) =>
            count[v] = 1 \/ (count[v] = 0 /\ died)]_vars

(* Only dead workers and children leave locks behind: between two jobs and   *)
(* between two runs the worker owns no other row, since the finally clause   *)
(* of run_schedule_job releases the lock on every other path.                *)
LocksLeftByTheDead ==
    task # "job" => locks = orphans

(* No version outlives the day on which it expires, unless a removal failed  *)
(* on that very day: delete_expired_versions looks for versions that expire  *)
(* on the current day only, and its runs must not miss a day.                *)
NoneOutlives ==
    \A d \in expiry : d >= today \/ d \in refused

-----------------------------------------------------------------------------
(* The inductive invariant.                                                *)

\* The task under way will still come to v.
Pending(v) ==
    \/ task \in {"run", "job"} /\ jobOf[v] \in todo
    \/ task = "job" /\ v \in left

\* Job j is due before run_schedule_job is sent again.
Upcoming(j) ==
    \/ /\ job[j].start >= minute /\ job[j].start < minute + beat /\ job[j].start < Day
       /\ weekday \in job[j].days
    \/ /\ minute + beat > Day /\ job[j].start < minute + beat - Day
       /\ After(weekday) \in job[j].days

\* From the run that reaches over Sunday's midnight until the occurrence on
\* Tuesday the count of a job in these minutes says nothing.
Blurred(j) ==
    /\ job[j].start + 1 < Window
    /\ \/ weekday = 6 /\ minute + beat > Day
       \/ weekday = 0
       \/ weekday = 1 /\ minute <= job[j].start

\* What has been counted, or is pending, is the occurrence that comes next, and
\* it is counted once.
CountedOnce(v, j) ==
    /\ ~Blurred(j) \/ 1 \notin job[j].days =>
        /\ count[v] <= 1
        /\ count[v] = 1 => Upcoming(j) /\ ~Pending(v)
        /\ Pending(v) => Upcoming(j)
    /\ ~Blurred(j) /\ Upcoming(j) => count[v] = 1 \/ Pending(v) \/ died

CountsRight ==
    Offset = 0 => \A v \in Volume :
        jobOf[v] \in Job /\ job[jobOf[v]].start < Day => CountedOnce(v, jobOf[v])

\* Rows are those of the dead and that of the job under work, unless the end of
\* another task has removed it.
LocksRight ==
    /\ task = "idle" => todo = {}
    /\ task # "job" => locks = orphans /\ left = {}
    /\ task = "job" => /\ cur \in Job \ (stale \cup orphans \cup todo)
                       /\ locks \in {orphans, orphans \cup {cur}}
                       /\ \A v \in left : jobOf[v] = cur

\* Versions that expire today go in the first run of the day.
ExpiryRight ==
    \A d \in expiry :
        \/ d > today
        \/ d = today /\ minute + hour < Hour
        \/ d \in refused

SchedulingInv == TypeOK /\ CountsRight /\ LocksRight /\ ExpiryRight
=============================================================================
