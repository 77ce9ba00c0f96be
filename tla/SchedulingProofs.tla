-------------------------- MODULE SchedulingProofs --------------------------
(***************************************************************************)
(* Proofs about Scheduling, for any length of day, window and hour.  The   *)
(* invariant compares the count of a volume with the occurrences between   *)
(* the current minute and the next run; the windows of consecutive runs    *)
(* meet, so a minute leaves the one when it enters the past.               *)
(***************************************************************************)
EXTENDS Scheduling, TLAPS

\* What the rows of schedule_job hold.
LEMMA RowTypes ==
    ASSUME TypeOK, NEW j \in Job
    PROVE  /\ job[j].start \in Nat /\ job[j].start <= Day
           /\ job[j].days \in SUBSET Weekday
           /\ job[j].keep \in SUBSET (Nat \ {0})
<1>1. job[j] \in [start : Starts, days : DaySets, keep : Retentions]
  BY DEF TypeOK, Row
<1>2. job[j].start \in Starts /\ job[j].days \in DaySets /\ job[j].keep \in Retentions
  BY <1>1
<1>3. job[j].start \in 0..Day
  BY <1>2, JobAssumption
<1>4. job[j].days \in SUBSET Weekday /\ job[j].keep \in SUBSET (Nat \ {0})
  BY <1>2, JobAssumption
<1> QED
  BY <1>3, <1>4, TimeAssumption

\* The days a version can expire on come after the current one.
LEMMA ExpiryAhead ==
    ASSUME TypeOK, NEW j \in Job, NEW d \in ExpiresAt(j)
    PROVE  d \in Nat /\ d > today
<1>1. PICK n \in job[j].keep : d = today + n
  BY DEF ExpiresAt
<1>2. n \in Nat \ {0}
  BY <1>1, RowTypes
<1> QED
  BY <1>1, <1>2 DEF TypeOK

\* Every step keeps the types.
LEMMA TypeStep == TypeOK /\ LocksRight /\ [Next]_vars => TypeOK'
<1> SUFFICES ASSUME TypeOK, LocksRight, [Next]_vars PROVE TypeOK'
  OBVIOUS
<1>1. CASE RunScheduleJob
  <2>1. todo' \subseteq Job /\ beat' \in 0..Window
    BY <1>1, TimeAssumption DEF RunScheduleJob
  <2> QED
    BY <1>1, <2>1 DEF TypeOK, RunScheduleJob, rowVars, clockVars, lockVars
<1>2. CASE UnlockJob
  BY <1>2 DEF TypeOK, UnlockJob, Leave, rowVars, clockVars
<1>3. CASE EndRun
  BY <1>3 DEF TypeOK, EndRun, Leave, rowVars, clockVars
<1>4. CASE Kill \/ Crash
  BY <1>4 DEF TypeOK, Kill, Crash, rowVars, clockVars
<1>5. ASSUME NEW j \in Job, SkipJob(j) PROVE TypeOK'
  BY <1>5 DEF TypeOK, SkipJob, rowVars, clockVars, lockVars
<1>6. ASSUME NEW j \in Job, LockJob(j) PROVE TypeOK'
  BY <1>6 DEF TypeOK, LockJob, Leave, VolumesOf, rowVars, clockVars
<1>7. ASSUME NEW v \in Volume, StartVolume(v) \/ FailVolume(v) PROVE TypeOK'
  <2>1. cur \in Job
    BY <1>7 DEF LocksRight, StartVolume, FailVolume
  <2>2. expiry' \subseteq Nat
    BY <1>7, <2>1, ExpiryAhead DEF TypeOK, StartVolume, FailVolume
  <2>3. count' \in [Volume -> Nat] /\ left' \subseteq Volume
    BY <1>7 DEF TypeOK, StartVolume, FailVolume
  <2>4. CASE StartVolume(v)
    BY <2>2, <2>3, <2>4 DEF TypeOK, StartVolume, rowVars, clockVars, lockVars
  <2>5. CASE FailVolume(v)
    BY <2>2, <2>3, <2>5 DEF TypeOK, FailVolume, rowVars, clockVars, lockVars
  <2> QED
    BY <1>7, <2>4, <2>5
<1>8. CASE DeleteExpiredVersions
  <2>1. hour' \in 0..Hour
    BY <1>8, TimeAssumption DEF DeleteExpiredVersions
  <2> QED
    BY <1>8, <2>1 DEF TypeOK, DeleteExpiredVersions, rowVars, clockVars, taskVars
<1>9. CASE Tick
  <2>1. count' \in [Volume -> Nat]
    BY <1>9 DEF TypeOK, Tick
  <2>2. /\ today' \in Nat /\ weekday' \in Weekday /\ minute' \in 0..(Day - 1)
        /\ beat' \in 0..Window /\ hour' \in 0..Hour
    BY <1>9, TimeAssumption DEF TypeOK, Tick, Weekday, After
  <2> QED
    BY <1>9, <2>1, <2>2 DEF TypeOK, Tick, rowVars, taskVars, lockVars
<1>10. CASE UNCHANGED vars
  BY <1>10 DEF TypeOK, vars, rowVars, clockVars, taskVars, lockVars
<1> QED
  BY <1>1, <1>2, <1>3, <1>4, <1>5, <1>6, <1>7, <1>8, <1>9, <1>10 DEF Next

\* Every step keeps the relation between the task and the rows of "locks".
LEMMA LocksStep == TypeOK /\ LocksRight /\ [Next]_vars => LocksRight'
<1> SUFFICES ASSUME TypeOK, LocksRight, [Next]_vars PROVE LocksRight'
  OBVIOUS
<1> USE DEF LocksRight
<1>1. CASE RunScheduleJob
  BY <1>1 DEF RunScheduleJob, rowVars, lockVars
<1>2. CASE UnlockJob
  BY <1>2 DEF UnlockJob, Leave, rowVars
<1>3. CASE EndRun
  BY <1>3 DEF EndRun, Leave, rowVars
<1>4. CASE Kill \/ Crash
  BY <1>4 DEF Kill, Crash, rowVars
<1>5. ASSUME NEW j \in Job, SkipJob(j) PROVE LocksRight'
  BY <1>5 DEF SkipJob, rowVars, lockVars
<1>6. ASSUME NEW j \in Job, LockJob(j) PROVE LocksRight'
  BY <1>6 DEF LockJob, Leave, VolumesOf, rowVars
<1>7. ASSUME NEW v \in Volume, StartVolume(v) \/ FailVolume(v) PROVE LocksRight'
  BY <1>7 DEF StartVolume, FailVolume, rowVars, lockVars
<1>8. CASE DeleteExpiredVersions
  BY <1>8 DEF DeleteExpiredVersions, rowVars, taskVars
<1>9. CASE Tick
  BY <1>9 DEF Tick, rowVars, taskVars, lockVars
<1>10. CASE UNCHANGED vars
  BY <1>10 DEF vars, rowVars, taskVars, lockVars
<1> QED
  BY <1>1, <1>2, <1>3, <1>4, <1>5, <1>6, <1>7, <1>8, <1>9, <1>10 DEF Next

\* Every step keeps the days of expiry in the future, or in the part of today
\* that the next run of delete_expired_versions reaches.
LEMMA ExpiryStep == TypeOK /\ LocksRight /\ ExpiryRight /\ [Next]_vars => ExpiryRight'
<1> SUFFICES ASSUME TypeOK, LocksRight, ExpiryRight, [Next]_vars PROVE ExpiryRight'
  OBVIOUS
<1>1. ASSUME NEW v \in Volume, StartVolume(v) \/ FailVolume(v) PROVE ExpiryRight'
  <2>1. cur \in Job
    BY <1>1 DEF LocksRight, StartVolume, FailVolume
  <2>2. \A d \in expiry' : d \in expiry \/ d > today
    BY <1>1, <2>1, ExpiryAhead DEF StartVolume, FailVolume
  <2>3. UNCHANGED <<today, minute, hour, refused>>
    BY <1>1 DEF StartVolume, FailVolume, clockVars
  <2> QED
    BY <2>2, <2>3 DEF ExpiryRight
<1>2. CASE DeleteExpiredVersions
  <2>1. UNCHANGED <<today, minute>> /\ expiry' \subseteq expiry /\ refused \subseteq refused'
    BY <1>2 DEF DeleteExpiredVersions, clockVars
  <2>2. today \in refused' \/ today \notin expiry'
    BY <1>2 DEF DeleteExpiredVersions
  <2> QED
    BY <2>1, <2>2 DEF ExpiryRight
<1>3. CASE Tick
  <2> SUFFICES ASSUME NEW d \in expiry, d \notin refused
               PROVE  d > today' \/ (d = today' /\ minute' + hour' < Hour)
    BY <1>3 DEF ExpiryRight, Tick
  <2>1. d \in Nat /\ (d > today \/ (d = today /\ minute + hour < Hour))
    BY DEF ExpiryRight, TypeOK
  <2>2. /\ minute \in 0..(Day - 1) /\ hour \in 0..Hour /\ hour > 0 /\ hour' = hour - 1
        /\ today \in Nat
    BY <1>3 DEF Tick, TypeOK
  <2>3. CASE minute + 1 = Day
    BY <1>3, <2>1, <2>2, <2>3, TimeAssumption DEF Tick
  <2>4. CASE minute + 1 # Day
    BY <1>3, <2>1, <2>2, <2>4, TimeAssumption DEF Tick
  <2> QED
    BY <2>3, <2>4
<1>4. CASE UNCHANGED <<today, minute, hour, expiry, refused>>
  BY <1>4 DEF ExpiryRight
<1>5. ASSUME NEW j \in Job, SkipJob(j) \/ LockJob(j) PROVE ExpiryRight'
  BY <1>4, <1>5 DEF SkipJob, LockJob, clockVars
<1>6. CASE RunScheduleJob \/ UnlockJob \/ EndRun \/ Kill \/ Crash \/ UNCHANGED vars
  BY <1>4, <1>6 DEF RunScheduleJob, UnlockJob, EndRun, Kill, Crash, vars, clockVars
<1> QED
  BY <1>1, <1>2, <1>3, <1>5, <1>6 DEF Next

\* A step that leaves the clock and the rows alone changes what is counted of a
\* volume only through the count, the task and its failure.
LEMMA SameWindow ==
    ASSUME NEW j, UNCHANGED <<job, minute, weekday, beat>>
    PROVE  /\ Upcoming(j)' = Upcoming(j)
           /\ Blurred(j)' = Blurred(j)
  BY DEF Upcoming, Blurred, After

\* run_schedule_job selects, outside the blurred minutes, the jobs that are due
\* before it is sent again.
LEMMA CountsRun ==
    ASSUME TypeOK, LocksRight, Offset = 0, RunScheduleJob,
           NEW v \in Volume, NEW j \in Job, jobOf[v] = j, job[j].start < Day,
           CountedOnce(v, j)
    PROVE  CountedOnce(v, j)'
<1> DEFINE s == job[j].start
           D == job[j].days
<1>1. /\ s \in Nat /\ s < Day /\ minute \in 0..(Day - 1) /\ weekday \in 0..6
      /\ count[v] \in Nat
    BY RowTypes DEF TypeOK, Weekday
<1>2. /\ beat = 0 /\ beat' = Window /\ task = "idle" /\ task' = "run"
      /\ UNCHANGED <<job, jobOf, minute, weekday, count, left>>
    BY DEF RunScheduleJob, rowVars, clockVars
<1>3. ~Upcoming(j) /\ ~Pending(v)
    BY <1>1, <1>2, TimeAssumption DEF Upcoming, Pending
<1>4. Pending(v)' <=> Due(j)
    BY <1>2 DEF Pending, RunScheduleJob
<1>5. Blurred(j) => Blurred(j)'
    BY <1>1, <1>2, TimeAssumption DEF Blurred
<1>6. MachineDay = weekday
    BY <1>1 DEF MachineDay
<1>7. ASSUME ~Blurred(j)' \/ 1 \notin D, Due(j) PROVE Upcoming(j)'
    BY <1>1, <1>2, <1>6, <1>7, TimeAssumption DEF Blurred, Due, NextDay, Upcoming, After
<1>8. ASSUME ~Blurred(j)', Upcoming(j)' PROVE Due(j)
    BY <1>1, <1>2, <1>6, <1>8, TimeAssumption DEF Blurred, Due, NextDay, Upcoming, After
<1>9. ~Blurred(j)' \/ 1 \notin D => count[v] <= 1 /\ count[v] # 1
    BY <1>3, <1>5 DEF CountedOnce
<1> HIDE DEF s, D
<1> QED
    BY <1>2, <1>4, <1>7, <1>8, <1>9 DEF CountedOnce, D

\* A minute passes: the occurrence of this minute is counted, and forgotten.
LEMMA CountsTick ==
    ASSUME TypeOK, LocksRight, Tick,
           NEW v \in Volume, NEW j \in Job, jobOf[v] = j, job[j].start < Day,
           CountedOnce(v, j)
    PROVE  CountedOnce(v, j)'
<1> DEFINE s == job[j].start
           D == job[j].days
<1>1. /\ s \in Nat /\ s < Day /\ minute \in 0..(Day - 1) /\ weekday \in 0..6
      /\ count[v] \in Nat /\ beat \in 1..Window
    BY RowTypes, TimeAssumption DEF TypeOK, Weekday, Tick
<1>2. /\ task = "idle" /\ beat' = beat - 1
      /\ UNCHANGED <<job, jobOf, task, todo, left, died>>
    BY DEF Tick, rowVars, taskVars
<1>3. ~Pending(v) /\ ~Pending(v)'
    BY <1>2 DEF Pending
<1>4. count'[v] = IF weekday \in D /\ s = minute THEN 0 ELSE count[v]
    BY <1>1, TimeAssumption DEF Tick, DueNow
<1>5. \/ /\ minute + 1 = Day /\ minute' = 0 /\ weekday' = After(weekday)
      \/ /\ minute + 1 < Day /\ minute' = minute + 1 /\ weekday' = weekday
    BY <1>1, TimeAssumption DEF Tick
<1>6. Blurred(j) /\ ~Blurred(j)' => weekday = 1 /\ s = minute
    BY <1>1, <1>2, <1>5, TimeAssumption DEF Blurred, After
<1>7. Upcoming(j)' => Upcoming(j)
    BY <1>1, <1>2, <1>5, TimeAssumption DEF Upcoming, After
<1>8. Upcoming(j) /\ ~Upcoming(j)' => weekday \in D /\ s = minute
    BY <1>1, <1>2, <1>5, TimeAssumption DEF Upcoming, After
<1>9. weekday \in D /\ s = minute => ~Upcoming(j)'
    BY <1>1, <1>2, <1>5, TimeAssumption DEF Upcoming, After
<1>10. job'[j].days = D
    BY <1>2
<1>11. ASSUME ~Blurred(j)' \/ 1 \notin D
       PROVE  /\ count'[v] <= 1
              /\ count'[v] = 1 => Upcoming(j)'
  <2>1. CASE weekday \in D /\ s = minute
    BY <1>4, <2>1
  <2>2. CASE ~(weekday \in D /\ s = minute)
    <3>1. ~Blurred(j) \/ 1 \notin D
      BY <1>6, <1>11, <2>2
    <3> QED
      BY <1>4, <1>8, <2>2, <3>1 DEF CountedOnce
  <2> QED
    BY <2>1, <2>2
<1>12. ASSUME ~Blurred(j)', Upcoming(j)'
       PROVE  count'[v] = 1 \/ died'
  <2>1. ~(weekday \in D /\ s = minute)
    BY <1>9, <1>12
  <2>2. ~Blurred(j) /\ Upcoming(j)
    <3>1. CASE Blurred(j)
      <4>1. weekday = 1 /\ s = minute /\ 1 \notin D
        BY <1>6, <1>12, <2>1, <3>1
      <4>2. s + 1 < Window
        BY <3>1 DEF Blurred
      <4>3. ~(minute + beat > Day)
        BY <1>1, <4>1, <4>2, TimeAssumption
      <4>4. ~Upcoming(j)
        BY <4>1, <4>3 DEF Upcoming
      <4> QED
        BY <1>7, <1>12, <4>4
    <3> QED
      BY <1>7, <1>12, <3>1
  <2> QED
    BY <1>2, <1>3, <1>4, <2>1, <2>2 DEF CountedOnce
<1> HIDE DEF s, D
<1> QED
    BY <1>3, <1>10, <1>11, <1>12 DEF CountedOnce

\* The work of a task on its jobs and their volumes, between two minutes.
LEMMA CountsWork ==
    ASSUME TypeOK, LocksRight,
           UNCHANGED <<job, jobOf, minute, weekday, beat>>,
           NEW v \in Volume, NEW j \in Job, jobOf[v] = j,
           CountedOnce(v, j),
           \/ UNCHANGED count /\ Pending(v)' = Pending(v)
           \/ count'[v] = count[v] + 1 /\ Pending(v) /\ ~Pending(v)'
           \/ UNCHANGED count /\ ~Pending(v)' /\ died',
           died => died'
    PROVE  CountedOnce(v, j)'
<1>1. Upcoming(j)' = Upcoming(j) /\ Blurred(j)' = Blurred(j)
  BY SameWindow
<1>2. count[v] \in Nat
  BY DEF TypeOK
<1> QED
  BY <1>1, <1>2 DEF CountedOnce

\* Every step counts an occurrence at most once, and none is forgotten.
LEMMA CountsStep ==
    TypeOK /\ LocksRight /\ CountsRight /\ [Next]_vars => CountsRight'
<1> SUFFICES ASSUME TypeOK, LocksRight, CountsRight, [Next]_vars, Offset = 0,
                    NEW v \in Volume, jobOf'[v] \in Job, job'[jobOf'[v]].start < Day
             PROVE  CountedOnce(v, jobOf[v])' 
  BY DEF CountsRight
<1>1. UNCHANGED <<job, jobOf>>
  BY DEF Next, RunScheduleJob, SkipJob, LockJob, StartVolume, FailVolume, UnlockJob,
         EndRun, Kill, Crash, DeleteExpiredVersions, Tick, vars, rowVars
<1>2. PICK j \in Job : jobOf[v] = j /\ jobOf'[v] = j
  BY <1>1
<1>3. job[j].start < Day /\ CountedOnce(v, j)
  BY <1>1, <1>2 DEF CountsRight
<1> SUFFICES CountedOnce(v, j)'
  BY <1>2
<1>4. CASE RunScheduleJob
  BY <1>2, <1>3, <1>4, CountsRun
<1>5. CASE Tick
  BY <1>2, <1>3, <1>5, CountsTick
<1>6. ASSUME UNCHANGED <<minute, weekday, beat>>,
             \/ UNCHANGED count /\ Pending(v)' = Pending(v)
             \/ count'[v] = count[v] + 1 /\ Pending(v) /\ ~Pending(v)'
             \/ UNCHANGED count /\ ~Pending(v)' /\ died',
             died => died'
      PROVE  CountedOnce(v, j)'
  BY <1>1, <1>2, <1>3, <1>6, CountsWork
<1>7. ASSUME NEW i \in Job, SkipJob(i) PROVE CountedOnce(v, j)'
  <2>1. Pending(v)' = Pending(v)
    BY <1>2, <1>7 DEF SkipJob, Pending, VolumesOf
  <2> QED
    BY <1>6, <1>7, <2>1 DEF SkipJob, clockVars
<1>8. ASSUME NEW i \in Job, LockJob(i) PROVE CountedOnce(v, j)'
  <2>1. CASE i \notin locks \cup stale
    <3>1. Pending(v)' = Pending(v)
      BY <1>2, <1>8, <2>1 DEF LockJob, Pending, VolumesOf
    <3> QED
      BY <1>6, <1>8, <3>1 DEF LockJob, clockVars
  <2>2. CASE i \in locks \cup stale
    <3>1. ~Pending(v)' /\ died'
      BY <1>8, <2>2 DEF LockJob, Leave, Pending
    <3> QED
      BY <1>6, <1>8, <3>1 DEF LockJob, clockVars
  <2> QED
    BY <2>1, <2>2
<1>9. ASSUME NEW w \in Volume, StartVolume(w) PROVE CountedOnce(v, j)'
  <2>1. CASE w = v
    <3>1. Pending(v) /\ ~Pending(v)'
      BY <1>2, <1>9, <2>1 DEF StartVolume, Pending, LocksRight, rowVars
    <3>2. count'[v] = count[v] + 1
      BY <1>9, <2>1 DEF StartVolume, TypeOK
    <3> QED
      BY <1>6, <1>9, <3>1, <3>2 DEF StartVolume, clockVars
  <2>2. CASE w # v
    <3>1. Pending(v)' = Pending(v) /\ count'[v] = count[v]
      BY <1>2, <1>9, <2>2 DEF StartVolume, Pending, TypeOK
    <3>2. UNCHANGED <<minute, weekday, beat, died>>
      BY <1>9 DEF StartVolume, clockVars
    <3>3. Upcoming(j)' = Upcoming(j) /\ Blurred(j)' = Blurred(j)
      BY <1>1, <3>2, SameWindow
    <3> QED
      BY <1>1, <1>3, <3>1, <3>2, <3>3 DEF CountedOnce
  <2> QED
    BY <2>1, <2>2
<1>10. ASSUME NEW w \in Volume, FailVolume(w) PROVE CountedOnce(v, j)'
  <2>1. UNCHANGED count /\ (Pending(v)' = Pending(v) \/ ~Pending(v)') /\ died'
    BY <1>2, <1>10 DEF FailVolume, Pending
  <2> QED
    BY <1>6, <1>10, <2>1 DEF FailVolume, clockVars
<1>11. CASE Kill \/ Crash
  <2>1. UNCHANGED count /\ ~Pending(v)' /\ died'
    BY <1>11 DEF Kill, Crash, Pending
  <2> QED
    BY <1>6, <1>11, <2>1 DEF Kill, Crash, clockVars
<1>12. CASE UnlockJob
  <2>1. CASE cur \in locks
    <3>1. Pending(v)' = Pending(v)
      BY <1>2, <1>12, <2>1 DEF UnlockJob, Pending
    <3> QED
      BY <1>6, <1>12, <2>1, <3>1 DEF UnlockJob, clockVars
  <2>2. CASE cur \notin locks
    <3>1. ~Pending(v)' /\ died'
      BY <1>12, <2>2 DEF UnlockJob, Leave, Pending
    <3> QED
      BY <1>6, <1>12, <3>1 DEF UnlockJob, clockVars
  <2> QED
    BY <2>1, <2>2
<1>13. CASE EndRun \/ DeleteExpiredVersions \/ UNCHANGED vars
  <2>1. Pending(v)' = Pending(v)
    BY <1>2, <1>13 DEF EndRun, Leave, DeleteExpiredVersions, LocksRight, Pending, vars,
                       rowVars, taskVars
  <2> QED
    BY <1>6, <1>13, <2>1 DEF EndRun, DeleteExpiredVersions, vars, clockVars
<1> QED
  BY <1>4, <1>5, <1>7, <1>8, <1>9, <1>10, <1>11, <1>12, <1>13 DEF Next

-----------------------------------------------------------------------------

\* The invariant: types, counts against the next occurrences, locks against the
\* task under way, and days of expiry against the clock of the tasks.
THEOREM Invariant == Spec => []SchedulingInv
<1>1. Init => SchedulingInv
  <2> SUFFICES ASSUME Init PROVE SchedulingInv
    OBVIOUS
  <2>1. TypeOK
    <3>1. today \in Nat /\ beat \in 0..Window /\ hour \in 0..Hour
      BY TimeAssumption DEF Init
    <3>2. count \in [Volume -> Nat]
      BY DEF Init
    <3>3. died \in BOOLEAN
      BY Zenon DEF Init
    <3> QED
      BY <3>1, <3>2, <3>3 DEF Init, TypeOK
  <2>2. LocksRight /\ ExpiryRight
    BY DEF Init, LocksRight, ExpiryRight
  <2>3. ASSUME NEW v \in Volume, jobOf[v] \in Job, job[jobOf[v]].start < Day
        PROVE  CountedOnce(v, jobOf[v])
    <3>1. job[jobOf[v]].start \in Nat /\ minute \in 0..(Day - 1)
      BY <2>1, <2>3, RowTypes DEF TypeOK
    <3>2. ~Upcoming(jobOf[v]) /\ ~Pending(v) /\ count[v] = 0
      BY <3>1, TimeAssumption DEF Init, Upcoming, Pending
    <3> QED
      BY <3>2 DEF CountedOnce
  <2> QED
    BY <2>1, <2>2, <2>3 DEF SchedulingInv, CountsRight
<1>2. SchedulingInv /\ [Next]_vars => SchedulingInv'
  BY TypeStep, LocksStep, ExpiryStep, CountsStep DEF SchedulingInv
<1> QED
  BY <1>1, <1>2, PTL DEF Spec

\* Whatever the length of the day and of the window, consecutive windows of
\* run_schedule_job handle a volume once for each regular occurrence of its job.
THEOREM ExactlyOnce == Spec => OnceEach
<1> DEFINE Once == \A v \in Volume : Passes(v) /\ Regular(jobOf[v]) =>
                        count[v] = 1 \/ (count[v] = 0 /\ died)
<1>1. SchedulingInv /\ [Next]_vars => [Once]_vars
  <2> SUFFICES ASSUME SchedulingInv, [Next]_vars,
                      NEW v \in Volume, Passes(v), Regular(jobOf[v])
               PROVE  count[v] = 1 \/ (count[v] = 0 /\ died)
    OBVIOUS
  <2>1. beat > 0 /\ task = "idle"
    BY DEF Passes, Next, RunScheduleJob, SkipJob, LockJob, StartVolume, FailVolume,
           UnlockJob, EndRun, Kill, Crash, DeleteExpiredVersions, Tick, vars, clockVars
  <2>2. PICK j \in Job : jobOf[v] = j
    BY DEF Passes
  <2>3. CountedOnce(v, j)
    BY <2>2 DEF SchedulingInv, CountsRight, Regular
  <2>4. /\ job[j].start \in Nat /\ minute \in 0..(Day - 1) /\ beat \in 1..Window
        /\ count[v] \in Nat
    BY <2>1, <2>2, RowTypes DEF SchedulingInv, TypeOK
  <2>5. job[j].start < Day /\ job[j].start = minute /\ weekday \in job[j].days
    BY <2>2, <2>4 DEF Passes, DueNow, Regular
  <2>6. ~Pending(v)
    BY <2>1 DEF Pending
  <2>7. Upcoming(j)
    BY <2>4, <2>5 DEF Upcoming
  <2>8. ~Blurred(j)
    BY <2>2, <2>4, <2>5, TimeAssumption DEF Blurred, Regular
  <2> QED
    BY <2>3, <2>4, <2>6, <2>7, <2>8 DEF CountedOnce
<1> QED
  BY <1>1, Invariant, PTL DEF Spec, OnceEach

\* Every path of run_schedule_job that does not die releases its lock: rows are
\* left by the dead only.
THEOREM LocksReleased == Spec => []LocksLeftByTheDead
<1>1. SchedulingInv => LocksLeftByTheDead
  BY DEF SchedulingInv, LocksRight, LocksLeftByTheDead
<1> QED
  BY <1>1, Invariant, PTL

\* The hourly runs of delete_expired_versions miss no day.
THEOREM ExpiredRemoved == Spec => []NoneOutlives
<1>1. SchedulingInv => NoneOutlives
  BY DEF SchedulingInv, ExpiryRight, NoneOutlives, TypeOK
<1> QED
  BY <1>1, Invariant, PTL

=============================================================================
