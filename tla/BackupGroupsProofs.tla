------------------------- MODULE BackupGroupsProofs -------------------------
(***************************************************************************)
(* What the requests on groups and jobs leave behind, for any number of    *)
(* volumes, groups, jobs and threads: deletions leave nothing, a group has *)
(* one job, its volumes are those asked for and its job has them, and a    *)
(* job with a policy runs daily.  The end of the module is about the other *)
(* rows that several processes write at a time, the locks (Locking).       *)
(***************************************************************************)
EXTENDS BackupGroups, Locking, FiniteSetTheorems, TLAPS

Facts == {"members", "covered", "single", "days"} \X (Group \cup Job)

\* A step that changes what one thread has in its hands, and at most the history,
\* keeps the invariant.
LEMMA ThreadStep ==
    ASSUME GroupsInv, NEW t \in Thread, NEW q \in Requests,
           th' = [th EXCEPT ![t] = q],
           q.op \in {"members", "delete", "job"} => q.group \in Group,
           q.op = "group" /\ q.pc = "volume" => q.group \in Group,
           q.op = "job" => q.gfs \in BOOLEAN,
           q.op = "job" /\ q.pc = "volume" => q.job \in Job,
           q.op = "policy" => q.job \in Job
    PROVE  th' \in [Thread -> Requests] /\ ThreadsFit'
<1>1. th' \in [Thread -> Requests]
  BY DEF GroupsInv
<1>2. ASSUME NEW s \in Thread, s # t
      PROVE  th'[s] = th[s]
  BY <1>2 DEF GroupsInv
<1>3. th'[t] = q
  BY DEF GroupsInv
<1>4. QED
  BY <1>1, <1>2, <1>3 DEF GroupsInv, ThreadsFit

LEMMA IdleFits == Idle \in Requests /\ Idle.op = "none"
  BY DEF Idle, Requests

\* The requests: they are admitted or refused and change no row, but for
\* delete_schedule_job.
LEMMA RequestStep ==
    ASSUME GroupsInv, NEW t \in Thread, GroupRequests(t) \/ JobRequests(t)
    PROVE  GroupsInv'
<1> USE BackupGroupsAssumption, IdleFits
<1>1. ASSUME NEW vols \in SUBSET Volume, CreateGroup(t, vols)
      PROVE  GroupsInv'
  <2>1. [Idle EXCEPT !.op = "group", !.todo = vols, !.pc = "commit"] \in Requests
    BY DEF Idle, Requests
  <2>2. th' \in [Thread -> Requests] /\ ThreadsFit'
    BY <1>1, <2>1, ThreadStep DEF CreateGroup, Ask, Idle
  <2>3. QED
    BY <1>1, <2>2 DEF CreateGroup, GroupsInv, NothingIsLeftBehind, TypeOK, Live, groups, jobs
<1>2. ASSUME NEW g \in Group, NEW vols \in SUBSET Volume, UpdateGroup(t, g, vols)
      PROVE  GroupsInv'
  <2>1. [Idle EXCEPT !.op = "members", !.group = g, !.todo = vols, !.pc = "replace"] \in Requests
    BY DEF Idle, Requests
  <2>2. th' \in [Thread -> Requests] /\ ThreadsFit'
    BY <1>2, <2>1, ThreadStep DEF UpdateGroup, Ask, Idle
  <2>3. loose' \subseteq Facts
    BY <1>2 DEF UpdateGroup, GroupsInv, NothingIsLeftBehind, TypeOK, Facts
  <2>4. QED
    BY <1>2, <2>2, <2>3 DEF UpdateGroup, GroupsInv, NothingIsLeftBehind, TypeOK, Live, groups, jobs, Facts
<1>3. ASSUME NEW g \in Group, DeleteGroup(t, g)
      PROVE  GroupsInv'
  <2>1. PICK j \in Job \cup {None} :
           Ask(t, [Idle EXCEPT !.op = "delete", !.group = g, !.job = j, !.pc = "commit"])
    BY <1>3 DEF DeleteGroup, JobsOf
  <2>2. [Idle EXCEPT !.op = "delete", !.group = g, !.job = j, !.pc = "commit"] \in Requests
    BY DEF Idle, Requests
  <2>3. th' \in [Thread -> Requests] /\ ThreadsFit'
    BY <2>1, <2>2, ThreadStep DEF Ask, Idle
  <2>4. QED
    BY <1>3, <2>3 DEF DeleteGroup, GroupsInv, NothingIsLeftBehind, TypeOK, Live, groups, jobs
<1>4. ASSUME BackupNow(t)
      PROVE  GroupsInv'
  <2>1. th' \in [Thread -> Requests] /\ ThreadsFit'
    BY <1>4, ThreadStep DEF BackupNow, Ask
  <2>2. QED
    BY <1>4, <2>1 DEF BackupNow, GroupsInv, NothingIsLeftBehind, TypeOK, Live, groups, jobs
<1>5. ASSUME NEW g \in Group, NEW gfs \in BOOLEAN, CreateJob(t, g, gfs)
      PROVE  GroupsInv'
  <2> DEFINE q == [Idle EXCEPT !.op = "job", !.group = g, !.todo = Members(g), !.gfs = gfs,
                               !.days = IF gfs THEN "all" ELSE "some", !.pc = "commit"]
  <2>1. q \in Requests /\ q.op = "job" /\ q.group = g /\ q.gfs = gfs /\ q.pc = "commit"
    BY DEF Idle, Requests, Members
  <2>2. th' = [th EXCEPT ![t] = q]
    BY <1>5 DEF CreateJob, Ask
  <2> HIDE DEF q
  <2>3. th' \in [Thread -> Requests] /\ ThreadsFit'
    BY <2>1, <2>2, ThreadStep
  <2>4. loose' \subseteq Facts
    BY <1>5 DEF CreateJob, GroupsInv, NothingIsLeftBehind, TypeOK, Facts
  <2>5. QED
    BY <1>5, <2>3, <2>4 DEF CreateJob, GroupsInv, NothingIsLeftBehind, TypeOK, Live, groups, jobs, Facts
<1>6. ASSUME NEW j \in Job, NEW gfs \in BOOLEAN \cup {None}, NEW days \in {None, "some"},
             UpdateJob(t, j, gfs, days)
      PROVE  GroupsInv'
  <2>1. PICK d \in {"some", "all"} :
           Ask(t, [Idle EXCEPT !.op = "policy", !.job = j, !.gfs = gfs, !.days = d, !.pc = "commit"])
    BY <1>6 DEF UpdateJob
  <2>2. [Idle EXCEPT !.op = "policy", !.job = j, !.gfs = gfs, !.days = d, !.pc = "commit"] \in Requests
    BY DEF Idle, Requests
  <2>3. th' \in [Thread -> Requests] /\ ThreadsFit'
    BY <2>1, <2>2, ThreadStep DEF Ask, Idle
  <2>4. loose' \subseteq Facts
    BY <1>6 DEF UpdateJob, GroupsInv, NothingIsLeftBehind, TypeOK, Facts
  <2>5. QED
    BY <1>6, <2>3, <2>4 DEF UpdateJob, GroupsInv, NothingIsLeftBehind, TypeOK, Live, groups, jobs, Facts
<1>7. ASSUME NEW j \in Job, DeleteJob(t, j)
      PROVE  GroupsInv'
  <2>1. th' \in [Thread -> Requests] /\ ThreadsFit'
    BY <1>7, ThreadStep DEF DeleteJob, Ask
  <2>2. TypeOK' /\ job' \in [Job -> JobRow \cup {None, Gone}]
    BY <1>7 DEF DeleteJob, GroupsInv, NothingIsLeftBehind, TypeOK, groups
  <2>3. ASSUME NEW v \in Volume, jvol'[v] # None
        PROVE  Live(jvol[v])'
    BY <1>7, <2>3 DEF DeleteJob, GroupsInv, NothingIsLeftBehind, TypeOK, Live
  <2>4. ASSUME NEW i \in Job, Live(i)'
        PROVE  group'[job'[i].group] = "live"
    BY <1>7, <2>4 DEF DeleteJob, GroupsInv, NothingIsLeftBehind, TypeOK, Live, groups
  <2>5. QED
    BY <1>7, <2>1, <2>2, <2>3, <2>4 DEF DeleteJob, GroupsInv, NothingIsLeftBehind, Live, groups
<1>8. QED
  BY <1>1, <1>2, <1>3, <1>4, <1>5, <1>6, <1>7 DEF GroupRequests, JobRequests

\* The steps of VolumeGroupModel.create and update: a row of a volume names a group
\* that is there when the row is committed.
LEMMA VolumeStep ==
    ASSUME GroupsInv, NEW t \in Thread,
           CommitGroup(t) \/ ReplaceVolumes(t) \/ AddVolume(t) \/ RaiseVolume(t) \/ EndGroup(t)
    PROVE  GroupsInv'
<1> USE BackupGroupsAssumption, IdleFits
<1>a. th[t] \in Requests
  BY DEF GroupsInv
<1>1. CASE CommitGroup(t)
  <2>1. PICK g \in Group : /\ group[g] = "new"
                           /\ group' = [group EXCEPT ![g] = "live"]
                           /\ th' = [th EXCEPT ![t].group = g, ![t].pc = "volume"]
    BY <1>1 DEF CommitGroup
  <2> DEFINE q == [th[t] EXCEPT !.group = g, !.pc = "volume"]
  <2>2. q \in Requests /\ q.op = "group" /\ q.group = g
    BY <1>1, <1>a DEF Requests, CommitGroup, At
  <2>3. th' = [th EXCEPT ![t] = q]
    BY <2>1 DEF GroupsInv
  <2> HIDE DEF q
  <2>4. th' \in [Thread -> Requests] /\ ThreadsFit'
    BY <2>2, <2>3, ThreadStep
  <2>5. QED
    BY <1>1, <2>1, <2>4 DEF CommitGroup, GroupsInv, NothingIsLeftBehind, TypeOK, Live, jobs, JobRow
<1>2. CASE ReplaceVolumes(t)
  <2> DEFINE q == [th[t] EXCEPT !.pc = "volume"]
  <2>1. q \in Requests /\ q.op = "members" /\ q.group \in Group
    BY <1>2, <1>a DEF Requests, ReplaceVolumes, At, GroupsInv, ThreadsFit
  <2>2. th' = [th EXCEPT ![t] = q]
    BY <1>2 DEF ReplaceVolumes, Goto
  <2> HIDE DEF q
  <2>3. th' \in [Thread -> Requests] /\ ThreadsFit'
    BY <2>1, <2>2, ThreadStep
  <2>4. QED
    BY <1>2, <2>3 DEF ReplaceVolumes, Members, GroupsInv, NothingIsLeftBehind, TypeOK, Live, jobs
<1>3. CASE AddVolume(t)
  <2>1. th[t].group \in Group
    BY <1>3 DEF AddVolume, GroupsInv, ThreadsFit
  <2>2. PICK v \in Volume :
           /\ IF group[th[t].group] = "live" /\ Left(t)[v] = None
              THEN gvol' = [Left(t) EXCEPT ![v] = th[t].group] /\ UNCHANGED loose
              ELSE loose' = loose \cup {<<"members", th[t].group>>} /\ UNCHANGED gvol
           /\ th' = [th EXCEPT ![t].todo = @ \ {v}]
    BY <1>3, <1>a DEF AddVolume, Requests
  <2> DEFINE q == [th[t] EXCEPT !.todo = @ \ {v}]
  <2>3. q \in Requests /\ q.op \in {"group", "members"} /\ q.group = th[t].group
    BY <1>3, <1>a DEF Requests, AddVolume
  <2>4. th' = [th EXCEPT ![t] = q]
    BY <2>2 DEF GroupsInv
  <2> HIDE DEF q
  <2>5. th' \in [Thread -> Requests] /\ ThreadsFit'
    BY <2>1, <2>3, <2>4, ThreadStep
  <2>6. /\ gvol' \in [Volume -> Group \cup {None}]
        /\ \A w \in Volume : gvol'[w] # None => group[gvol'[w]] = "live"
    BY <2>1, <2>2 DEF Left, GroupsInv, NothingIsLeftBehind, TypeOK
  <2>7. loose' \subseteq Facts
    BY <2>1, <2>2 DEF GroupsInv, NothingIsLeftBehind, TypeOK, Facts
  <2>8. pend' \in [Thread -> SUBSET Volume]
    BY <1>3 DEF AddVolume, Commit, GroupsInv, NothingIsLeftBehind, TypeOK
  <2>9. QED
    BY <1>3, <2>5, <2>6, <2>7, <2>8 DEF AddVolume, GroupsInv, NothingIsLeftBehind, TypeOK, Live, jobs, Facts
<1>4. CASE RaiseVolume(t)
  <2>1. th[t].group \in Group
    BY <1>4 DEF RaiseVolume, GroupsInv, ThreadsFit
  <2>2. th' \in [Thread -> Requests] /\ ThreadsFit'
    BY <1>4, ThreadStep DEF RaiseVolume, Done
  <2>3. /\ gvol' \in [Volume -> Group \cup {None}]
        /\ \A w \in Volume : gvol'[w] # None => group[gvol'[w]] = "live"
    BY <1>4 DEF RaiseVolume, Left, GroupsInv, NothingIsLeftBehind, TypeOK
  <2>4. loose' \subseteq Facts
    BY <1>4, <2>1 DEF RaiseVolume, GroupsInv, NothingIsLeftBehind, TypeOK, Facts
  <2>5. pend' \in [Thread -> SUBSET Volume]
    BY <1>4 DEF RaiseVolume, Commit, GroupsInv, NothingIsLeftBehind, TypeOK
  <2>6. QED
    BY <1>4, <2>2, <2>3, <2>4, <2>5 DEF RaiseVolume, GroupsInv, NothingIsLeftBehind, TypeOK, Live, jobs, Facts
<1>5. CASE EndGroup(t)
  <2>1. th' \in [Thread -> Requests] /\ ThreadsFit'
    BY <1>5, ThreadStep DEF EndGroup, Done
  <2>2. QED
    BY <1>5, <2>1 DEF EndGroup, GroupsInv, NothingIsLeftBehind, TypeOK, Live, groups, jobs
<1>6. QED
  BY <1>1, <1>2, <1>3, <1>4, <1>5

\* VolumeGroupModel.delete: the jobs of the group that exist when it is deleted
\* have no volumes but those that are deleted with them.
LEMMA DeleteStep ==
    ASSUME GroupsInv, NEW t \in Thread, CommitDeleteGroup(t)
    PROVE  GroupsInv'
<1> USE BackupGroupsAssumption, IdleFits
<1> DEFINE g == th[t].group
           doomed == Covered(th[t].job)
           Uncovered == [v \in Volume |-> IF v \in doomed /\ jvol[v] # None THEN None ELSE jvol[v]]
<1>1. g \in Group /\ doomed \subseteq Volume
  BY DEF CommitDeleteGroup, At, GroupsInv, ThreadsFit, Covered
<1>2. th' \in [Thread -> Requests] /\ ThreadsFit'
  BY ThreadStep DEF CommitDeleteGroup, Done
<1>3. Uncovered \in [Volume -> Job \cup {None}]
  BY DEF GroupsInv, NothingIsLeftBehind, TypeOK
<1>4. CASE group[g] = "live" /\ \A j \in JobsOf(g) : Covered(j) \subseteq doomed
  <2>1. /\ group' = [group EXCEPT ![g] = "gone"]
        /\ gvol' = [v \in Volume |-> IF gvol[v] = g THEN None ELSE gvol[v]]
        /\ job' = [j \in Job |-> IF j \in JobsOf(g) THEN Gone ELSE job[j]]
        /\ jvol' = Uncovered
        /\ UNCHANGED <<loose, pend>>
    BY <1>4 DEF CommitDeleteGroup
  <2>2. TypeOK' /\ job' \in [Job -> JobRow \cup {None, Gone}]
    BY <1>1, <1>3, <2>1 DEF GroupsInv, NothingIsLeftBehind, TypeOK
  <2>3. ASSUME NEW v \in Volume, gvol'[v] # None
        PROVE  group'[gvol'[v]] = "live"
    BY <1>1, <2>1, <2>3 DEF GroupsInv, NothingIsLeftBehind, TypeOK
  <2>4. ASSUME NEW v \in Volume, jvol'[v] # None
        PROVE  Live(jvol[v])'
    <3>1. jvol'[v] = jvol[v] /\ jvol[v] \in Job /\ v \notin doomed
      BY <2>1, <2>4 DEF GroupsInv, NothingIsLeftBehind, TypeOK
    <3>2. jvol[v] \notin JobsOf(g)
      BY <1>4, <3>1 DEF Covered
    <3>3. job'[jvol[v]] = job[jvol[v]] /\ Live(jvol[v])
      BY <2>1, <2>4, <3>1, <3>2 DEF GroupsInv, NothingIsLeftBehind
    <3>4. QED
      BY <3>1, <3>3 DEF Live
  <2>5. ASSUME NEW j \in Job, Live(j)'
        PROVE  group'[job'[j].group] = "live"
    <3>1. job'[j] = job[j] /\ j \notin JobsOf(g)
      BY <2>1, <2>5 DEF Live
    <3>2. Live(j) /\ job[j] \in JobRow /\ job[j].group # g
      BY <2>5, <3>1 DEF Live, JobsOf, GroupsInv
    <3>3. QED
      BY <1>1, <2>1, <3>1, <3>2 DEF GroupsInv, NothingIsLeftBehind, TypeOK, JobRow
  <2>6. QED
    BY <1>2, <2>2, <2>3, <2>4, <2>5 DEF GroupsInv, NothingIsLeftBehind, Live
<1>5. CASE ~ (group[g] = "live" /\ \A j \in JobsOf(g) : Covered(j) \subseteq doomed)
  <2>1. /\ jvol' \in {jvol, Uncovered}
        /\ loose' = loose \cup {<<"covered", g>>}
        /\ UNCHANGED <<group, gvol, job, pend>>
    BY <1>5 DEF CommitDeleteGroup
  <2>2. TypeOK'
    BY <1>1, <1>3, <2>1 DEF GroupsInv, NothingIsLeftBehind, TypeOK
  <2>3. ASSUME NEW v \in Volume, jvol'[v] # None
        PROVE  Live(jvol[v])'
    BY <2>1, <2>3 DEF GroupsInv, NothingIsLeftBehind, Live
  <2>4. QED
    BY <1>2, <2>1, <2>2, <2>3 DEF GroupsInv, NothingIsLeftBehind, Live
<1>6. QED
  BY <1>4, <1>5

\* The steps of ScheduleJobModel: a job names a group that is there when the row
\* is committed, and its policy changes only while the job is there.
LEMMA JobStep ==
    ASSUME GroupsInv, NEW t \in Thread, CommitJob(t) \/ AddJobVolume(t) \/ CommitPolicy(t)
    PROVE  GroupsInv'
<1> USE BackupGroupsAssumption, IdleFits
<1>a. th[t] \in Requests
  BY DEF GroupsInv
<1>1. CASE CommitJob(t)
  <2>1. th[t].op = "job" /\ th[t].group \in Group /\ th[t].gfs \in BOOLEAN
    BY <1>1 DEF CommitJob, At, GroupsInv, ThreadsFit
  <2>2. CASE group[th[t].group] = "live"
    <3> DEFINE r == [group |-> th[t].group, gfs |-> th[t].gfs, days |-> th[t].days]
    <3>1. r \in JobRow /\ r.group = th[t].group
      BY <1>a, <2>1 DEF JobRow, Requests
    <3>2. PICK j \in Job : /\ job[j] = None
                           /\ job' = [job EXCEPT ![j] = r]
                           /\ th' = [th EXCEPT ![t].job = j, ![t].pc = "volume"]
      BY <1>1, <2>2 DEF CommitJob
    <3> DEFINE q == [th[t] EXCEPT !.job = j, !.pc = "volume"]
    <3>3. q \in Requests /\ q.op = "job" /\ q.job = j /\ q.group = th[t].group /\ q.gfs = th[t].gfs
      BY <1>a, <2>1 DEF Requests
    <3>4. th' = [th EXCEPT ![t] = q]
      BY <3>2 DEF GroupsInv
    <3> HIDE DEF q, r
    <3>5. th' \in [Thread -> Requests] /\ ThreadsFit'
      BY <2>1, <3>3, <3>4, ThreadStep
    <3>6. QED
      BY <1>1, <2>2, <3>1, <3>2, <3>5 DEF CommitJob, GroupsInv, NothingIsLeftBehind, TypeOK, Live, groups
  <2>3. CASE group[th[t].group] # "live"
    <3>1. th' \in [Thread -> Requests] /\ ThreadsFit'
      BY <1>1, <2>3, ThreadStep DEF CommitJob, Done
    <3>2. QED
      BY <1>1, <2>3, <3>1 DEF CommitJob, GroupsInv, NothingIsLeftBehind, TypeOK, Live, groups
  <2>4. QED
    BY <2>2, <2>3
<1>2. CASE AddJobVolume(t)
  <2>1. th[t].op = "job" /\ th[t].job \in Job /\ th[t].group \in Group /\ th[t].gfs \in BOOLEAN
    BY <1>2 DEF AddJobVolume, At, GroupsInv, ThreadsFit
  <2>2. PICK v \in Volume :
           /\ jvol' = IF jvol[v] = None /\ Live(th[t].job) THEN [jvol EXCEPT ![v] = th[t].job] ELSE jvol
           /\ th' = [th EXCEPT ![t].todo = @ \ {v}]
    BY <1>2, <1>a DEF AddJobVolume, Requests
  <2> DEFINE q == [th[t] EXCEPT !.todo = @ \ {v}]
  <2>3. q \in Requests /\ q.op = "job" /\ q.group = th[t].group /\ q.job = th[t].job /\ q.gfs = th[t].gfs
    BY <1>a, <2>1 DEF Requests
  <2>4. th' = [th EXCEPT ![t] = q]
    BY <2>2 DEF GroupsInv
  <2> HIDE DEF q
  <2>5. th' \in [Thread -> Requests] /\ ThreadsFit'
    BY <2>1, <2>3, <2>4, ThreadStep
  <2>6. loose' \subseteq Facts
    BY <1>2, <2>1 DEF AddJobVolume, GroupsInv, NothingIsLeftBehind, TypeOK, Facts
  <2>7. QED
    BY <1>2, <2>1, <2>2, <2>5, <2>6 DEF AddJobVolume, GroupsInv, NothingIsLeftBehind, TypeOK, Live, groups, Facts
<1>3. CASE CommitPolicy(t)
  <2>1. th' \in [Thread -> Requests] /\ ThreadsFit'
    BY <1>3, ThreadStep DEF CommitPolicy, Done
  <2>2. th[t].job \in Job /\ th[t].days \in {"some", "all"} /\ th[t].gfs \in BOOLEAN \cup {None}
    BY <1>3, <1>a DEF CommitPolicy, At, GroupsInv, ThreadsFit, Requests
  <2>3. CASE Live(th[t].job)
    <3> DEFINE j == th[t].job
               r == [job[j] EXCEPT !.days = th[t].days,
                                   !.gfs = IF th[t].gfs = None THEN @ ELSE th[t].gfs]
    <3>1. job[j] \in JobRow
      BY <2>2, <2>3 DEF Live, GroupsInv
    <3>2. r \in JobRow /\ r.group = job[j].group
      BY <2>2, <3>1 DEF JobRow
    <3>3. job' = [job EXCEPT ![j] = r]
      BY <1>3, <2>2, <2>3 DEF CommitPolicy, GroupsInv
    <3> HIDE DEF r
    <3>4. QED
      BY <1>3, <2>1, <2>2, <2>3, <3>1, <3>2, <3>3
         DEF CommitPolicy, GroupsInv, NothingIsLeftBehind, TypeOK, Live, groups
  <2>4. CASE ~ Live(th[t].job)
    BY <1>3, <2>1, <2>4 DEF CommitPolicy, GroupsInv, NothingIsLeftBehind, TypeOK, Live, groups
  <2>5. QED
    BY <2>3, <2>4
<1>4. QED
  BY <1>1, <1>2, <1>3

\* What VolumeGroupModel and ScheduleJobModel keep, whatever requests overlap.
THEOREM GroupsInvariance == Spec => []GroupsInv
<1>1. Init => GroupsInv
  BY BackupGroupsAssumption, IdleFits
     DEF Init, GroupsInv, NothingIsLeftBehind, TypeOK, ThreadsFit, Live, JobRow
<1>2. GroupsInv /\ [Next]_vars => GroupsInv'
  <2> SUFFICES ASSUME GroupsInv, [Next]_vars
               PROVE  GroupsInv'
    OBVIOUS
  <2>1. ASSUME NEW t \in Thread, GroupRequests(t) \/ JobRequests(t) \/ Steps(t)
        PROVE  GroupsInv'
    BY <2>1, RequestStep, VolumeStep, DeleteStep, JobStep DEF Steps
  <2>2. CASE UNCHANGED vars
    BY <2>2 DEF vars, GroupsInv, NothingIsLeftBehind, TypeOK, ThreadsFit, Live
  <2>3. QED
    BY <2>1, <2>2 DEF Next
<1>3. QED
  BY <1>1, <1>2, PTL DEF Spec

\* The volumes of a group that is gone are free, and its jobs and their volumes are
\* gone with it (VolumeGroupModel.delete, ScheduleJobModel.delete).
THEOREM DeletionsLeaveNothing == Spec => []NothingIsLeftBehind
<1>1. GroupsInv => NothingIsLeftBehind
  BY DEF GroupsInv
<1>2. QED
  BY <1>1, GroupsInvariance, PTL

-----------------------------------------------------------------------------
(* Frames: what every step leaves alone.                                   *)

\* A step is one of one thread, and the history only grows.
LEMMA OneThread ==
    ASSUME GroupsInv, NEW t \in Thread, GroupRequests(t) \/ JobRequests(t) \/ Steps(t)
    PROVE  /\ \A s \in Thread \ {t} : th'[s] = th[s]
           /\ loose \subseteq loose'
<1> USE DEF GroupsInv
<1>1. CASE GroupRequests(t)
  BY <1>1 DEF GroupRequests, CreateGroup, UpdateGroup, DeleteGroup, BackupNow, Ask
<1>2. CASE JobRequests(t)
  BY <1>2 DEF JobRequests, CreateJob, UpdateJob, DeleteJob, Ask
<1>3. CASE CommitGroup(t) \/ ReplaceVolumes(t) \/ AddVolume(t) \/ RaiseVolume(t) \/ EndGroup(t)
  BY <1>3 DEF CommitGroup, ReplaceVolumes, AddVolume, RaiseVolume, EndGroup, Goto, Done
<1>4. CASE CommitDeleteGroup(t)
  BY <1>4 DEF CommitDeleteGroup, Done
<1>5. CASE CommitJob(t) \/ AddJobVolume(t) \/ CommitPolicy(t)
  BY <1>5 DEF CommitJob, AddJobVolume, CommitPolicy, Done
<1>6. QED
  BY <1>1, <1>2, <1>3, <1>4, <1>5 DEF Steps

\* The two steps that give a thread what it made.
LEMMA GroupTask ==
    ASSUME GroupsInv, NEW t \in Thread, CommitGroup(t)
    PROVE  \E g \in Group :
              /\ group[g] = "new"
              /\ group' = [group EXCEPT ![g] = "live"]
              /\ asked' = [asked EXCEPT ![g] = th[t].todo]
              /\ th'[t] = [th[t] EXCEPT !.group = g, !.pc = "volume"]
<1>1. PICK g \in Group :
         /\ group[g] = "new"
         /\ group' = [group EXCEPT ![g] = "live"]
         /\ asked' = [asked EXCEPT ![g] = th[t].todo]
         /\ th' = [th EXCEPT ![t].group = g, ![t].pc = "volume"]
  BY DEF CommitGroup
<1>2. th'[t] = [th[t] EXCEPT !.group = g, !.pc = "volume"]
  BY <1>1 DEF GroupsInv
<1>3. QED
  BY <1>1, <1>2

LEMMA JobTask ==
    ASSUME GroupsInv, NEW t \in Thread, CommitJob(t)
    PROVE  \/ group[th[t].group] # "live" /\ job' = job /\ th'[t] = Idle
           \/ \E j \in Job :
                 /\ job[j] = None /\ group[th[t].group] = "live"
                 /\ job' = [job EXCEPT ![j] =
                       [group |-> th[t].group, gfs |-> th[t].gfs, days |-> th[t].days]]
                 /\ th'[t] = [th[t] EXCEPT !.job = j, !.pc = "volume"]
<1>1. CASE group[th[t].group] # "live"
  BY <1>1 DEF CommitJob, Done, GroupsInv
<1>2. CASE group[th[t].group] = "live"
  <2>1. PICK j \in Job :
           /\ job[j] = None
           /\ job' = [job EXCEPT ![j] =
                 [group |-> th[t].group, gfs |-> th[t].gfs, days |-> th[t].days]]
           /\ th' = [th EXCEPT ![t].job = j, ![t].pc = "volume"]
    BY <1>2 DEF CommitJob
  <2>2. th'[t] = [th[t] EXCEPT !.job = j, !.pc = "volume"]
    BY <2>1 DEF GroupsInv
  <2>3. QED
    BY <1>2, <2>1, <2>2
<1>3. QED
  BY <1>1, <1>2

\* What the other steps leave in the hands of their thread.
LEMMA Tasks ==
    ASSUME GroupsInv, NEW t \in Thread
    PROVE  /\ \A vols \in SUBSET Volume : CreateGroup(t, vols) =>
                 th[t].op = "none" /\ th'[t].op = "group" /\ th'[t].pc = "commit" /\ th'[t].group = None
           /\ \A g \in Group, vols \in SUBSET Volume : UpdateGroup(t, g, vols) =>
                 /\ th[t].op = "none" /\ th'[t].op = "members" /\ th'[t].pc = "replace"
                 /\ th'[t].group = g /\ th'[t].todo = vols
           /\ \A g \in Group : DeleteGroup(t, g) =>
                 /\ th[t].op = "none" /\ th'[t].op = "delete" /\ th'[t].pc = "commit"
                 /\ th'[t].group = g /\ th'[t].job \in JobsOf(g) \cup {None}
           /\ \A g \in Group, gfs \in BOOLEAN : CreateJob(t, g, gfs) =>
                 /\ th[t].op = "none" /\ th'[t].op = "job" /\ th'[t].pc = "commit"
                 /\ th'[t].group = g /\ th'[t].todo = Members(g)
                 /\ th'[t].gfs = gfs /\ th'[t].days = IF gfs THEN "all" ELSE "some"
           /\ \A j \in Job, gfs \in BOOLEAN \cup {None}, days \in {None, "some"} : UpdateJob(t, j, gfs, days) =>
                 th[t].op = "none" /\ th'[t].op = "policy" /\ th'[t].job = j /\ th'[t].group = None
           /\ BackupNow(t) \/ (\E j \in Job : DeleteJob(t, j)) => th[t].op = "none" /\ th'[t] = Idle
           /\ RaiseVolume(t) \/ EndGroup(t) \/ CommitDeleteGroup(t) \/ CommitPolicy(t) =>
                 th[t].op # "none" /\ th'[t] = Idle
           /\ ReplaceVolumes(t) =>
                 /\ th[t].op = "members" /\ th[t].pc = "replace"
                 /\ th'[t].op = "members" /\ th'[t].pc = "volume"
                 /\ th'[t].group = th[t].group /\ th'[t].todo = th[t].todo
           /\ AddVolume(t) \/ AddJobVolume(t) =>
                 /\ th[t].op \in {"group", "members", "job"} /\ th[t].pc = "volume"
                 /\ th'[t].op = th[t].op /\ th'[t].pc = "volume"
                 /\ th'[t].group = th[t].group /\ th'[t].job = th[t].job
                 /\ th'[t].gfs = th[t].gfs /\ th'[t].days = th[t].days
<1> USE DEF GroupsInv
<1>a. th[t] \in Requests
  OBVIOUS
<1>1. ASSUME NEW vols \in SUBSET Volume, CreateGroup(t, vols)
      PROVE  th[t].op = "none" /\ th'[t].op = "group" /\ th'[t].pc = "commit" /\ th'[t].group = None
  BY <1>1 DEF CreateGroup, Ask, Idle
<1>2. ASSUME NEW g \in Group, NEW vols \in SUBSET Volume, UpdateGroup(t, g, vols)
      PROVE  /\ th[t].op = "none" /\ th'[t].op = "members" /\ th'[t].pc = "replace"
             /\ th'[t].group = g /\ th'[t].todo = vols
  BY <1>2 DEF UpdateGroup, Ask, Idle
<1>3. ASSUME NEW g \in Group, DeleteGroup(t, g)
      PROVE  /\ th[t].op = "none" /\ th'[t].op = "delete" /\ th'[t].pc = "commit"
             /\ th'[t].group = g /\ th'[t].job \in JobsOf(g) \cup {None}
  BY <1>3 DEF DeleteGroup, Ask, Idle
<1>4. ASSUME NEW g \in Group, NEW gfs \in BOOLEAN, CreateJob(t, g, gfs)
      PROVE  /\ th[t].op = "none" /\ th'[t].op = "job" /\ th'[t].pc = "commit"
             /\ th'[t].group = g /\ th'[t].todo = Members(g)
             /\ th'[t].gfs = gfs /\ th'[t].days = IF gfs THEN "all" ELSE "some"
  BY <1>4 DEF CreateJob, Ask, Idle
<1>5. ASSUME NEW j \in Job, NEW gfs \in BOOLEAN \cup {None}, NEW days \in {None, "some"},
             UpdateJob(t, j, gfs, days)
      PROVE  th[t].op = "none" /\ th'[t].op = "policy" /\ th'[t].job = j /\ th'[t].group = None
  BY <1>5 DEF UpdateJob, Ask, Idle
<1>6. BackupNow(t) \/ (\E j \in Job : DeleteJob(t, j)) => th[t].op = "none" /\ th'[t] = Idle
  BY DEF BackupNow, DeleteJob, Ask
<1>7. RaiseVolume(t) \/ EndGroup(t) \/ CommitDeleteGroup(t) \/ CommitPolicy(t) => th[t].op # "none" /\ th'[t] = Idle
  BY DEF RaiseVolume, EndGroup, CommitDeleteGroup, CommitPolicy, Done, At
<1>8. ASSUME ReplaceVolumes(t)
      PROVE  /\ th[t].op = "members" /\ th[t].pc = "replace"
             /\ th'[t].op = "members" /\ th'[t].pc = "volume"
             /\ th'[t].group = th[t].group /\ th'[t].todo = th[t].todo
  BY <1>a, <1>8 DEF ReplaceVolumes, Goto, At, Requests
<1>9. ASSUME AddVolume(t) \/ AddJobVolume(t)
      PROVE  /\ th[t].op \in {"group", "members", "job"} /\ th[t].pc = "volume"
             /\ th'[t].op = th[t].op /\ th'[t].pc = "volume"
             /\ th'[t].group = th[t].group /\ th'[t].job = th[t].job
             /\ th'[t].gfs = th[t].gfs /\ th'[t].days = th[t].days
  <2>1. th[t].op \in {"group", "members", "job"} /\ th[t].pc = "volume"
    BY <1>9 DEF AddVolume, AddJobVolume, At
  <2>2. PICK v : th' = [th EXCEPT ![t].todo = @ \ {v}]
    BY <1>9 DEF AddVolume, AddJobVolume
  <2>3. QED
    BY <1>a, <2>1, <2>2 DEF Requests
<1>10. QED
  BY <1>1, <1>2, <1>3, <1>4, <1>5, <1>6, <1>7, <1>8, <1>9

\* The steps that make no job: every live job was live before and keeps its group.
LEMMA NoNewJob ==
    ASSUME GroupsInv, NEW t \in Thread, GroupRequests(t) \/ JobRequests(t) \/ Steps(t), ~ CommitJob(t)
    PROVE  \A j \in Job : Live(j)' => Live(j) /\ job'[j].group = job[j].group
<1> USE BackupGroupsAssumption DEF GroupsInv, Live
<1>1. CASE GroupRequests(t)
  BY <1>1 DEF GroupRequests, CreateGroup, UpdateGroup, DeleteGroup, BackupNow, jobs
<1>2. CASE JobRequests(t)
  BY <1>2 DEF JobRequests, CreateJob, UpdateJob, DeleteJob, jobs
<1>3. CASE CommitGroup(t) \/ ReplaceVolumes(t) \/ AddVolume(t) \/ RaiseVolume(t) \/ EndGroup(t)
  BY <1>3 DEF CommitGroup, ReplaceVolumes, AddVolume, RaiseVolume, EndGroup, jobs
<1>4. CASE CommitDeleteGroup(t)
  BY <1>4 DEF CommitDeleteGroup
<1>5. CASE AddJobVolume(t)
  BY <1>5 DEF AddJobVolume
<1>6. CASE CommitPolicy(t)
  <2>1. th[t].job \in Job
    BY <1>6 DEF CommitPolicy, At, ThreadsFit
  <2>2. ASSUME NEW j \in Job, Live(j)'
        PROVE  Live(j) /\ job'[j].group = job[j].group
    <3>1. CASE j # th[t].job \/ ~ Live(th[t].job)
      BY <1>6, <2>1, <2>2, <3>1 DEF CommitPolicy
    <3>2. CASE j = th[t].job /\ Live(j)
      <4>1. job[j] \in JobRow
        BY <3>2
      <4>2. QED
        BY <1>6, <3>2, <4>1 DEF CommitPolicy, JobRow
    <3>3. QED
      BY <3>1, <3>2
  <2>3. QED
    BY <2>2
<1>7. QED
  BY <1>1, <1>2, <1>3, <1>4, <1>5, <1>6 DEF Steps

-----------------------------------------------------------------------------
(* One job per group.                                                      *)

\* Requests that have checked that the group has no job and not made theirs.
Creating(g) == {t \in Thread : th[t].op = "job" /\ th[t].pc = "commit" /\ th[t].group = g}

\* OneJobPerGroup with what makes it inductive: where no two such requests overlap,
\* the one there is still finds the group without a job.
Single(g) ==
    /\ \A i, j \in JobsOf(g) : i = j
    /\ \A s, t \in Creating(g) : s = t
    /\ Creating(g) # {} => JobsOf(g) = {}
SingleInv == \A g \in Group : Tight("single", g) => Single(g)

\* Only create_schedule_job comes to where a job is about to be made.
LEMMA NotCreating ==
    ASSUME GroupsInv, NEW t \in Thread, GroupRequests(t) \/ JobRequests(t) \/ Steps(t),
           \A h \in Group, gfs \in BOOLEAN : ~ CreateJob(t, h, gfs)
    PROVE  ~ (th'[t].op = "job" /\ th'[t].pc = "commit")
<1>a. th[t] \in Requests /\ Idle.op = "none"
  BY IdleFits DEF GroupsInv
<1>1. CASE GroupRequests(t) \/ JobRequests(t)
  BY <1>a, <1>1, Tasks DEF GroupRequests, JobRequests
<1>2. CASE CommitGroup(t)
  BY <1>a, <1>2, GroupTask DEF Requests
<1>3. CASE CommitJob(t)
  BY <1>a, <1>3, JobTask DEF Requests
<1>4. QED
  BY <1>a, <1>1, <1>2, <1>3, Tasks DEF Steps

LEMMA SingleStep ==
    ASSUME GroupsInv, SingleInv, NEW t \in Thread, GroupRequests(t) \/ JobRequests(t) \/ Steps(t)
    PROVE  SingleInv'
<1> SUFFICES ASSUME NEW g \in Group, Tight("single", g)'
             PROVE  Single(g)'
  BY DEF SingleInv
<1>1. Tight("single", g)
  BY OneThread DEF Tight
<1>2. Single(g)
  BY <1>1 DEF SingleInv
<1>3. \A s \in Thread \ {t} : th'[s] = th[s]
  BY OneThread
<1>4. ASSUME NEW h \in Group, NEW gfs \in BOOLEAN, CreateJob(t, h, gfs)
      PROVE  Single(g)'
  <2>1. th'[t].group = h /\ JobsOf(g)' = JobsOf(g)
    BY <1>4 DEF CreateJob, Ask, Idle, GroupsInv, JobsOf, Live, jobs
  <2>2. CASE h # g
    BY <1>2, <1>3, <2>1, <2>2 DEF Single, Creating
  <2>3. CASE h = g
    <3>1. \A s \in Creating(g) : FALSE
      BY <1>4, <2>3 DEF CreateJob, Creating, Busy, Tight
    <3>2. Creating(g)' \subseteq {t}
      BY <1>3, <3>1 DEF Creating
    <3>3. QED
      BY <1>4, <2>1, <2>3, <3>2 DEF CreateJob, Single
  <2>4. QED
    BY <2>2, <2>3
<1>5. CASE CommitJob(t)
  <2>1. th[t].op = "job" /\ th[t].pc = "commit"
    BY <1>5 DEF CommitJob, At
  <2>2. ~ (th'[t].op = "job" /\ th'[t].pc = "commit")
    <3>1. \A h \in Group, gfs \in BOOLEAN : ~ CreateJob(t, h, gfs)
      BY <2>1 DEF CreateJob, Ask
    <3>2. QED
      BY <3>1, NotCreating
  <2>3. Creating(g)' = Creating(g) \ {t}
    BY <1>3, <2>2 DEF Creating
  <2>4. CASE group[th[t].group] = "live"
    <3>1. PICK k \in Job :
             job' = [job EXCEPT ![k] = [group |-> th[t].group, gfs |-> th[t].gfs, days |-> th[t].days]]
      BY <1>5, <2>4 DEF CommitJob
    <3>2. JobsOf(g)' \subseteq JobsOf(g) \cup (IF th[t].group = g THEN {k} ELSE {})
      BY <3>1 DEF JobsOf, Live, GroupsInv
    <3>3. th[t].group = g => t \in Creating(g)
      BY <2>1 DEF Creating
    <3>4. QED
      BY <1>2, <2>3, <3>2, <3>3 DEF Single
  <2>5. CASE group[th[t].group] # "live"
    <3>1. JobsOf(g)' = JobsOf(g)
      BY <1>5, <2>5 DEF CommitJob, JobsOf, Live
    <3>2. QED
      BY <1>2, <2>3, <3>1 DEF Single
  <2>6. QED
    BY <2>4, <2>5
<1>6. ASSUME ~ CommitJob(t), \A h \in Group, gfs \in BOOLEAN : ~ CreateJob(t, h, gfs)
      PROVE  Single(g)'
  <2>1. ~ (th'[t].op = "job" /\ th'[t].pc = "commit")
    BY <1>6, NotCreating
  <2>2. Creating(g)' \subseteq Creating(g)
    BY <1>3, <2>1 DEF Creating
  <2>3. JobsOf(g)' \subseteq JobsOf(g)
    BY <1>6, NoNewJob DEF JobsOf
  <2>4. QED
    BY <1>2, <2>2, <2>3 DEF Single
<1>7. QED
  BY <1>4, <1>5, <1>6

\* ScheduleJobModel.create is called for a group that has no job: a group gets two
\* jobs only from requests that overlap.
THEOREM OneJobPerGroupAlways == Spec => []OneJobPerGroup
<1>1. Init => SingleInv
  BY DEF Init, SingleInv, Single, JobsOf, Live, Creating, Idle
<1>2. GroupsInv /\ SingleInv /\ [Next]_vars => SingleInv'
  <2> SUFFICES ASSUME GroupsInv, SingleInv, [Next]_vars
               PROVE  SingleInv'
    OBVIOUS
  <2>1. CASE UNCHANGED vars
    BY <2>1 DEF vars, SingleInv, Single, JobsOf, Live, Creating, Tight
  <2>2. QED
    BY <2>1, SingleStep DEF Next
<1>3. GroupsInv /\ SingleInv => OneJobPerGroup
  <2> SUFFICES ASSUME SingleInv, NEW g \in Group, Tight("single", g)
               PROVE  Cardinality(JobsOf(g)) <= 1
    BY DEF OneJobPerGroup
  <2>1. \A i, j \in JobsOf(g) : i = j
    BY DEF SingleInv, Single
  <2>2. CASE JobsOf(g) = {}
    BY <2>2, FS_EmptySet
  <2>3. CASE JobsOf(g) # {}
    <3>1. PICK j \in JobsOf(g) : TRUE
      BY <2>3
    <3>2. JobsOf(g) = {j}
      BY <2>1, <3>1
    <3>3. Cardinality(JobsOf(g)) = 1
      BY <3>2, FS_Singleton
    <3>4. QED
      BY <3>3
  <2>4. QED
    BY <2>2, <2>3
<1>4. QED
  BY <1>1, <1>2, <1>3, GroupsInvariance, PTL DEF Spec

-----------------------------------------------------------------------------
(* The days of the policy of grandfather, father and son.                  *)

\* Requests that are about to change a job.
Changing(j) == {t \in Thread : th[t].op = "policy" /\ th[t].job = j}

\* PolicyRunsDaily with what makes it inductive: what the requests are about to
\* write fits the policy the job has by then.
Daily(j) ==
    /\ \A s, t \in Changing(j) : s = t
    /\ \A t \in Changing(j) :
          th[t].gfs = TRUE \/ (th[t].gfs = None /\ Live(j) /\ job[j].gfs) => th[t].days = "all"
    /\ Live(j) /\ job[j].gfs => job[j].days = "all"
PolicyInv ==
    /\ \A t \in Thread : th[t].op = "job" /\ th[t].gfs = TRUE => th[t].days = "all"
    /\ \A j \in Job : Changing(j) # {} => job[j] # None
    /\ \A j \in Job : Tight("days", j) => Daily(j)

LEMMA DailyFrame ==
    ASSUME NEW j \in Job, Daily(j),
           \A s \in Changing(j)' : s \in Changing(j) /\ th'[s] = th[s],
           Live(j)' => Live(j) /\ job'[j] = job[j]
    PROVE  Daily(j)'
  BY DEF Daily

LEMMA PolicyStep ==
    ASSUME GroupsInv, PolicyInv, NEW t \in Thread, GroupRequests(t) \/ JobRequests(t) \/ Steps(t)
    PROVE  PolicyInv'
<1>a. th[t] \in Requests /\ Idle.op = "none"
  BY IdleFits DEF GroupsInv
<1>b. /\ \A s \in Thread \ {t} : th'[s] = th[s]
      /\ \A j \in Job : Tight("days", j)' => Tight("days", j)
  BY OneThread DEF Tight
\* A step that begins no change of a job and changes none.
<1>c. ASSUME th'[t].op # "policy",
             th'[t].op = "job" /\ th'[t].gfs = TRUE => th'[t].days = "all",
             \A j \in Job : job[j] # None => job'[j] # None,
             \A j \in Job : Live(j)' => Live(j) /\ job'[j] = job[j]
      PROVE  PolicyInv'
  <2>1. \A j \in Job : Changing(j)' \subseteq Changing(j) /\ t \notin Changing(j)'
    BY <1>b, <1>c DEF Changing
  <2>2. \A j \in Job : Daily(j) => Daily(j)'
    BY <1>b, <1>c, <2>1, DailyFrame DEF Changing
  <2>3. QED
    BY <1>b, <1>c, <2>1, <2>2 DEF PolicyInv
<1>1. CASE GroupRequests(t)
  <2>1. UNCHANGED job
    BY <1>1 DEF GroupRequests, CreateGroup, UpdateGroup, DeleteGroup, BackupNow, jobs
  <2>2. th'[t].op \notin {"policy", "job"}
    BY <1>a, <1>1, Tasks DEF GroupRequests
  <2>3. QED
    BY <1>c, <2>1, <2>2 DEF Live
<1>2. ASSUME NEW g \in Group, NEW gfs \in BOOLEAN, CreateJob(t, g, gfs)
      PROVE  PolicyInv'
  <2>1. /\ UNCHANGED job /\ th'[t].op = "job"
        /\ th'[t].gfs = gfs /\ th'[t].days = IF gfs THEN "all" ELSE "some"
    BY <1>2, Tasks DEF CreateJob, jobs
  <2>2. QED
    BY <1>c, <2>1 DEF Live
<1>3. ASSUME NEW j \in Job, DeleteJob(t, j)
      PROVE  PolicyInv'
  <2>1. th'[t] = Idle /\ job' = [job EXCEPT ![j] = Gone] /\ Live(j) /\ job \in [Job -> JobRow \cup {None, Gone}]
    BY <1>3 DEF DeleteJob, Ask, GroupsInv
  <2>2. \A i \in Job : job'[i] = IF i = j THEN Gone ELSE job[i]
    BY <2>1
  <2>3. \A i \in Job : (job[i] # None => job'[i] # None) /\ (Live(i)' => Live(i) /\ job'[i] = job[i])
    BY <2>1, <2>2, BackupGroupsAssumption DEF Live
  <2>4. QED
    BY <1>a, <1>c, <2>1, <2>3
<1>4. ASSUME NEW j \in Job, NEW gfs \in BOOLEAN \cup {None}, NEW days \in {None, "some"},
             UpdateJob(t, j, gfs, days)
      PROVE  PolicyInv'
  <2> DEFINE all == gfs = TRUE \/ (gfs = None /\ job[j].gfs)
  <2>1. /\ th'[t].op = "policy" /\ th'[t].job = j /\ th'[t].gfs = gfs
        /\ all => th'[t].days = "all"
        /\ UNCHANGED job /\ Live(j) /\ th[t].op = "none"
    BY <1>4 DEF UpdateJob, Ask, Idle, GroupsInv, jobs
  <2>2. \A i \in Job : Live(i)' = Live(i)
    BY <2>1 DEF Live
  <2>3. \A i \in Job \ {j} : Changing(i)' = Changing(i) /\ t \notin Changing(i)
    BY <1>b, <2>1 DEF Changing
  <2>4. \A i \in Job \ {j} : Daily(i) => Daily(i)'
    BY <1>b, <2>1, <2>2, <2>3, DailyFrame DEF Changing
  <2>5. Tight("days", j)' => Daily(j)'
    <3> SUFFICES ASSUME Tight("days", j)'
                 PROVE  Daily(j)'
      OBVIOUS
    <3>1. Changing(j) = {}
      BY <1>4 DEF UpdateJob, Tight, Changing
    <3>2. Changing(j)' = {t}
      BY <1>b, <2>1, <3>1 DEF Changing
    <3>3. Daily(j)
      BY <1>b DEF PolicyInv
    <3>4. QED
      BY <2>1, <2>2, <3>2, <3>3 DEF Daily
  <2>6. QED
    BY <1>b, <2>1, <2>3, <2>4, <2>5 DEF PolicyInv, Live
<1>5. CASE CommitGroup(t) \/ ReplaceVolumes(t) \/ AddVolume(t) \/ RaiseVolume(t) \/ EndGroup(t) \/ AddJobVolume(t)
  <2>1. UNCHANGED job
    BY <1>5 DEF CommitGroup, ReplaceVolumes, AddVolume, RaiseVolume, EndGroup, AddJobVolume, jobs
  <2>2. \/ th'[t].op = "none"
        \/ th'[t].op \in {"group", "members"}
        \/ th'[t].op = th[t].op /\ th[t].op # "policy" /\ th'[t].gfs = th[t].gfs /\ th'[t].days = th[t].days
    <3>1. CASE CommitGroup(t)
      <4>1. PICK g \in Group : th'[t] = [th[t] EXCEPT !.group = g, !.pc = "volume"]
        BY <3>1, GroupTask
      <4>2. th[t].op = "group"
        BY <3>1 DEF CommitGroup, At
      <4>3. QED
        BY <1>a, <4>1, <4>2 DEF Requests
    <3>2. CASE ReplaceVolumes(t)
      BY <3>2, Tasks
    <3>3. QED
      BY <1>a, <1>5, <3>1, <3>2, Tasks
  <2>3. QED
    BY <1>c, <2>1, <2>2 DEF Live, PolicyInv
<1>6. CASE CommitDeleteGroup(t)
  <2>1. th'[t] = Idle /\ \A j \in Job : job'[j] = job[j] \/ job'[j] = Gone
    BY <1>6 DEF CommitDeleteGroup, Done, GroupsInv
  <2>2. QED
    BY <1>a, <1>c, <2>1, BackupGroupsAssumption DEF Live
<1>7. CASE CommitJob(t)
  <2>1. CASE job' = job /\ th'[t] = Idle
    BY <1>a, <1>c, <2>1 DEF Live
  <2>2. CASE ~ (job' = job /\ th'[t] = Idle)
    <3> DEFINE r == [group |-> th[t].group, gfs |-> th[t].gfs, days |-> th[t].days]
    <3>1. PICK j \in Job : /\ job[j] = None
                           /\ job' = [job EXCEPT ![j] = r]
                           /\ th'[t] = [th[t] EXCEPT !.job = j, !.pc = "volume"]
      BY <1>7, <2>2, JobTask
    <3>2. /\ th[t].op = "job" /\ th[t].gfs \in BOOLEAN
          /\ th'[t].op = "job" /\ th'[t].gfs = th[t].gfs /\ th'[t].days = th[t].days
      BY <1>7, <1>a, <3>1 DEF CommitJob, At, GroupsInv, ThreadsFit, Requests
    <3>3. r.gfs = TRUE => r.days = "all"
      BY <3>2 DEF PolicyInv
    <3>4. \A i \in Job : job'[i] = IF i = j THEN r ELSE job[i]
      BY <3>1 DEF GroupsInv
    <3>5. \A i \in Job : Changing(i)' = Changing(i) /\ t \notin Changing(i)
      BY <1>b, <3>2 DEF Changing
    <3>6. Changing(j) = {}
      BY <3>1 DEF PolicyInv
    <3>7. Daily(j)'
      BY <3>2, <3>3, <3>4, <3>5, <3>6 DEF Daily
    <3>8. \A i \in Job \ {j} : Daily(i) => Daily(i)'
      <4>1. ASSUME NEW i \in Job \ {j}
            PROVE  Live(i)' => Live(i) /\ job'[i] = job[i]
        BY <3>4 DEF Live
      <4>2. QED
        BY <1>b, <3>5, <4>1, DailyFrame DEF Changing
    <3>9. QED
      BY <1>b, <3>2, <3>3, <3>4, <3>5, <3>6, <3>7, <3>8 DEF PolicyInv
  <2>3. QED
    BY <2>1, <2>2
<1>8. CASE CommitPolicy(t)
  <2>a. PICK j \in Job : j = th[t].job
    BY <1>8 DEF CommitPolicy, At, GroupsInv, ThreadsFit
  <2>1. th'[t] = Idle /\ th[t].op = "policy" /\ th[t].gfs \in BOOLEAN \cup {None}
    BY <1>8, <1>a DEF CommitPolicy, Done, At, GroupsInv, Requests
  <2>2. t \in Changing(j) /\ \A i \in Job : Changing(i)' = Changing(i) \ {t}
    BY <1>a, <1>b, <2>a, <2>1 DEF Changing
  <2>3. CASE ~ Live(j)
    <3>1. job' = job
      BY <1>8, <2>a, <2>3 DEF CommitPolicy
    <3>2. QED
      BY <1>a, <1>c, <2>1, <3>1 DEF Live
  <2>4. CASE Live(j)
    <3> DEFINE r == [job[j] EXCEPT !.days = th[t].days,
                                   !.gfs = IF th[t].gfs = None THEN @ ELSE th[t].gfs]
    <3>1. job[j] \in JobRow
      BY <2>1, <2>4 DEF Live, GroupsInv
    <3>2. /\ r.days = th[t].days /\ r.gfs = IF th[t].gfs = None THEN job[j].gfs ELSE th[t].gfs
          /\ r \in JobRow
      BY <1>a, <2>1, <3>1 DEF JobRow, Requests
    <3>3. job' = [job EXCEPT ![j] = r]
      BY <1>8, <2>a, <2>1, <2>4 DEF CommitPolicy, GroupsInv
    <3>4. \A i \in Job : job'[i] = IF i = j THEN r ELSE job[i]
      BY <3>3 DEF GroupsInv
    <3> HIDE DEF r
    <3>5. Daily(j) => Daily(j)'
      <4> SUFFICES ASSUME Daily(j) PROVE Daily(j)'
        OBVIOUS
      <4>1. Changing(j)' = {}
        BY <2>2 DEF Daily
      <4>2. th[t].gfs = TRUE \/ (th[t].gfs = None /\ job[j].gfs) => th[t].days = "all"
        BY <2>2, <2>4 DEF Daily
      <4>3. job[j].gfs \in BOOLEAN
        BY <3>1 DEF JobRow
      <4>4. r.gfs => r.days = "all"
        BY <2>1, <3>2, <4>2, <4>3, BackupGroupsAssumption
      <4>5. job'[j] = r
        BY <2>1, <3>4
      <4>6. QED
        BY <4>1, <4>4, <4>5 DEF Daily
    <3>6. \A i \in Job \ {j} : Daily(i) => Daily(i)'
      <4>1. ASSUME NEW i \in Job \ {j}
            PROVE  Live(i)' => Live(i) /\ job'[i] = job[i]
        BY <3>4 DEF Live
      <4>2. QED
        BY <1>b, <2>2, <4>1, DailyFrame DEF Changing
    <3>7. r # None
      BY <3>2, BackupGroupsAssumption
    <3>8. QED
      BY <1>a, <1>b, <2>1, <2>2, <3>4, <3>5, <3>6, <3>7 DEF PolicyInv
  <2>5. QED
    BY <2>3, <2>4
<1>9. QED
  BY <1>1, <1>2, <1>3, <1>4, <1>5, <1>6, <1>7, <1>8 DEF JobRequests, Steps

\* update_schedule_job leaves no job of the policy of grandfather, father and son
\* without all the days, unless two requests change one job at a time.
THEOREM PolicyRunsDailyAlways == Spec => []PolicyRunsDaily
<1>1. Init => PolicyInv
  BY DEF Init, PolicyInv, Changing, Daily, Live, Idle
<1>2. GroupsInv /\ PolicyInv /\ [Next]_vars => PolicyInv'
  <2> SUFFICES ASSUME GroupsInv, PolicyInv, [Next]_vars
               PROVE  PolicyInv'
    OBVIOUS
  <2>1. CASE UNCHANGED vars
    BY <2>1 DEF vars, PolicyInv, Changing, Daily, Live, Tight
  <2>2. QED
    BY <2>1, PolicyStep DEF Next
<1>3. PolicyInv => PolicyRunsDaily
  BY DEF PolicyInv, PolicyRunsDaily, Daily
<1>4. QED
  BY <1>1, <1>2, <1>3, GroupsInvariance, PTL DEF Spec

-----------------------------------------------------------------------------
(* The volumes of a group.                                                 *)

\* A session has uncommitted deletions only while VolumeGroupModel.update replaces
\* the volumes of its group, and no other session touches those rows.
PendInv ==
    /\ \A t \in Thread : pend[t] # {} =>
          /\ th[t].op = "members" /\ th[t].pc = "volume" /\ th[t].todo # {}
          /\ \A v \in pend[t] : gvol[v] = th[t].group
    /\ \A s, t \in Thread : s # t => pend[s] \cap pend[t] = {}
    /\ \A t \in Thread : th[t].op = "members" /\ th[t].pc = "replace" => th[t].todo # {}

\* What a step does to the volumes of a group: only the thread at work on it, or
\* its deletion, changes them.
LEMMA OwnRows ==
    ASSUME GroupsInv, PendInv, NEW t \in Thread, GroupRequests(t) \/ JobRequests(t) \/ Steps(t)
    PROVE  \A v \in Volume : gvol'[v] # gvol[v] =>
              /\ th[t].op \in {"group", "members", "delete"} /\ th[t].group \in Group
              /\ th[t].op # "delete" => th[t].pc = "volume"
              /\ gvol[v] \in {None, th[t].group} /\ gvol'[v] \in {None, th[t].group}
              /\ \A s \in Thread \ {t} : v \notin pend[s]
<1> SUFFICES ASSUME NEW v \in Volume, gvol'[v] # gvol[v]
             PROVE  /\ th[t].op \in {"group", "members", "delete"} /\ th[t].group \in Group
                    /\ th[t].op # "delete" => th[t].pc = "volume"
                    /\ gvol[v] \in {None, th[t].group} /\ gvol'[v] \in {None, th[t].group}
                    /\ \A s \in Thread \ {t} : v \notin pend[s]
  OBVIOUS
<1>a. gvol \in [Volume -> Group \cup {None}] /\ pend \in [Thread -> SUBSET Volume] /\ None \notin Group
  BY BackupGroupsAssumption DEF GroupsInv, NothingIsLeftBehind, TypeOK
<1>b. AddVolume(t) \/ RaiseVolume(t) \/ CommitDeleteGroup(t)
  BY DEF GroupRequests, JobRequests, Steps, CreateGroup, UpdateGroup, DeleteGroup, BackupNow,
         CreateJob, UpdateJob, DeleteJob, CommitGroup, ReplaceVolumes, EndGroup, CommitJob,
         AddJobVolume, CommitPolicy, groups
<1>1. CASE AddVolume(t)
  <2>1. th[t].op \in {"group", "members"} /\ th[t].pc = "volume" /\ th[t].group \in Group
    BY <1>1 DEF AddVolume, GroupsInv, ThreadsFit
  <2>2. PICK w \in th[t].todo : Left(t)[w] = None /\ gvol' = [Left(t) EXCEPT ![w] = th[t].group]
    BY <1>1 DEF AddVolume
  <2>3. v \in pend[t] \/ (v = w /\ gvol[v] = None)
    BY <2>2, <1>a DEF Left
  <2>4. gvol[v] \in {None, th[t].group} /\ gvol'[v] \in {None, th[t].group}
    BY <1>a, <2>2, <2>3 DEF PendInv, Left
  <2>5. ASSUME NEW s \in Thread \ {t}, v \in pend[s]
        PROVE  FALSE
    <3>1. v \notin pend[t]
      BY <2>5 DEF PendInv
    <3>2. gvol[v] = th[s].group /\ th[s].op = "members"
      BY <2>5 DEF PendInv
    <3>3. th[s].group \in Group
      BY <3>2 DEF GroupsInv, ThreadsFit
    <3>4. QED
      BY <1>a, <2>3, <3>1, <3>2, <3>3
  <2>6. QED
    BY <2>1, <2>4, <2>5
<1>2. CASE RaiseVolume(t)
  <2>1. th[t].op \in {"group", "members"} /\ th[t].pc = "volume" /\ th[t].group \in Group /\ gvol' = Left(t)
    BY <1>2 DEF RaiseVolume, GroupsInv, ThreadsFit
  <2>2. v \in pend[t] /\ gvol'[v] = None
    BY <2>1, <1>a DEF Left
  <2>3. QED
    BY <2>1, <2>2 DEF PendInv
<1>3. CASE CommitDeleteGroup(t)
  <2>1. th[t].op = "delete" /\ th[t].group \in Group /\ Members(th[t].group) \cap Locked(t) = {}
    BY <1>3 DEF CommitDeleteGroup, At, GroupsInv, ThreadsFit
  <2>2. gvol' = [w \in Volume |-> IF gvol[w] = th[t].group THEN None ELSE gvol[w]]
    BY <1>3 DEF CommitDeleteGroup
  <2>3. gvol[v] = th[t].group /\ gvol'[v] = None
    BY <2>2
  <2>4. v \in Members(th[t].group)
    BY <2>3 DEF Members
  <2>5. QED
    BY <1>a, <2>1, <2>3, <2>4 DEF Locked
<1>4. QED
  BY <1>b, <1>1, <1>2, <1>3

\* Only update_volume_group comes to where the volumes are about to be replaced, and
\* it is given some.
LEMMA ReplaceTask ==
    ASSUME GroupsInv, NEW t \in Thread, GroupRequests(t) \/ JobRequests(t) \/ Steps(t),
           th'[t].op = "members", th'[t].pc = "replace"
    PROVE  /\ th'[t].todo # {}
           /\ \E g \in Group, vols \in SUBSET Volume : UpdateGroup(t, g, vols)
<1>a. th[t] \in Requests /\ Idle.op = "none"
  BY IdleFits DEF GroupsInv
<1>1. CASE GroupRequests(t)
  <2>1. CASE \E g \in Group, vols \in (SUBSET Volume) \ {{}} : UpdateGroup(t, g, vols)
    <3>1. PICK g \in Group, vols \in (SUBSET Volume) \ {{}} : UpdateGroup(t, g, vols)
      BY <2>1
    <3>2. vols \in SUBSET Volume /\ vols # {}
      OBVIOUS
    <3>3. th'[t].todo = vols
      BY <3>1, <3>2, Tasks
    <3>4. QED
      BY <3>1, <3>2, <3>3
  <2>2. CASE (\E vols \in SUBSET Volume : CreateGroup(t, vols)) \/ (\E g \in Group : DeleteGroup(t, g)) \/ BackupNow(t)
    BY <1>a, <2>2, Tasks
  <2>3. QED
    BY <1>1, <2>1, <2>2 DEF GroupRequests
<1>2. CASE JobRequests(t)
  BY <1>a, <1>2, Tasks DEF JobRequests
<1>3. CASE CommitGroup(t)
  BY <1>a, <1>3, GroupTask DEF Requests
<1>4. CASE CommitJob(t)
  BY <1>a, <1>4, JobTask DEF Requests
<1>5. QED
  BY <1>a, <1>1, <1>2, <1>3, <1>4, Tasks DEF Steps

LEMMA PendStep ==
    ASSUME GroupsInv, PendInv, NEW t \in Thread, GroupRequests(t) \/ JobRequests(t) \/ Steps(t)
    PROVE  PendInv'
<1>a. gvol \in [Volume -> Group \cup {None}] /\ pend \in [Thread -> SUBSET Volume]
  BY DEF GroupsInv, NothingIsLeftBehind, TypeOK
<1>b. \A s \in Thread \ {t} : th'[s] = th[s] /\ \A v \in pend[s] : gvol'[v] = gvol[v]
  BY <1>a, OneThread, OwnRows
<1>c. ASSUME th'[t].op = "members", th'[t].pc = "replace"
      PROVE  th'[t].todo # {}
  BY <1>c, ReplaceTask
<1>1. CASE ReplaceVolumes(t)
  <2>1. /\ th[t].op = "members" /\ th[t].pc = "replace"
        /\ Members(th[t].group) \cap Locked(t) = {}
        /\ pend' = [pend EXCEPT ![t] = Members(th[t].group)]
        /\ gvol' = gvol
    BY <1>1 DEF ReplaceVolumes, At
  <2>2. th[t] \in Requests /\ th'[t] = [th[t] EXCEPT !.pc = "volume"]
    BY <1>1 DEF ReplaceVolumes, Goto, GroupsInv
  <2>3. /\ th'[t].op = "members" /\ th'[t].pc = "volume" /\ th'[t].todo = th[t].todo
        /\ th'[t].group = th[t].group
    BY <2>1, <2>2 DEF Requests
  <2>4. \A v \in pend'[t] : gvol'[v] = th'[t].group
    BY <1>a, <2>1, <2>3 DEF Members
  <2>5. \A s \in Thread \ {t} : pend'[s] = pend[s] /\ pend[s] \cap pend'[t] = {}
    BY <1>a, <2>1 DEF Locked
  <2>6. QED
    BY <1>a, <1>b, <2>1, <2>3, <2>4, <2>5 DEF PendInv
<1>2. CASE AddVolume(t) \/ RaiseVolume(t)
  <2>1. pend' = [pend EXCEPT ![t] = {}]
    BY <1>2 DEF AddVolume, RaiseVolume, Commit
  <2>2. th'[t].op = "members" /\ th'[t].pc = "replace" => th'[t].todo # {}
    BY <1>2, <1>c
  <2>3. QED
    BY <1>a, <1>b, <2>1, <2>2 DEF PendInv
<1>3. CASE ~ (ReplaceVolumes(t) \/ AddVolume(t) \/ RaiseVolume(t))
  <2>1. pend' = pend
    BY <1>3 DEF GroupRequests, JobRequests, Steps, CreateGroup, UpdateGroup, DeleteGroup, BackupNow,
         CreateJob, UpdateJob, DeleteJob, CommitGroup, EndGroup, CommitDeleteGroup, CommitJob,
         AddJobVolume, CommitPolicy
  <2>2. pend[t] = {}
    <3>1. ASSUME th[t].op = "members", th[t].pc = "volume", th[t].todo # {}
          PROVE  FALSE
      BY <1>3, <3>1 DEF GroupRequests, JobRequests, Steps, CreateGroup, UpdateGroup, DeleteGroup, BackupNow,
         CreateJob, UpdateJob, DeleteJob, CommitGroup, EndGroup, CommitDeleteGroup, CommitJob,
         AddJobVolume, CommitPolicy, Ask, At
    <3>2. QED
      BY <3>1 DEF PendInv
  <2>3. QED
    BY <1>a, <1>b, <1>c, <1>3, <2>1, <2>2 DEF PendInv
<1>4. QED
  BY <1>1, <1>2, <1>3

\* Requests that make or replace the volumes of a group, and those of them that add
\* volumes.
Changers(g) == {t \in Thread : th[t].op \in {"group", "members"} /\ th[t].group = g}
Filling(g) == {t \in Changers(g) : th[t].pc = "volume"}

\* GroupIsAsAsked with what makes it inductive: while volumes are added, those that
\* were are the ones asked for but for those still to be added, not counting the
\* rows that the next commit deletes.
AsAsked(g) ==
    /\ \A s, t \in Changers(g) : s = t
    /\ \A t \in Filling(g) :
          /\ th[t].todo \subseteq asked[g]
          /\ \A v \in Volume : gvol[v] = g /\ v \notin pend[t] <=> v \in asked[g] \ th[t].todo
    /\ Filling(g) = {} => Members(g) = asked[g]
MembersInv ==
    /\ asked \in [Group -> SUBSET Volume]
    /\ \A t \in Thread : th[t].group \in Group => group[th[t].group] # "new"
    /\ \A g \in Group : group[g] = "live" /\ Tight("members", g) => AsAsked(g)

\* A step of a thread that is not at work on the volumes of the group.
LEMMA AsAskedFrame ==
    ASSUME GroupsInv, PendInv, NEW g \in Group, NEW t \in Thread, AsAsked(g),
           GroupRequests(t) \/ JobRequests(t) \/ Steps(t),
           asked'[g] = asked[g], t \notin Filling(g), t \notin Filling(g)',
           t \in Changers(g)' => t \in Changers(g) \/ Changers(g) = {},
           \A v \in Volume : gvol'[v] = g <=> gvol[v] = g,
           \A s \in Thread \ {t} : pend'[s] = pend[s]
    PROVE  AsAsked(g)'
<1>1. \A s \in Thread \ {t} : th'[s] = th[s]
  BY OneThread
<1>2. Filling(g)' = Filling(g) /\ Filling(g) \subseteq Thread \ {t}
  BY <1>1 DEF Filling, Changers
<1>3. \A r, s \in Changers(g)' : r = s
  BY <1>1 DEF AsAsked, Changers
<1>4. \A s \in Filling(g) : th'[s] = th[s] /\ pend'[s] = pend[s]
  BY <1>1, <1>2
<1>5. Members(g)' = Members(g)
  BY DEF Members
<1>6. QED
  BY <1>2, <1>3, <1>4, <1>5 DEF AsAsked

LEMMA MembersStep ==
    ASSUME GroupsInv, PendInv, MembersInv, NEW t \in Thread, GroupRequests(t) \/ JobRequests(t) \/ Steps(t)
    PROVE  MembersInv'
<1>a. /\ th[t] \in Requests /\ Idle.op = "none" /\ Idle.group = None /\ None \notin Group
      /\ gvol \in [Volume -> Group \cup {None}] /\ pend \in [Thread -> SUBSET Volume]
      /\ group \in [Group -> {"new", "live", "gone"}] /\ asked \in [Group -> SUBSET Volume]
  BY IdleFits, BackupGroupsAssumption DEF GroupsInv, NothingIsLeftBehind, TypeOK, MembersInv, Idle
<1>b. /\ \A s \in Thread \ {t} : th'[s] = th[s]
      /\ \A g \in Group : Tight("members", g)' => Tight("members", g)
  BY OneThread DEF Tight
<1>c. \A g \in Group : group[g] = "live" /\ Tight("members", g)' => AsAsked(g)
  BY <1>b DEF MembersInv
\* A step that keeps the volumes a group was asked to have.
<1>d. ASSUME asked' = asked, group' = group,
             th'[t].group \in Group => group[th'[t].group] # "new",
             \A g \in Group : group[g] = "live" /\ Tight("members", g)' => AsAsked(g)'
      PROVE  MembersInv'
  BY <1>a, <1>b, <1>d DEF MembersInv
<1>1. ASSUME NEW vols \in SUBSET Volume, CreateGroup(t, vols)
      PROVE  MembersInv'
  <2>1. UNCHANGED <<group, gvol, asked, pend>>
    BY <1>1 DEF CreateGroup, groups
  <2>2. th[t].op = "none" /\ th'[t].op = "group" /\ th'[t].pc = "commit" /\ th'[t].group = None
    BY <1>1, Tasks
  <2>3. ASSUME NEW g \in Group, AsAsked(g)
        PROVE  AsAsked(g)'
    <3>1. t \notin Changers(g)' /\ t \notin Filling(g)' /\ t \notin Filling(g)
      BY <1>a, <2>2 DEF Changers, Filling
    <3>2. QED
      BY <2>1, <2>3, <3>1, AsAskedFrame
  <2>4. QED
    BY <1>a, <1>c, <1>d, <2>1, <2>2, <2>3
<1>2. ASSUME NEW h \in Group, NEW vols \in SUBSET Volume, UpdateGroup(t, h, vols)
      PROVE  MembersInv'
  <2>1. UNCHANGED <<group, gvol, asked, pend>> /\ group[h] = "live"
    BY <1>2 DEF UpdateGroup, groups
  <2>2. th[t].op = "none" /\ th'[t].op = "members" /\ th'[t].pc = "replace" /\ th'[t].group = h
    BY <1>2, Tasks
  <2>3. ASSUME NEW g \in Group, AsAsked(g), Tight("members", g)'
        PROVE  AsAsked(g)'
    <3>1. t \notin Filling(g)' /\ t \notin Filling(g)
      BY <2>2 DEF Changers, Filling
    <3>2. t \in Changers(g)' => Changers(g) = {}
      BY <1>2, <2>2, <2>3 DEF UpdateGroup, Tight, Busy, Changers
    <3>3. QED
      BY <2>1, <2>3, <3>1, <3>2, AsAskedFrame
  <2>4. QED
    BY <1>c, <1>d, <2>1, <2>2, <2>3
<1>3. ASSUME \/ \E g \in Group : DeleteGroup(t, g) \/ \E gfs \in BOOLEAN : CreateJob(t, g, gfs)
             \/ BackupNow(t)
             \/ \E j \in Job : \/ DeleteJob(t, j)
                               \/ \E gfs \in BOOLEAN \cup {None}, days \in {None, "some"} : UpdateJob(t, j, gfs, days)
      PROVE  MembersInv'
  <2>1. UNCHANGED <<group, gvol, asked, pend>>
    BY <1>3 DEF DeleteGroup, CreateJob, BackupNow, DeleteJob, UpdateJob, groups
  <2>2. /\ th[t].op = "none" /\ th'[t].op \notin {"group", "members"}
        /\ th'[t].group \in Group => group[th'[t].group] = "live"
    <3>1. ASSUME NEW g \in Group, DeleteGroup(t, g)
          PROVE  th[t].op = "none" /\ th'[t].op = "delete" /\ th'[t].group = g /\ group[g] = "live"
      BY <3>1, Tasks DEF DeleteGroup
    <3>2. ASSUME NEW g \in Group, NEW gfs \in BOOLEAN, CreateJob(t, g, gfs)
          PROVE  th[t].op = "none" /\ th'[t].op = "job" /\ th'[t].group = g /\ group[g] = "live"
      BY <3>2, Tasks DEF CreateJob
    <3>3. ASSUME NEW j \in Job, NEW gfs \in BOOLEAN \cup {None}, NEW days \in {None, "some"}, UpdateJob(t, j, gfs, days)
          PROVE  th[t].op = "none" /\ th'[t].op = "policy" /\ th'[t].group = None
      BY <3>3, Tasks
    <3>4. CASE BackupNow(t) \/ \E j \in Job : DeleteJob(t, j)
      BY <1>a, <3>4, Tasks
    <3>5. QED
      BY <1>a, <1>3, <3>1, <3>2, <3>3, <3>4
  <2>3. ASSUME NEW g \in Group, AsAsked(g)
        PROVE  AsAsked(g)'
    <3>1. t \notin Changers(g)' /\ t \notin Filling(g)' /\ t \notin Filling(g)
      BY <2>2 DEF Changers, Filling
    <3>2. QED
      BY <2>1, <2>3, <3>1, AsAskedFrame
  <2>4. QED
    BY <1>c, <1>d, <2>1, <2>2, <2>3
<1>4. CASE CommitGroup(t)
  <2>1. PICK h \in Group :
           /\ group[h] = "new"
           /\ group' = [group EXCEPT ![h] = "live"]
           /\ asked' = [asked EXCEPT ![h] = th[t].todo]
           /\ th'[t] = [th[t] EXCEPT !.group = h, !.pc = "volume"]
    BY <1>4, GroupTask
  <2>2. /\ th[t].op = "group" /\ th[t].pc = "commit" /\ th[t].todo \subseteq Volume
        /\ th'[t].op = "group" /\ th'[t].pc = "volume" /\ th'[t].group = h /\ th'[t].todo = th[t].todo
    BY <1>4, <1>a, <2>1 DEF CommitGroup, At, Requests
  <2>3. UNCHANGED <<gvol, pend>> /\ pend[t] = {}
    BY <1>4, <2>2 DEF CommitGroup, PendInv
  <2>4. AsAsked(h)'
    <3>1. \A s \in Thread : th[s].group # h
      BY <2>1 DEF MembersInv
    <3>2. Changers(h)' = {t} /\ Filling(h)' = {t}
      BY <1>b, <2>2, <3>1 DEF Changers, Filling
    <3>3. \A v \in Volume : gvol[v] # h
      BY <1>a, <2>1 DEF GroupsInv, NothingIsLeftBehind
    <3>4. asked'[h] = th[t].todo
      BY <1>a, <2>1
    <3>5. QED
      BY <1>a, <2>2, <2>3, <3>2, <3>3, <3>4 DEF AsAsked
  <2>5. ASSUME NEW g \in Group \ {h}, AsAsked(g)
        PROVE  AsAsked(g)'
    <3>1. t \notin Changers(g)' /\ t \notin Filling(g)' /\ t \notin Filling(g) /\ asked'[g] = asked[g]
      BY <1>a, <2>1, <2>2 DEF Changers, Filling
    <3>2. QED
      BY <2>3, <2>5, <3>1, AsAskedFrame
  <2>7. group'[h] = "live" /\ \A g \in Group \ {h} : group'[g] = group[g]
    BY <1>a, <2>1
  <2>6. asked' \in [Group -> SUBSET Volume] /\ \A s \in Thread : th'[s].group \in Group => group'[th'[s].group] # "new"
    <3>1. asked' \in [Group -> SUBSET Volume]
      BY <1>a, <2>1, <2>2
    <3>2. ASSUME NEW s \in Thread, th'[s].group \in Group
          PROVE  group'[th'[s].group] # "new"
      <4>1. CASE s = t
        BY <2>2, <2>7, <4>1
      <4>2. CASE s # t
        BY <1>b, <2>7, <3>2, <4>2 DEF MembersInv
      <4>3. QED
        BY <4>1, <4>2
    <3>3. QED
      BY <3>1, <3>2
  <2>8. QED
    BY <1>c, <2>4, <2>5, <2>6, <2>7 DEF MembersInv
<1>5. CASE ReplaceVolumes(t)
  <2>1. PICK h \in Group : h = th[t].group
    BY <1>5 DEF ReplaceVolumes, At, GroupsInv, ThreadsFit
  <2>2. /\ th[t].op = "members" /\ th[t].pc = "replace" /\ th[t].todo \subseteq Volume
        /\ th'[t].op = "members" /\ th'[t].pc = "volume" /\ th'[t].group = h /\ th'[t].todo = th[t].todo
    BY <1>5, <1>a, <2>1, Tasks DEF Requests
  <2>3. /\ UNCHANGED <<group, gvol>> /\ pend' = [pend EXCEPT ![t] = Members(h)]
        /\ asked' = [asked EXCEPT ![h] = th[t].todo]
    BY <1>5, <2>1 DEF ReplaceVolumes
  <2>4. ASSUME AsAsked(h)
        PROVE  AsAsked(h)'
    <3>1. Changers(h) = {t}
      BY <2>1, <2>2, <2>4 DEF Changers, AsAsked
    <3>2. Changers(h)' = {t} /\ Filling(h)' = {t}
      BY <1>b, <2>2, <3>1 DEF Changers, Filling
    <3>3. pend'[t] = Members(h) /\ asked'[h] = th[t].todo
      BY <1>a, <2>3
    <3>4. QED
      BY <1>a, <2>2, <2>3, <3>2, <3>3 DEF AsAsked, Members
  <2>5. ASSUME NEW g \in Group \ {h}, AsAsked(g)
        PROVE  AsAsked(g)'
    <3>1. t \notin Changers(g)' /\ t \notin Filling(g)' /\ t \notin Filling(g) /\ asked'[g] = asked[g]
      BY <1>a, <2>2, <2>3 DEF Changers, Filling
    <3>2. \A s \in Thread \ {t} : pend'[s] = pend[s]
      BY <1>a, <2>3
    <3>3. QED
      BY <2>3, <2>5, <3>1, <3>2, AsAskedFrame
  <2>6. asked' \in [Group -> SUBSET Volume] /\ \A s \in Thread : th'[s].group \in Group => group'[th'[s].group] # "new"
    BY <1>a, <1>b, <2>1, <2>2, <2>3 DEF MembersInv
  <2>7. QED
    BY <1>c, <2>3, <2>4, <2>5, <2>6 DEF MembersInv
<1>6. CASE AddVolume(t)
  <2>1. PICK h \in Group : h = th[t].group
    BY <1>6 DEF AddVolume, GroupsInv, ThreadsFit
  <2>2. th[t].op \in {"group", "members"} /\ th[t].pc = "volume" /\ th[t].todo \subseteq Volume
    BY <1>6, <1>a DEF AddVolume, Requests
  <2>3. PICK v \in th[t].todo :
           /\ \/ /\ Left(t)[v] = None
                 /\ gvol' = [Left(t) EXCEPT ![v] = h]
              \/ loose' = loose \cup {<<"members", h>>} /\ gvol' = gvol
           /\ th' = [th EXCEPT ![t].todo = @ \ {v}]
    BY <1>6, <2>1 DEF AddVolume
  <2>4. /\ th'[t].op = th[t].op /\ th'[t].pc = "volume" /\ th'[t].group = h
        /\ th'[t].todo = th[t].todo \ {v}
    BY <1>a, <2>1, <2>2, <2>3 DEF Requests, GroupsInv
  <2>5. asked' = asked /\ group' = group /\ pend' = [pend EXCEPT ![t] = {}]
    BY <1>6 DEF AddVolume, Commit
  <2>6. ASSUME AsAsked(h), Tight("members", h)'
        PROVE  AsAsked(h)'
    <3>1. Changers(h) = {t} /\ Filling(h) = {t} /\ Changers(h)' = {t} /\ Filling(h)' = {t}
      <4>1. t \in Changers(h) /\ Changers(h) = {t}
        BY <2>1, <2>2, <2>6 DEF Changers, AsAsked
      <4>2. Changers(h)' = {t}
        BY <1>b, <2>2, <2>4, <4>1 DEF Changers
      <4>3. QED
        BY <2>2, <2>4, <4>1, <4>2 DEF Filling
    <3>2. Left(t)[v] = None /\ gvol' = [Left(t) EXCEPT ![v] = h]
      BY <2>3, <2>6 DEF Tight
    <3>3. /\ th[t].todo \subseteq asked[h]
          /\ \A w \in Volume : gvol[w] = h /\ w \notin pend[t] <=> w \in asked[h] \ th[t].todo
      BY <2>6, <3>1 DEF AsAsked
    <3>4. \A w \in Volume : gvol'[w] = h <=> w = v \/ (gvol[w] = h /\ w \notin pend[t])
      BY <1>a, <3>2 DEF Left
    <3>5. pend'[t] = {}
      BY <1>a, <2>5
    <3>6. \A w \in Volume : gvol'[w] = h <=> w \in asked[h] \ (th[t].todo \ {v})
      BY <2>2, <2>3, <3>3, <3>4
    <3>7. th'[t].todo \subseteq asked'[h] /\ \A w \in Volume : gvol'[w] = h /\ w \notin pend'[t] <=> w \in asked'[h] \ th'[t].todo
      BY <2>4, <2>5, <3>3, <3>5, <3>6
    <3>8. QED
      BY <3>1, <3>7 DEF AsAsked
  <2>7. ASSUME NEW g \in Group \ {h}, AsAsked(g)
        PROVE  AsAsked(g)'
    <3>1. t \notin Changers(g)' /\ t \notin Filling(g)' /\ t \notin Filling(g) /\ asked'[g] = asked[g]
      BY <2>1, <2>4, <2>5 DEF Changers, Filling
    <3>2. \A s \in Thread \ {t} : pend'[s] = pend[s]
      BY <1>a, <2>5
    <3>3. \A w \in Volume : gvol'[w] = g <=> gvol[w] = g
      BY <1>a, <2>1, OwnRows
    <3>4. QED
      BY <2>7, <3>1, <3>2, <3>3, AsAskedFrame
  <2>8. th'[t].group \in Group => group[th'[t].group] # "new"
    BY <2>1, <2>4 DEF MembersInv
  <2>9. QED
    BY <1>c, <1>d, <2>5, <2>6, <2>7, <2>8
<1>7. CASE RaiseVolume(t)
  <2>1. PICK h \in Group : h = th[t].group
    BY <1>7 DEF RaiseVolume, GroupsInv, ThreadsFit
  <2>2. /\ asked' = asked /\ group' = group /\ pend' = [pend EXCEPT ![t] = {}]
        /\ ~ Tight("members", h)' /\ th'[t] = Idle
    BY <1>7, <2>1, Tasks DEF RaiseVolume, Commit, Tight
  <2>3. ASSUME NEW g \in Group \ {h}, AsAsked(g)
        PROVE  AsAsked(g)'
    <3>1. t \notin Changers(g)' /\ t \notin Filling(g)' /\ t \notin Filling(g) /\ asked'[g] = asked[g]
      BY <1>a, <2>1, <2>2 DEF Changers, Filling
    <3>2. \A s \in Thread \ {t} : pend'[s] = pend[s]
      BY <1>a, <2>2
    <3>3. \A w \in Volume : gvol'[w] = g <=> gvol[w] = g
      BY <1>a, <2>1, OwnRows
    <3>4. QED
      BY <2>3, <3>1, <3>2, <3>3, AsAskedFrame
  <2>4. QED
    BY <1>a, <1>c, <1>d, <2>2, <2>3
<1>8. CASE EndGroup(t)
  <2>1. PICK h \in Group : h = th[t].group
    BY <1>8 DEF EndGroup, GroupsInv, ThreadsFit
  <2>2. /\ UNCHANGED <<group, gvol, asked, pend>> /\ th'[t] = Idle
        /\ th[t].pc = "volume" /\ th[t].todo = {} /\ pend[t] = {}
    BY <1>8, Tasks DEF EndGroup, groups, PendInv
  <2>3. ASSUME NEW g \in Group, AsAsked(g), t \notin Filling(g)
        PROVE  AsAsked(g)'
    <3>1. t \notin Changers(g)' /\ t \notin Filling(g)'
      BY <1>a, <2>2 DEF Changers, Filling
    <3>2. QED
      BY <2>2, <2>3, <3>1, AsAskedFrame
  <2>4. ASSUME NEW g \in Group, AsAsked(g), t \in Filling(g)
        PROVE  AsAsked(g)'
    <3>1. Changers(g) = {t}
      BY <2>4 DEF Filling, AsAsked
    <3>2. Changers(g)' = {} /\ Filling(g)' = {}
      BY <1>a, <1>b, <2>2, <3>1 DEF Changers, Filling
    <3>3. Members(g)' = asked'[g]
      BY <1>a, <2>2, <2>4 DEF AsAsked, Members
    <3>4. QED
      BY <3>2, <3>3 DEF AsAsked
  <2>5. QED
    BY <1>a, <1>c, <1>d, <2>2, <2>3, <2>4
<1>9. CASE CommitDeleteGroup(t)
  <2>1. PICK h \in Group : h = th[t].group
    BY <1>9 DEF CommitDeleteGroup, At, GroupsInv, ThreadsFit
  <2>2. asked' = asked /\ pend' = pend /\ th'[t] = Idle /\ th[t].op = "delete"
    BY <1>9, Tasks DEF CommitDeleteGroup, At
  <2>3. (group' = group /\ gvol' = gvol) \/ group' = [group EXCEPT ![h] = "gone"]
    BY <1>9, <2>1 DEF CommitDeleteGroup
  <2>4. ASSUME NEW g \in Group, AsAsked(g), \A w \in Volume : gvol'[w] = g <=> gvol[w] = g
        PROVE  AsAsked(g)'
    <3>1. t \notin Changers(g)' /\ t \notin Filling(g)' /\ t \notin Filling(g)
      BY <1>a, <2>2 DEF Changers, Filling
    <3>2. QED
      BY <2>2, <2>4, <3>1, AsAskedFrame
  <2>5. CASE group' = group /\ gvol' = gvol
    BY <1>a, <1>c, <1>d, <2>2, <2>4, <2>5
  <2>6. CASE group' = [group EXCEPT ![h] = "gone"]
    <3>1. \A g \in Group \ {h} : group'[g] = group[g] /\ \A w \in Volume : gvol'[w] = g <=> gvol[w] = g
      BY <1>a, <2>1, <2>6, OwnRows
    <3>2. group'[h] = "gone"
      BY <1>a, <2>6
    <3>3. \A s \in Thread : th'[s].group \in Group => group'[th'[s].group] # "new"
      BY <1>a, <1>b, <2>2, <3>1, <3>2 DEF MembersInv
    <3>4. \A g \in Group : group'[g] = "live" /\ Tight("members", g)' => AsAsked(g)'
      BY <1>c, <2>4, <3>1, <3>2
    <3>5. QED
      BY <1>a, <2>2, <3>3, <3>4 DEF MembersInv
  <2>7. QED
    BY <2>3, <2>5, <2>6
<1>10. CASE CommitJob(t) \/ AddJobVolume(t) \/ CommitPolicy(t)
  <2>1. UNCHANGED <<group, gvol, asked, pend>> /\ th[t].op \in {"job", "policy"}
    BY <1>10 DEF CommitJob, AddJobVolume, CommitPolicy, At, groups
  <2>2. th'[t].op \in {"none", "job"} /\ th'[t].group \in {None, th[t].group}
    <3>1. CASE CommitJob(t)
      <4>1. th[t].op = "job"
        BY <3>1 DEF CommitJob, At
      <4>2. CASE th'[t] = Idle
        BY <1>a, <4>2
      <4>3. CASE \E j \in Job : th'[t] = [th[t] EXCEPT !.job = j, !.pc = "volume"]
        BY <1>a, <4>1, <4>3 DEF Requests
      <4>4. QED
        BY <3>1, <4>2, <4>3, JobTask
    <3>2. CASE AddJobVolume(t) \/ CommitPolicy(t)
      BY <1>a, <2>1, <3>2, Tasks DEF AddJobVolume, At
    <3>3. QED
      BY <1>10, <3>1, <3>2
  <2>3. ASSUME NEW g \in Group, AsAsked(g)
        PROVE  AsAsked(g)'
    <3>1. t \notin Changers(g)' /\ t \notin Filling(g)' /\ t \notin Filling(g)
      BY <2>1, <2>2 DEF Changers, Filling
    <3>2. QED
      BY <2>1, <2>3, <3>1, AsAskedFrame
  <2>4. th'[t].group \in Group => group[th'[t].group] # "new"
    BY <1>a, <2>2 DEF MembersInv
  <2>5. QED
    BY <1>c, <1>d, <2>1, <2>3, <2>4
<1>11. CASE GroupRequests(t) \/ JobRequests(t)
  <2>1. \A vols \in (SUBSET Volume) \ {{}} : vols \in SUBSET Volume
    OBVIOUS
  <2>2. QED
    BY <1>11, <1>1, <1>2, <1>3, <2>1 DEF GroupRequests, JobRequests
<1>12. QED
  BY <1>4, <1>5, <1>6, <1>7, <1>8, <1>9, <1>10, <1>11 DEF Steps

\* update_volume_group and create_volume_group end with the volumes they were asked
\* for, unless another request, a conflict or an error came between.
THEOREM GroupIsAsAskedAlways == Spec => []GroupIsAsAsked
<1>1. Init => PendInv /\ MembersInv
  <2>1. ASSUME Init
        PROVE  PendInv
    BY <2>1 DEF Init, PendInv, Idle
  <2>2. ASSUME Init
        PROVE  MembersInv
    BY <2>2, BackupGroupsAssumption DEF Init, MembersInv, Idle
  <2>3. QED
    BY <2>1, <2>2
<1>2. GroupsInv /\ PendInv /\ MembersInv /\ [Next]_vars => (PendInv /\ MembersInv)'
  <2> SUFFICES ASSUME GroupsInv, PendInv, MembersInv, [Next]_vars
               PROVE  (PendInv /\ MembersInv)'
    OBVIOUS
  <2>1. CASE UNCHANGED vars
    BY <2>1 DEF vars, PendInv, MembersInv, AsAsked, Filling, Changers, Members, Tight
  <2>2. QED
    BY <2>1, PendStep, MembersStep DEF Next
<1>3. MembersInv => GroupIsAsAsked
  BY DEF MembersInv, GroupIsAsAsked, AsAsked, Filling, Changers, AtRest, Busy
<1>4. QED
  BY <1>1, <1>2, <1>3, GroupsInvariance, PTL DEF Spec

-----------------------------------------------------------------------------
(* The volumes of the job of a group.                                      *)

\* Requests that make a job for a group.
Covering(g) == {t \in Thread : th[t].op = "job" /\ th[t].group = g}

\* The job that a request made, or looked up to delete it with its group, has that
\* group as long as it lives.
KnowsJob ==
    \A t \in Thread :
       (th[t].op = "job" /\ th[t].pc = "volume") \/ (th[t].op = "delete" /\ th[t].job # None) =>
          /\ job[th[t].job] # None
          /\ Live(th[t].job) => job[th[t].job].group = th[t].group

\* GroupIsCovered with what makes it inductive: a group whose volumes are not yet
\* all there has no job, one request at most makes a job, from all the volumes, and
\* what it has added so far is what is not left to add.
Covers(g) ==
    /\ \A t \in Changers(g) : th[t].op = "group"
    /\ Changers(g) # {} => Covering(g) = {} /\ JobsOf(g) = {}
    /\ \A s, t \in Covering(g) : s = t
    /\ \A i, j \in JobsOf(g) : i = j
    /\ \A t \in Covering(g) :
          IF th[t].pc = "volume"
          THEN /\ JobsOf(g) \subseteq {th[t].job}
               /\ Live(th[t].job) => \A v \in Members(g) \ th[t].todo : jvol[v] = th[t].job
          ELSE JobsOf(g) = {} /\ Members(g) \subseteq th[t].todo
    /\ Covering(g) = {} => \A j \in JobsOf(g) : \A v \in Members(g) : jvol[v] = j
CoveredInv == KnowsJob /\ \A g \in Group : Tight("covered", g) => Covers(g)

\* A job is never forgotten, does not come back and does not change its group.
LEMMA JobKept ==
    ASSUME GroupsInv, NEW t \in Thread, GroupRequests(t) \/ JobRequests(t) \/ Steps(t)
    PROVE  \A j \in Job : job[j] # None =>
              /\ job'[j] # None
              /\ Live(j)' => Live(j) /\ job'[j].group = job[j].group
<1> SUFFICES ASSUME NEW j \in Job, job[j] # None
             PROVE  job'[j] # None /\ (Live(j)' => Live(j) /\ job'[j].group = job[j].group)
  OBVIOUS
<1>a. job \in [Job -> JobRow \cup {None, Gone}] /\ None \notin JobRow /\ None # Gone
  BY BackupGroupsAssumption DEF GroupsInv
<1>1. CASE CommitJob(t)
  <2>1. job'[j] = job[j]
    BY <1>a, <1>1, JobTask
  <2>2. QED
    BY <2>1 DEF Live
<1>2. CASE DeleteJob(t, j)
  <2>1. job'[j] = Gone
    BY <1>a, <1>2 DEF DeleteJob
  <2>2. QED
    BY <1>a, <2>1 DEF Live
<1>3. CASE CommitDeleteGroup(t)
  <2>1. job'[j] \in {job[j], Gone}
    BY <1>a, <1>3 DEF CommitDeleteGroup
  <2>2. QED
    BY <1>a, <2>1 DEF Live
<1>4. CASE CommitPolicy(t)
  <2>1. th[t].job \in Job /\ ~ CommitJob(t)
    BY <1>4 DEF CommitPolicy, CommitJob, At, GroupsInv, ThreadsFit
  <2>2. job'[j] # None
    <3>1. CASE j # th[t].job \/ ~ Live(th[t].job)
      BY <1>a, <1>4, <2>1, <3>1 DEF CommitPolicy
    <3>2. CASE j = th[t].job /\ Live(j)
      <4>1. job[j] \in JobRow /\ th[t] \in Requests
        BY <1>a, <3>2 DEF Live, GroupsInv
      <4>2. job'[j] \in JobRow
        BY <1>a, <1>4, <3>2, <4>1 DEF CommitPolicy, JobRow, Requests
      <4>3. QED
        BY <1>a, <4>2
    <3>3. QED
      BY <3>1, <3>2
  <2>3. QED
    BY <2>1, <2>2, NoNewJob
<1>5. CASE ~ (CommitJob(t) \/ DeleteJob(t, j) \/ CommitDeleteGroup(t) \/ CommitPolicy(t))
  <2>1. job'[j] = job[j]
    BY <1>a, <1>5 DEF GroupRequests, JobRequests, Steps, CreateGroup, UpdateGroup, DeleteGroup, BackupNow,
         CreateJob, UpdateJob, DeleteJob, CommitGroup, ReplaceVolumes, AddVolume, RaiseVolume, EndGroup,
         AddJobVolume, jobs
  <2>2. QED
    BY <2>1 DEF Live
<1>6. QED
  BY <1>1, <1>2, <1>3, <1>4, <1>5

\* Only the deletion of its group takes a volume from a job that lives on.
LEMMA RowsKept ==
    ASSUME GroupsInv, KnowsJob, NEW t \in Thread, GroupRequests(t) \/ JobRequests(t) \/ Steps(t),
           NEW g \in Group, ~ (CommitDeleteGroup(t) /\ th[t].group = g)
    PROVE  \A j \in JobsOf(g), v \in Volume : jvol[v] = j /\ Live(j)' => jvol'[v] = j
<1> SUFFICES ASSUME NEW j \in JobsOf(g), NEW v \in Volume, jvol[v] = j, Live(j)'
             PROVE  jvol'[v] = j
  OBVIOUS
<1>a. j \in Job /\ Live(j) /\ job[j].group = g /\ None \notin Job
  BY BackupGroupsAssumption DEF JobsOf
<1>b. jvol \in [Volume -> Job \cup {None}] /\ job \in [Job -> JobRow \cup {None, Gone}]
  BY DEF GroupsInv, NothingIsLeftBehind, TypeOK
<1>1. ASSUME NEW i \in Job, DeleteJob(t, i)
      PROVE  jvol'[v] = j
  <2>1. job'[i] = Gone
    BY <1>b, <1>1 DEF DeleteJob
  <2>2. i # j
    BY <2>1 DEF Live
  <2>3. QED
    BY <1>b, <1>1, <2>2 DEF DeleteJob
<1>2. CASE CommitDeleteGroup(t)
  <2>1. th[t].op = "delete" /\ th[t].group # g
    BY <1>2 DEF CommitDeleteGroup, At
  <2>2. th[t].job # j
    BY <1>a, <2>1 DEF KnowsJob
  <2>3. v \notin Covered(th[t].job)
    BY <2>2 DEF Covered
  <2>4. QED
    BY <1>b, <1>2, <2>3 DEF CommitDeleteGroup
<1>3. CASE AddJobVolume(t)
  <2>1. PICK w : jvol' = IF jvol[w] = None /\ Live(th[t].job) THEN [jvol EXCEPT ![w] = th[t].job] ELSE jvol
    BY <1>3 DEF AddJobVolume
  <2>2. QED
    BY <1>a, <1>b, <2>1
<1>4. CASE ~ (AddJobVolume(t) \/ CommitDeleteGroup(t) \/ \E i \in Job : DeleteJob(t, i))
  BY <1>4 DEF GroupRequests, JobRequests, Steps, CreateGroup, UpdateGroup, DeleteGroup, BackupNow,
         CreateJob, UpdateJob, CommitGroup, ReplaceVolumes, AddVolume, RaiseVolume, EndGroup,
         CommitJob, CommitPolicy, jobs
<1>5. QED
  BY <1>1, <1>2, <1>3, <1>4

LEMMA KnowsStep ==
    ASSUME GroupsInv, KnowsJob, NEW t \in Thread, GroupRequests(t) \/ JobRequests(t) \/ Steps(t)
    PROVE  KnowsJob'
<1>a. th \in [Thread -> Requests] /\ Idle.op = "none" /\ None \notin Job
  BY IdleFits, BackupGroupsAssumption DEF GroupsInv
<1>b. \A s \in Thread \ {t} : th'[s] = th[s]
  BY OneThread
<1> DEFINE Knows(q) ==
       (q.op = "job" /\ q.pc = "volume") \/ (q.op = "delete" /\ q.job # None) =>
          q.job \in Job /\ job'[q.job] # None /\ (job'[q.job] # Gone => job'[q.job].group = q.group)
\* What a request knows stays known.
<1>c. ASSUME NEW s \in Thread
      PROVE  Knows(th[s])
  <2>1. th[s] \in Requests
    BY <1>a
  <2>2. (th[s].op = "job" /\ th[s].pc = "volume") \/ (th[s].op = "delete" /\ th[s].job # None) => th[s].job \in Job
    BY <2>1 DEF Requests, GroupsInv, ThreadsFit
  <2>3. QED
    BY <2>2, JobKept DEF KnowsJob, Live
<1>1. CASE th'[t].op \notin {"job", "delete"} \/ (th'[t].op = "job" /\ th'[t].pc = "commit")
  BY <1>b, <1>c, <1>1 DEF KnowsJob, Live
<1>2. ASSUME NEW g \in Group, DeleteGroup(t, g)
      PROVE  KnowsJob'
  <2>1. th'[t].op = "delete" /\ th'[t].group = g /\ th'[t].job \in JobsOf(g) \cup {None}
    BY <1>2, Tasks
  <2>2. job' = job
    BY <1>2 DEF DeleteGroup, jobs
  <2>3. Knows(th'[t])
    BY <2>1, <2>2 DEF JobsOf, Live
  <2>4. QED
    BY <1>b, <1>c, <2>3 DEF KnowsJob, Live
<1>3. CASE CommitJob(t)
  <2>1. CASE th'[t] = Idle
    BY <1>a, <1>1, <2>1
  <2>2. ASSUME NEW j \in Job,
               job' = [job EXCEPT ![j] = [group |-> th[t].group, gfs |-> th[t].gfs, days |-> th[t].days]],
               th'[t] = [th[t] EXCEPT !.job = j, !.pc = "volume"]
        PROVE  KnowsJob'
    <3>1. th'[t].op = "job" /\ th'[t].pc = "volume" /\ th'[t].job = j /\ th'[t].group = th[t].group
      BY <1>a, <1>3, <2>2 DEF CommitJob, At, Requests
    <3>2. job'[j] = [group |-> th[t].group, gfs |-> th[t].gfs, days |-> th[t].days]
      BY <2>2 DEF GroupsInv
    <3>3. job'[j] \in JobRow
      BY <1>a, <1>3, <3>2 DEF CommitJob, At, JobRow, GroupsInv, ThreadsFit, Requests
    <3>4. Knows(th'[t])
      BY <3>1, <3>2, <3>3, BackupGroupsAssumption
    <3>5. QED
      BY <1>b, <1>c, <3>4 DEF KnowsJob, Live
  <2>3. QED
    BY <1>3, <2>1, <2>2, JobTask
<1>4. CASE AddVolume(t) \/ AddJobVolume(t)
  <2>1. /\ th'[t].op = th[t].op /\ th'[t].pc = th[t].pc
        /\ th'[t].group = th[t].group /\ th'[t].job = th[t].job
    BY <1>4, Tasks
  <2>2. Knows(th'[t])
    BY <1>c, <2>1
  <2>3. QED
    BY <1>b, <1>c, <2>2 DEF KnowsJob, Live
<1>5. CASE CommitGroup(t)
  <2>1. th'[t].op = "group"
    BY <1>a, <1>5, GroupTask DEF CommitGroup, At, Requests
  <2>2. QED
    BY <1>1, <2>1
<1>6. CASE ReplaceVolumes(t) \/ RaiseVolume(t) \/ EndGroup(t) \/ CommitDeleteGroup(t) \/ CommitPolicy(t)
  BY <1>a, <1>1, <1>6, Tasks
<1>7. CASE GroupRequests(t) \/ JobRequests(t)
  <2>1. \A vols \in (SUBSET Volume) \ {{}} : vols \in SUBSET Volume
    OBVIOUS
  <2>2. QED
    BY <1>a, <1>1, <1>2, <1>7, <2>1, Tasks DEF GroupRequests, JobRequests
<1>8. QED
  BY <1>3, <1>4, <1>5, <1>6, <1>7 DEF Steps

\* A step of a thread that does not work on the volumes of the group nor on its job.
LEMMA CoversFrame ==
    ASSUME GroupsInv, KnowsJob, NEW g \in Group, NEW t \in Thread, Covers(g),
           GroupRequests(t) \/ JobRequests(t) \/ Steps(t),
           t \notin Changers(g), t \notin Covering(g), t \notin Changers(g)', t \notin Covering(g)',
           JobsOf(g)' \subseteq JobsOf(g), Members(g)' \subseteq Members(g),
           \A j \in JobsOf(g), v \in Members(g) : jvol[v] = j /\ Live(j)' => jvol'[v] = j
    PROVE  Covers(g)'
<1>1. \A s \in Thread \ {t} : th'[s] = th[s]
  BY OneThread
<1>2. /\ Changers(g)' = Changers(g) /\ Changers(g) \subseteq Thread \ {t}
      /\ Covering(g)' = Covering(g) /\ Covering(g) \subseteq Thread \ {t}
  BY <1>1 DEF Changers, Covering
<1>3. \A s \in Changers(g) \cup Covering(g) : th'[s] = th[s]
  BY <1>1, <1>2
<1>4. \A j \in JobsOf(g)' : Live(j)'
  BY DEF JobsOf
<1>5. ASSUME NEW s \in Covering(g), th[s].pc = "volume", job'[th[s].job] \notin {None, Gone}
      PROVE  \A v \in Members(g)' \ th[s].todo : jvol'[v] = th[s].job
  <2>1. th[s].op = "job" /\ th[s].group = g /\ th[s].job \in Job
    BY <1>5 DEF Covering, GroupsInv, ThreadsFit
  <2>2. job[th[s].job] # None /\ (Live(th[s].job) => job[th[s].job].group = g)
    BY <1>5, <2>1 DEF KnowsJob, Covering
  <2>3. PICK j \in Job : j = th[s].job
    BY <2>1
  <2>4. Live(j)' /\ Live(j) /\ j \in JobsOf(g)
    BY <1>5, <2>2, <2>3, JobKept DEF JobsOf, Live
  <2>5. \A v \in Members(g) \ th[s].todo : jvol[v] = j
    BY <1>5, <2>3, <2>4 DEF Covers
  <2>6. QED
    BY <2>3, <2>4, <2>5
<1>6. /\ \A s \in Changers(g)' : th'[s].op = "group"
      /\ Changers(g)' # {} => Covering(g)' = {} /\ JobsOf(g)' = {}
      /\ \A r, s \in Covering(g)' : r = s
      /\ \A i, j \in JobsOf(g)' : i = j
  BY <1>2, <1>3 DEF Covers
<1>7. ASSUME NEW s \in Covering(g)
      PROVE  IF th'[s].pc = "volume"
             THEN /\ JobsOf(g)' \subseteq {th'[s].job}
                  /\ job'[th'[s].job] \notin {None, Gone} => \A v \in Members(g)' \ th'[s].todo : jvol'[v] = th'[s].job
             ELSE JobsOf(g)' = {} /\ Members(g)' \subseteq th'[s].todo
  <2>1. th'[s] = th[s]
    BY <1>3
  <2>2. CASE th[s].pc = "volume"
    BY <1>5, <2>1, <2>2 DEF Covers, Live
  <2>3. CASE th[s].pc # "volume"
    BY <2>1, <2>3 DEF Covers
  <2>4. QED
    BY <2>1, <2>2, <2>3
<1>8. Covering(g) = {} => \A j \in JobsOf(g)' : \A v \in Members(g)' : jvol'[v] = j
  BY <1>4 DEF Covers
<1>9. QED
  BY <1>2, <1>6, <1>7, <1>8 DEF Covers, Live

\* While its volumes are added a group has no job.
LEMMA NoJobYet ==
    ASSUME NEW g \in Group, \A s \in Changers(g)' : th'[s].op = "group", Covering(g)' = {}, JobsOf(g)' = {}
    PROVE  Covers(g)'
BY DEF Covers

LEMMA CoversStep ==
    ASSUME GroupsInv, PendInv, MembersInv, CoveredInv,
           NEW t \in Thread, GroupRequests(t) \/ JobRequests(t) \/ Steps(t),
           NEW g \in Group, Tight("covered", g)'
    PROVE  Covers(g)'
<1>a. /\ th[t] \in Requests /\ Idle.op = "none" /\ None \notin Group /\ None \notin Job
      /\ gvol \in [Volume -> Group \cup {None}] /\ jvol \in [Volume -> Job \cup {None}]
      /\ job \in [Job -> JobRow \cup {None, Gone}] /\ None \notin JobRow /\ Gone \notin JobRow
  BY IdleFits, BackupGroupsAssumption DEF GroupsInv, NothingIsLeftBehind, TypeOK
<1>b. /\ \A s \in Thread \ {t} : th'[s] = th[s]
      /\ loose \subseteq loose'
  BY OneThread
<1>c. KnowsJob /\ Covers(g)
  BY <1>b DEF CoveredInv, Tight
<1>d. ASSUME ~ (CommitDeleteGroup(t) /\ th[t].group = g)
      PROVE  \A j \in JobsOf(g), v \in Members(g) : jvol[v] = j /\ Live(j)' => jvol'[v] = j
  BY <1>c, <1>d, RowsKept DEF Members
\* No job is made.
<1>e. ASSUME ~ CommitJob(t)
      PROVE  JobsOf(g)' \subseteq JobsOf(g)
  BY <1>e, NoNewJob DEF JobsOf
\* A step that does not touch the volumes of the group and is not about its job.
<1>f. ASSUME ~ CommitJob(t), ~ CommitDeleteGroup(t), t \notin Changers(g), t \notin Covering(g),
             t \notin Changers(g)', t \notin Covering(g)', Members(g)' \subseteq Members(g)
      PROVE  Covers(g)'
  BY <1>c, <1>d, <1>e, <1>f, CoversFrame
\* The volumes of other groups.
<1>g. ASSUME th[t].group # g
      PROVE  Members(g)' \subseteq Members(g)
  BY <1>a, <1>g, OwnRows DEF Members
<1>1. CASE GroupRequests(t) \/ \E j \in Job : \/ DeleteJob(t, j)
              \/ \E gfs \in BOOLEAN \cup {None}, days \in {None, "some"} : UpdateJob(t, j, gfs, days)
  <2>1. /\ th[t].op = "none" /\ gvol' = gvol /\ th'[t].op # "job"
        /\ th'[t].op \in {"group", "members"} => th'[t].group # g
    <3>1. ASSUME NEW vols \in SUBSET Volume, CreateGroup(t, vols)
          PROVE  th[t].op = "none" /\ gvol' = gvol /\ th'[t].op = "group" /\ th'[t].group # g
      BY <1>a, <3>1, Tasks DEF CreateGroup, groups
    <3>2. ASSUME NEW h \in Group, NEW vols \in SUBSET Volume, UpdateGroup(t, h, vols)
          PROVE  th[t].op = "none" /\ gvol' = gvol /\ th'[t].op = "members" /\ th'[t].group # g
      <4>1. th[t].op = "none" /\ th'[t].op = "members" /\ th'[t].group = h
        BY <3>2, Tasks
      <4>2. gvol' = gvol /\ <<"covered", h>> \in loose'
        BY <3>2 DEF UpdateGroup, groups
      <4>3. QED
        BY <4>1, <4>2 DEF Tight
    <3>3. ASSUME NEW h \in Group, DeleteGroup(t, h)
          PROVE  th[t].op = "none" /\ gvol' = gvol /\ th'[t].op = "delete"
      BY <3>3, Tasks DEF DeleteGroup, groups
    <3>4. ASSUME BackupNow(t) \/ \E j \in Job : DeleteJob(t, j)
          PROVE  th[t].op = "none" /\ gvol' = gvol /\ th'[t].op = "none"
      BY <1>a, <3>4, Tasks DEF BackupNow, DeleteJob, groups
    <3>5. ASSUME NEW j \in Job, NEW gfs \in BOOLEAN \cup {None}, NEW days \in {None, "some"}, UpdateJob(t, j, gfs, days)
          PROVE  th[t].op = "none" /\ gvol' = gvol /\ th'[t].op = "policy"
      BY <3>5, Tasks DEF UpdateJob, groups
    <3>6. \A vols \in (SUBSET Volume) \ {{}} : vols \in SUBSET Volume
      OBVIOUS
    <3>7. QED
      BY <1>1, <3>1, <3>2, <3>3, <3>4, <3>5, <3>6 DEF GroupRequests
  <2>2. ~ CommitJob(t) /\ ~ CommitDeleteGroup(t)
    BY <2>1 DEF CommitJob, CommitDeleteGroup, At
  <2>3. QED
    BY <1>f, <2>1, <2>2 DEF Changers, Covering, Members
<1>2. ASSUME NEW h \in Group, NEW gfs \in BOOLEAN, CreateJob(t, h, gfs)
      PROVE  Covers(g)'
  <2>1. /\ th[t].op = "none" /\ th'[t].op = "job" /\ th'[t].pc = "commit"
        /\ th'[t].group = h /\ th'[t].todo = Members(h)
    BY <1>2, Tasks
  <2>2. gvol' = gvol /\ job' = job /\ JobsOf(h) = {} /\ (Busy(h) # {} => <<"covered", h>> \in loose')
    BY <1>2 DEF CreateJob, groups, jobs
  <2>3. ~ CommitJob(t) /\ ~ CommitDeleteGroup(t)
    BY <2>1 DEF CommitJob, CommitDeleteGroup, At
  <2>4. CASE g # h
    BY <1>f, <2>1, <2>2, <2>3, <2>4 DEF Changers, Covering, Members
  <2>5. CASE g = h
    <3>1. \A s \in Thread : th[s].group # g
      BY <2>2, <2>5 DEF Busy, Tight
    <3>2. Changers(g)' = {} /\ Covering(g)' = {t}
      BY <1>b, <2>1, <2>5, <3>1 DEF Changers, Covering
    <3>3. JobsOf(g)' = {} /\ Members(g)' = Members(g)
      BY <2>2, <2>5 DEF JobsOf, Live, Members
    <3>4. QED
      BY <2>1, <2>5, <3>2, <3>3 DEF Covers
  <2>6. QED
    BY <2>4, <2>5
<1>3. CASE CommitGroup(t)
  <2>1. PICK h \in Group : group[h] = "new" /\ th'[t] = [th[t] EXCEPT !.group = h, !.pc = "volume"]
    BY <1>3, GroupTask
  <2>2. th[t].op = "group" /\ th[t].pc = "commit" /\ th'[t].op = "group" /\ th'[t].group = h
    BY <1>3, <1>a, <2>1 DEF CommitGroup, At, Requests
  <2>3. gvol' = gvol /\ job' = job /\ ~ CommitJob(t) /\ ~ CommitDeleteGroup(t)
    BY <1>3, <2>2 DEF CommitGroup, jobs, CommitJob, CommitDeleteGroup, At
  <2>4. CASE g # h
    <3>1. t \notin Changers(g)' /\ t \notin Covering(g)' /\ t \notin Covering(g) /\ Members(g)' \subseteq Members(g)
      BY <2>2, <2>3, <2>4 DEF Changers, Covering, Members
    <3>2. CASE t \notin Changers(g)
      BY <1>f, <2>3, <3>1, <3>2
    <3>3. CASE t \in Changers(g)
      <4>1. Covering(g)' = {} /\ JobsOf(g)' = {} /\ \A s \in Changers(g)' : th'[s].op = "group"
        BY <1>b, <1>c, <1>e, <2>2, <2>3, <3>3 DEF Covers, Covering, Changers
      <4>2. QED
        BY <4>1, NoJobYet
    <3>4. QED
      BY <3>2, <3>3
  <2>5. CASE g = h
    <3>1. \A s \in Thread : th[s].group # g
      BY <2>1, <2>5 DEF MembersInv
    <3>2. JobsOf(g) = {}
      BY <2>1, <2>5 DEF JobsOf, GroupsInv, NothingIsLeftBehind
    <3>3. Covering(g)' = {} /\ JobsOf(g)' = {} /\ \A s \in Changers(g)' : th'[s].op = "group"
      BY <1>b, <1>e, <2>2, <2>3, <3>1, <3>2 DEF Covering, Changers
    <3>4. QED
      BY <3>3, NoJobYet
  <2>6. QED
    BY <2>4, <2>5
<1>4. CASE ReplaceVolumes(t) \/ AddVolume(t) \/ RaiseVolume(t)
  <2>1. th[t].op \in {"group", "members"} /\ th[t].group \in Group /\ (ReplaceVolumes(t) => th[t].op = "members")
    BY <1>4 DEF ReplaceVolumes, AddVolume, RaiseVolume, At, GroupsInv, ThreadsFit, Requests
  <2>2. th'[t] = Idle \/ (th'[t].op = th[t].op /\ th'[t].group = th[t].group)
    BY <1>4, <2>1, Tasks
  <2>3. ~ CommitJob(t) /\ ~ CommitDeleteGroup(t)
    BY <2>1 DEF CommitJob, CommitDeleteGroup, At
  <2>4. CASE th[t].group # g
    BY <1>a, <1>f, <1>g, <2>1, <2>2, <2>3, <2>4 DEF Changers, Covering
  <2>5. CASE th[t].group = g
    <3>1. t \in Changers(g)
      BY <2>1, <2>5 DEF Changers
    <3>2. Covering(g)' = {} /\ JobsOf(g)' = {} /\ \A s \in Changers(g)' : th'[s].op = "group"
      BY <1>a, <1>b, <1>c, <1>e, <2>1, <2>2, <2>3, <3>1 DEF Covers, Covering, Changers
    <3>3. QED
      BY <3>2, NoJobYet
  <2>6. QED
    BY <2>4, <2>5
<1>5. CASE EndGroup(t)
  <2>1. /\ th[t].op \in {"group", "members", "job"} /\ th[t].pc = "volume" /\ th[t].todo = {}
        /\ gvol' = gvol /\ job' = job /\ jvol' = jvol /\ th'[t] = Idle
    BY <1>5, Tasks DEF EndGroup, groups, jobs
  <2>2. ~ CommitJob(t) /\ ~ CommitDeleteGroup(t)
    BY <2>1 DEF CommitJob, CommitDeleteGroup, At
  <2>3. CASE th[t].group # g
    BY <1>a, <1>f, <1>g, <2>1, <2>2, <2>3 DEF Changers, Covering
  <2>4. CASE th[t].group = g /\ th[t].op # "job"
    <3>1. t \in Changers(g)
      BY <2>1, <2>4 DEF Changers
    <3>2. Covering(g)' = {} /\ JobsOf(g)' = {} /\ \A s \in Changers(g)' : th'[s].op = "group"
      BY <1>a, <1>b, <1>c, <1>e, <2>1, <2>2, <3>1 DEF Covers, Covering, Changers
    <3>3. QED
      BY <3>2, NoJobYet
  <2>5. CASE th[t].group = g /\ th[t].op = "job"
    <3>1. Covering(g) = {t} /\ Changers(g) = {}
      BY <1>c, <2>5 DEF Covering, Covers
    <3>2. Covering(g)' = {} /\ Changers(g)' = {}
      BY <1>a, <1>b, <2>1, <3>1 DEF Covering, Changers
    <3>3. JobsOf(g)' = JobsOf(g) /\ Members(g)' = Members(g)
      BY <2>1 DEF JobsOf, Live, Members
    <3>4. \A j \in JobsOf(g) : \A v \in Members(g) : jvol[v] = j
      BY <1>c, <2>1, <3>1 DEF Covers, JobsOf
    <3>5. \A i, j \in JobsOf(g) : i = j
      BY <1>c DEF Covers
    <3>6. QED
      BY <2>1, <3>2, <3>3, <3>4, <3>5 DEF Covers
  <2>6. QED
    BY <2>3, <2>4, <2>5
<1>6. CASE CommitDeleteGroup(t)
  <2>1. th[t].op = "delete" /\ th'[t] = Idle /\ th[t].group \in Group
    BY <1>6, Tasks DEF CommitDeleteGroup, At, GroupsInv, ThreadsFit
  <2>2. /\ t \notin Changers(g) /\ t \notin Covering(g)
        /\ t \notin Changers(g)' /\ t \notin Covering(g)' /\ ~ CommitJob(t)
    BY <1>a, <2>1 DEF Changers, Covering, CommitJob, At
  <2>3. CASE th[t].group # g
    BY <1>c, <1>d, <1>e, <1>g, <2>2, <2>3, CoversFrame
  <2>4. CASE th[t].group = g
    <3>1. /\ gvol' = [v \in Volume |-> IF gvol[v] = g THEN None ELSE gvol[v]]
          /\ job' = [j \in Job |-> IF j \in JobsOf(g) THEN Gone ELSE job[j]]
      BY <1>6, <2>4 DEF CommitDeleteGroup, Tight
    <3>2. Members(g)' = {}
      BY <1>a, <3>1 DEF Members
    <3>3. \A j \in JobsOf(g) : ~ Live(j)'
      BY <3>1 DEF JobsOf, Live
    <3>4. QED
      BY <1>c, <1>e, <2>2, <3>2, <3>3, CoversFrame
  <2>5. QED
    BY <2>3, <2>4
<1>7. CASE CommitJob(t)
  <2>1. th[t].op = "job" /\ th[t].pc = "commit" /\ th[t].group \in Group
    BY <1>7 DEF CommitJob, At, GroupsInv, ThreadsFit
  <2>2. gvol' = gvol /\ jvol' = jvol /\ Members(g)' = Members(g)
    BY <1>7 DEF CommitJob, groups, Members
  <2>3. CASE group[th[t].group] # "live" /\ job' = job /\ th'[t] = Idle
    <3>1. JobsOf(g)' = JobsOf(g)
      BY <2>3 DEF JobsOf, Live
    <3>2. CASE th[t].group # g
      <4>1. t \notin Changers(g) /\ t \notin Covering(g) /\ t \notin Changers(g)' /\ t \notin Covering(g)'
        BY <1>a, <2>1, <2>3, <3>2 DEF Changers, Covering
      <4>2. QED
        BY <1>c, <2>2, <3>1, <4>1, CoversFrame
    <3>3. CASE th[t].group = g
      <4>1. JobsOf(g)' = {}
        BY <2>3, <3>1, <3>3 DEF JobsOf, GroupsInv, NothingIsLeftBehind
      <4>2. Covering(g) = {t} /\ Changers(g) = {}
        BY <1>c, <2>1, <3>3 DEF Covering, Covers
      <4>3. Covering(g)' = {} /\ Changers(g)' = {}
        BY <1>a, <1>b, <2>3, <4>2 DEF Covering, Changers
      <4>4. QED
        BY <4>1, <4>3, NoJobYet
    <3>4. QED
      BY <3>2, <3>3
  <2>4. ASSUME NEW j \in Job, job[j] = None,
               job' = [job EXCEPT ![j] = [group |-> th[t].group, gfs |-> th[t].gfs, days |-> th[t].days]],
               th'[t] = [th[t] EXCEPT !.job = j, !.pc = "volume"]
        PROVE  Covers(g)'
    <3>1. /\ th'[t].op = "job" /\ th'[t].pc = "volume" /\ th'[t].job = j
          /\ th'[t].group = th[t].group /\ th'[t].todo = th[t].todo
      BY <1>a, <2>1, <2>4 DEF Requests
    <3>2. job'[j] = [group |-> th[t].group, gfs |-> th[t].gfs, days |-> th[t].days]
      BY <1>a, <2>4
    <3>3. job'[j] \in JobRow /\ job'[j].group = th[t].group
      BY <1>a, <2>1, <3>2 DEF JobRow, GroupsInv, ThreadsFit, Requests
    <3>4. \A i \in Job \ {j} : job'[i] = job[i]
      BY <1>a, <2>4
    <3>5. CASE th[t].group # g
      <4>1. t \notin Changers(g) /\ t \notin Covering(g) /\ t \notin Changers(g)' /\ t \notin Covering(g)'
        BY <2>1, <3>1, <3>5 DEF Changers, Covering
      <4>2. JobsOf(g)' \subseteq JobsOf(g)
        BY <3>3, <3>4, <3>5 DEF JobsOf, Live
      <4>3. QED
        BY <1>c, <2>2, <4>1, <4>2, CoversFrame
    <3>6. CASE th[t].group = g
      <4>1. Covering(g) = {t} /\ Changers(g) = {}
        BY <1>c, <2>1, <3>6 DEF Covering, Covers
      <4>2. Covering(g)' = {t} /\ Changers(g)' = {}
        BY <1>b, <3>1, <3>6, <4>1 DEF Covering, Changers
      <4>3. JobsOf(g) = {} /\ Members(g) \subseteq th[t].todo
        BY <1>c, <2>1, <4>1 DEF Covers
      <4>4. JobsOf(g)' \subseteq {j}
        BY <3>4, <4>3 DEF JobsOf, Live
      <4>5. QED
        BY <2>2, <3>1, <4>2, <4>3, <4>4 DEF Covers
    <3>7. QED
      BY <3>5, <3>6
  <2>5. QED
    BY <1>7, <2>3, <2>4, JobTask
<1>8. CASE AddJobVolume(t)
  <2>1. /\ th[t].op = "job" /\ th[t].pc = "volume" /\ th[t].group \in Group /\ th[t].job \in Job
        /\ th[t].todo \subseteq Volume
    BY <1>8, <1>a DEF AddJobVolume, At, GroupsInv, ThreadsFit, Requests
  <2>2. PICK v \in th[t].todo :
           /\ jvol' = IF jvol[v] = None /\ Live(th[t].job) THEN [jvol EXCEPT ![v] = th[t].job] ELSE jvol
           /\ jvol[v] # None => <<"covered", th[t].group>> \in loose'
           /\ th' = [th EXCEPT ![t].todo = @ \ {v}]
    BY <1>8 DEF AddJobVolume
  <2>3. /\ th'[t].op = "job" /\ th'[t].pc = "volume" /\ th'[t].group = th[t].group
        /\ th'[t].job = th[t].job /\ th'[t].todo = th[t].todo \ {v}
    BY <1>a, <2>1, <2>2 DEF Requests, GroupsInv
  <2>4. gvol' = gvol /\ job' = job /\ Members(g)' = Members(g) /\ JobsOf(g)' = JobsOf(g)
    BY <1>8 DEF AddJobVolume, groups, Members, JobsOf, Live
  <2>5. CASE th[t].group # g
    BY <1>f, <2>1, <2>3, <2>4, <2>5 DEF Changers, Covering, CommitJob, CommitDeleteGroup, At
  <2>6. CASE th[t].group = g
    <3>1. PICK j \in Job : j = th[t].job
      BY <2>1
    <3>2. Covering(g) = {t} /\ Changers(g) = {}
      BY <1>c, <2>1, <2>6 DEF Covering, Covers
    <3>3. Covering(g)' = {t} /\ Changers(g)' = {}
      BY <1>b, <2>3, <2>6, <3>2 DEF Covering, Changers
    <3>4. JobsOf(g) \subseteq {j} /\ (Live(j) => \A w \in Members(g) \ th[t].todo : jvol[w] = j)
      BY <1>c, <2>1, <3>1, <3>2 DEF Covers
    <3>5. jvol[v] = None
      BY <2>2, <2>6 DEF Tight
    <3>6. Live(j) => \A w \in Members(g) \ (th[t].todo \ {v}) : jvol'[w] = j
      BY <1>a, <2>1, <2>2, <3>1, <3>4, <3>5 DEF Members
    <3>7. QED
      BY <2>3, <2>4, <3>1, <3>3, <3>4, <3>6 DEF Covers, Live
  <2>7. QED
    BY <2>5, <2>6
<1>9. CASE CommitPolicy(t)
  <2>1. th[t].op = "policy" /\ th'[t] = Idle /\ gvol' = gvol
    BY <1>9, Tasks DEF CommitPolicy, At, groups
  <2>2. QED
    BY <1>a, <1>f, <2>1 DEF Changers, Covering, CommitJob, CommitDeleteGroup, At, Members
<1>10. QED
  BY <1>1, <1>2, <1>3, <1>4, <1>5, <1>6, <1>7, <1>8, <1>9 DEF JobRequests, Steps

\* create_schedule_job ends with every volume of the group in the job, and that
\* stays so, unless the group is updated, a volume was in another job, or requests
\* on the group overlapped.
THEOREM GroupIsCoveredAlways == Spec => []GroupIsCovered
<1> DEFINE IInv == PendInv /\ MembersInv /\ CoveredInv
<1>1. Init => IInv
  <2> SUFFICES ASSUME Init
               PROVE  IInv
    OBVIOUS
  <2>1. PendInv
    BY DEF Init, PendInv, Idle
  <2>2. MembersInv
    BY BackupGroupsAssumption DEF Init, MembersInv, Idle
  <2>3. \A t \in Thread : th[t].op = "none"
    BY DEF Init, Idle
  <2>4. \A j \in Job : ~ Live(j)
    BY DEF Init, Live
  <2>5. KnowsJob /\ \A g \in Group : Changers(g) = {} /\ Covering(g) = {} /\ JobsOf(g) = {}
    BY <2>3, <2>4 DEF KnowsJob, Changers, Covering, JobsOf
  <2>6. QED
    BY <2>1, <2>2, <2>5 DEF CoveredInv, Covers
<1>2. GroupsInv /\ IInv /\ [Next]_vars => IInv'
  <2> SUFFICES ASSUME GroupsInv, IInv, [Next]_vars
               PROVE  IInv'
    OBVIOUS
  <2>1. CASE UNCHANGED vars
    BY <2>1 DEF vars, PendInv, MembersInv, AsAsked, Filling, Changers, Members, Tight,
         CoveredInv, KnowsJob, Covers, Covering, JobsOf, Live
  <2>2. ASSUME NEW t \in Thread, GroupRequests(t) \/ JobRequests(t) \/ Steps(t)
        PROVE  IInv'
    <3>1. KnowsJob'
      BY <2>2, KnowsStep DEF CoveredInv
    <3>2. \A g \in Group : Tight("covered", g)' => Covers(g)'
      BY <2>2, CoversStep
    <3>3. QED
      BY <2>2, <3>1, <3>2, PendStep, MembersStep DEF CoveredInv
  <2>3. QED
    BY <2>1, <2>2 DEF Next
<1>3. IInv => GroupIsCovered
  <2>1. ASSUME IInv, NEW g \in Group, AtRest(g), Tight("covered", g)
        PROVE  \A j \in JobsOf(g) : \A v \in Members(g) : jvol[v] = j
    <3>1. Covering(g) = {}
      BY <2>1 DEF AtRest, Busy, Covering
    <3>2. QED
      BY <2>1, <3>1 DEF CoveredInv, Covers
  <2>2. QED
    BY <2>1 DEF GroupIsCovered
<1>4. QED
  BY <1>1, <1>2, <1>3, GroupsInvariance, PTL DEF Spec

-----------------------------------------------------------------------------
(* The locks of the database (Locking): mutual exclusion for any number of *)
(* processes and lock names and any combination of faults.                 *)

\* The first SELECT of every method keeps the invariant.
LEMMA LockLookStep ==
    ASSUME LockInv, NEW p \in Process, NEW n \in Name,
           Lock(p, n) \/ LockOverride(p, n) \/ Unlock(p, n) \/ NotHeld(p, n)
    PROVE  LockInv'
<1> USE LockingAssumption
<1>1. CASE Lock(p, n)
  <2>1. LockTypeOK'
    BY <1>1 DEF Lock, Enter, LockInv, LockTypeOK
  <2>2. QED
    BY <1>1, <2>1 DEF Lock, Enter, LockInv, LockTypeOK, Alive
<1>2. CASE LockOverride(p, n)
  <2>1. LockTypeOK'
    BY <1>2 DEF LockOverride, LockInv, LockTypeOK
  <2>2. QED
    BY <1>2, <2>1 DEF LockOverride, LockInv, LockTypeOK, Alive
<1>3. CASE Unlock(p, n)
  <2>1. LockTypeOK'
    BY <1>3 DEF Unlock, LockInv, LockTypeOK
  <2>2. QED
    BY <1>3, <2>1 DEF Unlock, LockInv, LockTypeOK, Alive
<1>4. CASE NotHeld(p, n)
  <2>1. LockTypeOK'
    BY <1>4 DEF NotHeld, LockInv, LockTypeOK
  <2>2. QED
    BY <1>4, <2>1 DEF NotHeld, LockInv, LockTypeOK, Alive
<1>5. QED
  BY <1>1, <1>2, <1>3, <1>4

\* The commit of an override: if the row it replaces belongs to a living
\* process the name counts as overridden, if it belongs to a dead one nobody
\* is inside and nobody is about to delete it.
LEMMA LockMergeStep ==
    ASSUME LockInv, NEW p \in Process, Merge(p)
    PROVE  LockInv'
<1> USE LockingAssumption
<1>1. Victims(p) \subseteq Name
  BY DEF Victims, LockInv, LockTypeOK
<1>2. LockTypeOK'
  BY <1>1 DEF Merge, LockInv, LockTypeOK
<1>3. pc[p] = "merge" /\ Alive(p)
  BY DEF Merge, Alive
<1>4. ASSUME NEW q \in Process, ~Alive(q)'
      PROVE  inside'[q] = {} /\ target'[q] = {}
  <2>1. q # p /\ ~Alive(q)
    BY <1>3, <1>4 DEF Merge, Alive, LockInv, LockTypeOK
  <2>2. inside'[q] = inside[q] /\ target'[q] = target[q]
    BY <2>1 DEF Merge, LockInv, LockTypeOK
  <2>3. QED
    BY <2>1, <2>2 DEF LockInv
<1>5. ASSUME NEW q \in Process, NEW n \in Name \ overridden'
      PROVE  /\ n \in inside'[q] => owner'[n] = q
             /\ pc'[q] \in {"unlock", "close"} /\ n \in target'[q] =>
                   owner'[n] = q /\ n \notin inside'[q]
  <2>1. n \in Name \ overridden
    BY <1>5 DEF Merge
  <2>2. /\ n \in inside[q] => owner[n] = q
        /\ pc[q] \in {"unlock", "close"} /\ n \in target[q] =>
              owner[n] = q /\ n \notin inside[q]
    BY <2>1 DEF LockInv
  <2>3. CASE n \in target[p] /\ q # p /\ owner' # owner
    <3>1. n \notin Victims(p)
      BY <1>5, <2>3 DEF Merge
    <3>2. owner[n] = Nobody \/ ~Alive(owner[n])
      BY <3>1, <2>1, <2>3 DEF Victims
    <3>3. n \notin inside[q]
          /\ ~(pc[q] \in {"unlock", "close"} /\ n \in target[q])
      BY <3>2, <2>2, <2>3 DEF LockInv, Alive
    <3>4. pc'[q] = pc[q] /\ target'[q] = target[q] /\ inside'[q] = inside[q]
      BY <2>3 DEF Merge, LockInv, LockTypeOK
    <3>5. QED
      BY <3>3, <3>4
  <2>4. CASE q # p /\ (n \notin target[p] \/ owner' = owner)
    BY <2>1, <2>2, <2>4 DEF Merge, LockInv, LockTypeOK
  <2>5. CASE q = p
    BY <2>1, <2>2, <2>5 DEF Merge, LockInv, LockTypeOK
  <2>6. QED
    BY <2>3, <2>4, <2>5
<1>6. QED
  BY <1>2, <1>4, <1>5 DEF LockInv

\* Releasing rows and dying.
LEMMA LockReleaseStep ==
    ASSUME LockInv, NEW p \in Process,
           Close(p) \/ Delete(p) \/ DeleteFails(p) \/ Crash(p)
    PROVE  LockInv'
<1> USE LockingAssumption
<1>1. CASE Close(p)
  <2>1. LockTypeOK'
    BY <1>1 DEF Close, LockInv, LockTypeOK
  <2>2. ASSUME NEW q \in Process
        PROVE  /\ pc'[q] = "dead" => inside'[q] = {} /\ target'[q] = {}
               /\ inside'[q] \subseteq inside[q]
               /\ q = p => \A n \in target'[q] : owner[n] = q /\ n \notin inside'[q]
               /\ q # p => pc'[q] = pc[q] /\ target'[q] = target[q]
    BY <1>1 DEF Close, LockInv, LockTypeOK, Alive
  <2>3. owner' = owner /\ overridden' = overridden
    BY <1>1 DEF Close
  <2>4. QED
    BY <2>1, <2>2, <2>3 DEF LockInv, Alive
<1>2. CASE Delete(p)
  <2>1. LockTypeOK'
    BY <1>2 DEF Delete, LockInv, LockTypeOK
  <2>2. ASSUME NEW q \in Process, NEW n \in Name \ overridden
        PROVE  /\ n \in inside[q] => owner'[n] = q
               /\ pc'[q] \in {"unlock", "close"} /\ n \in target'[q] =>
                     owner'[n] = q /\ n \notin inside[q]
    <3>1. CASE n \in target[p]
      \* the row is p's own, so nobody else relies on it
      <4>1. owner[n] = p
        BY <1>2, <3>1 DEF Delete, LockInv
      <4>2. n \notin inside[p]
        BY <1>2, <3>1, <4>1 DEF Delete, LockInv
      <4>3. QED
        BY <1>2, <4>1, <4>2 DEF Delete, LockInv, LockTypeOK
    <3>2. CASE n \notin target[p]
      BY <1>2, <3>2 DEF Delete, LockInv, LockTypeOK
    <3>3. QED
      BY <3>1, <3>2
  <2>3. QED
    BY <1>2, <2>1, <2>2 DEF Delete, LockInv, LockTypeOK, Alive
<1>3. CASE DeleteFails(p)
  <2>1. LockTypeOK'
    BY <1>3 DEF DeleteFails, LockInv, LockTypeOK
  <2>2. QED
    BY <1>3, <2>1 DEF DeleteFails, LockInv, LockTypeOK, Alive
<1>4. CASE Crash(p)
  <2>1. LockTypeOK'
    BY <1>4 DEF Crash, LockInv, LockTypeOK
  <2>2. QED
    BY <1>4, <2>1 DEF Crash, LockInv, LockTypeOK, Alive
<1>5. QED
  BY <1>1, <1>2, <1>3, <1>4

\* The row of a name nobody overrode says who is inside (class _Locking).
THEOREM LockInvariance == LockSpec => []LockInv
<1>1. LockInit => LockInv
  BY LockingAssumption DEF LockInit, LockInv, LockTypeOK, Alive
<1>2. LockInv /\ [LockNext]_lockVars => LockInv'
  <2> SUFFICES ASSUME LockInv, [LockNext]_lockVars PROVE LockInv'
    OBVIOUS
  <2>1. CASE LockNext
    BY <2>1, LockLookStep, LockMergeStep, LockReleaseStep DEF LockNext
  <2>2. CASE UNCHANGED lockVars
    BY <2>2 DEF lockVars, LockInv, LockTypeOK, Alive
  <2>3. QED
    BY <2>1, <2>2
<1>3. QED
  BY <1>1, <1>2, PTL DEF LockSpec

\* Two processes are never inside the same lock of _Locking unless it was
\* overridden while its owner was alive.
THEOREM Exclusion == LockSpec => []ExclusiveUnlessOverridden
<1>1. LockInv => ExclusiveUnlessOverridden
  BY DEF LockInv, ExclusiveUnlessOverridden
<1>2. QED
  BY <1>1, LockInvariance, PTL

\* A row of the table locks that was not taken from a living process is deleted
\* only by a method of the process it belongs to: the checks of unlock and
\* unlock_all hold until their DELETE.
THEOREM OwnReleases == LockSpec => ReleasesOwnUnlessOverridden
<1> DEFINE Own == \A n \in Name \ overridden : owner[n] # Nobody /\ owner'[n] = Nobody =>
                     pc[owner[n]] \in {"unlock", "close"} /\ n \in target[owner[n]]
<1>1. LockInv /\ [LockNext]_lockVars => [Own]_lockVars
  <2> SUFFICES ASSUME LockInv, LockNext PROVE Own
    OBVIOUS
  <2> SUFFICES ASSUME NEW n \in Name \ overridden, owner[n] # Nobody, owner'[n] = Nobody
               PROVE  pc[owner[n]] \in {"unlock", "close"} /\ n \in target[owner[n]]
    OBVIOUS
  <2>1. PICK p \in Process : Delete(p)
    BY LockingAssumption
       DEF LockNext, Lock, LockOverride, Unlock, NotHeld, Merge, Close,
           Delete, DeleteFails, Crash, LockInv, LockTypeOK
  <2>2. n \in target[p] /\ pc[p] \in {"unlock", "close"}
    BY <2>1 DEF Delete, LockInv, LockTypeOK
  <2>3. owner[n] = p
    BY <2>2 DEF LockInv
  <2>4. QED
    BY <2>2, <2>3
<1>2. QED
  BY <1>1, LockInvariance, PTL DEF LockSpec, ReleasesOwnUnlessOverridden

=============================================================================
