---------------------------- MODULE BackupGroups ----------------------------
(***************************************************************************)
(* Backup groups of volumes and the schedule jobs of the groups: the rows  *)
(* of volume_group, volume_backup_group, schedule_job and                  *)
(* volume_schedule_job, and the requests of the REST API on them.          *)
(*                                                                         *)
(* A volume has at most one row of volume_backup_group and one of          *)
(* volume_schedule_job (unique columns), so these tables are functions of  *)
(* the volume.  A request commits several times; save() commits or rolls   *)
(* back whatever the session of its thread holds.  A request that raises   *)
(* is answered, and after_request commits what its session holds.          *)
(***************************************************************************)
EXTENDS Naturals, FiniteSets

CONSTANTS
    Volume, Group, Job,
    Thread,     \* threads of the API, each with its session
    MaxAsked,   \* bound: requests in a behaviour
    None, Gone

\* What a row of schedule_job holds: its group, whether its policy is that of
\* grandfather, father and son, and its days.
JobRow == [group : Group, gfs : BOOLEAN, days : {"some", "all"}]

ASSUME BackupGroupsAssumption ==
    /\ MaxAsked \in Nat
    /\ None \notin Group \cup Job \cup BOOLEAN
    /\ None \notin JobRow /\ Gone \notin JobRow /\ None # Gone

VARIABLES
    group,     \* groups: "new", "live", "gone"
    gvol,      \* volume_backup_group: the group of a volume
    job,       \* schedule_job: None, Gone, or group, gfs, days
    jvol,      \* volume_schedule_job: the job of a volume
    th,        \* what a thread does
    pend,      \* volumes whose rows the session of a thread deleted, uncommitted
    requests,  \* how many requests came
    asked,     \* history: the volumes a group was last asked to have
    loose      \* history: <<what, whose>>, the facts a conflict or an overlap broke

vars == <<group, gvol, job, jvol, th, pend, requests, asked, loose>>
jobs == <<job, jvol>>
groups == <<group, gvol, asked>>

Idle == [op |-> "none", group |-> None, job |-> None, todo |-> {}, gfs |-> FALSE, days |-> "some", pc |-> "none"]

Init ==
    /\ group = [g \in Group |-> "new"]
    /\ gvol = [v \in Volume |-> None]
    /\ job = [j \in Job |-> None]
    /\ jvol = [v \in Volume |-> None]
    /\ th = [t \in Thread |-> Idle]
    /\ pend = [t \in Thread |-> {}]
    /\ requests = 0
    /\ asked = [g \in Group |-> {}]
    /\ loose = {}

-----------------------------------------------------------------------------
Members(g) == {v \in Volume : gvol[v] = g}
Covered(j) == {v \in Volume : jvol[v] = j}
Live(j) == job[j] # None /\ job[j] # Gone
JobsOf(g) == {j \in Job : Live(j) /\ job[j].group = g}

Ask(t, q) ==
    /\ th[t].op = "none"
    /\ requests < MaxAsked
    /\ requests' = requests + 1
    /\ th' = [th EXCEPT ![t] = q]
At(t, op, pc) == th[t].op = op /\ th[t].pc = pc
Goto(t, pc) == th' = [th EXCEPT ![t].pc = pc]
Done(t) == th' = [th EXCEPT ![t] = Idle]

\* Threads at work on a group.
Busy(g) == {t \in Thread : th[t].group = g}
\* Rows another session deleted and has not committed are locked.
Locked(t) == UNION {pend[s] : s \in Thread \ {t}}
\* A commit makes the deletions of the session final.
Left(t) == [v \in Volume |-> IF v \in pend[t] THEN None ELSE gvol[v]]
Commit(t) == pend' = [pend EXCEPT ![t] = {}]

-----------------------------------------------------------------------------
(* Groups.                                                                 *)

\* create_volume_group: no volume is in a group yet.
CreateGroup(t, vols) ==
    /\ \A v \in vols : gvol[v] = None
    /\ Ask(t, [Idle EXCEPT !.op = "group", !.todo = vols, !.pc = "commit"])
    /\ UNCHANGED <<groups, jobs, pend, loose>>

\* VolumeGroupModel.create: the row of the group is committed first.
CommitGroup(t) ==
    /\ At(t, "group", "commit")
    /\ \E g \in {g \in Group : group[g] = "new"} :
          /\ group' = [group EXCEPT ![g] = "live"]
          /\ asked' = [asked EXCEPT ![g] = th[t].todo]
          /\ th' = [th EXCEPT ![t].group = g, ![t].pc = "volume"]
    /\ UNCHANGED <<gvol, jobs, pend, requests, loose>>

\* update_volume_group: the name and the description are saved before the volumes.
UpdateGroup(t, g, vols) ==
    /\ group[g] = "live"
    /\ Ask(t, [Idle EXCEPT !.op = "members", !.group = g, !.todo = vols, !.pc = "replace"])
    /\ loose' = loose \cup (IF Busy(g) = {} THEN {} ELSE {<<"members", g>>}) \cup {<<"covered", g>>}
    /\ UNCHANGED <<groups, jobs, pend>>

ReplaceVolumes_Adds(t) ==
    /\ At(t, "members", "replace")
    /\ asked' = [asked EXCEPT ![th[t].group] = th[t].todo]
    /\ Goto(t, "volume")
    /\ UNCHANGED <<group, gvol, jobs, pend, requests, loose>>

\* VolumeGroupModel.update: the rows of the group are deleted, uncommitted.
ReplaceVolumes(t) ==
    /\ At(t, "members", "replace")
    /\ Members(th[t].group) \cap Locked(t) = {}
    /\ pend' = [pend EXCEPT ![t] = Members(th[t].group)]
    /\ asked' = [asked EXCEPT ![th[t].group] = th[t].todo]
    /\ Goto(t, "volume")
    /\ UNCHANGED <<group, gvol, jobs, requests, loose>>

\* The row of one volume and a commit.  A volume that is in a group, a group that
\* is gone, or a deadlock over locked rows makes save() roll back, which restores
\* the deleted rows; the error is not looked at and the next volume follows.
AddVolume(t) ==
    /\ th[t].op \in {"group", "members"} /\ th[t].pc = "volume" /\ th[t].todo # {}
    /\ \E v \in th[t].todo :
          /\ IF group[th[t].group] = "live" /\ Left(t)[v] = None
             THEN gvol' = [Left(t) EXCEPT ![v] = th[t].group] /\ UNCHANGED loose
             ELSE loose' = loose \cup {<<"members", th[t].group>>} /\ UNCHANGED gvol
          /\ th' = [th EXCEPT ![t].todo = @ \ {v}]
    /\ Commit(t)
    /\ UNCHANGED <<group, asked, jobs, requests>>

\* A volume without the identifier of its virtual machine raises.  The request ends
\* with what it has committed, and with the deletion it has not.
RaiseVolume(t) ==
    /\ th[t].op \in {"group", "members"} /\ th[t].pc = "volume" /\ th[t].todo # {}
    /\ gvol' = Left(t)
    /\ Commit(t)
    /\ loose' = loose \cup {<<"members", th[t].group>>}
    /\ Done(t)
    /\ UNCHANGED <<group, asked, jobs, requests>>

EndGroup(t) ==
    /\ th[t].op \in {"group", "members", "job"} /\ th[t].pc = "volume" /\ th[t].todo = {}
    /\ Done(t)
    /\ UNCHANGED <<groups, jobs, pend, requests, loose>>

\* delete_volume_group: the job of the group is looked up; two jobs raise.
DeleteGroup(t, g) ==
    /\ group[g] = "live"
    /\ Cardinality(JobsOf(g)) <= 1
    /\ \E j \in IF JobsOf(g) = {} THEN {None} ELSE JobsOf(g) :
          Ask(t, [Idle EXCEPT !.op = "delete", !.group = g, !.job = j, !.pc = "commit"])
    /\ UNCHANGED <<groups, jobs, pend, loose>>

CommitDeleteGroup_KeepsJob(t) ==
    /\ At(t, "delete", "commit")
    /\ group' = [group EXCEPT ![th[t].group] = "gone"]
    /\ job' = [j \in Job |-> IF j \in JobsOf(th[t].group) THEN Gone ELSE job[j]]
    /\ gvol' = [v \in Volume |-> IF gvol[v] = th[t].group THEN None ELSE gvol[v]]
    /\ Done(t)
    /\ UNCHANGED <<jvol, pend, requests, asked, loose>>

\* VolumeGroupModel.delete: the volumes of the job that was looked up, the jobs and
\* the volumes of the group and the group, in one transaction.  A job made since
\* then has volumes that refuse it: the request raises, and the deletions before
\* that statement are undone or committed, which depends on the database.
CommitDeleteGroup(t) ==
    /\ At(t, "delete", "commit")
    /\ Members(th[t].group) \cap Locked(t) = {}
    /\ LET g == th[t].group
           doomed == Covered(th[t].job)
           Uncovered == [v \in Volume |-> IF v \in doomed /\ jvol[v] # None THEN None ELSE jvol[v]]
       IN  IF group[g] = "live" /\ \A j \in JobsOf(g) : Covered(j) \subseteq doomed
           THEN /\ group' = [group EXCEPT ![g] = "gone"]
                /\ gvol' = [v \in Volume |-> IF gvol[v] = g THEN None ELSE gvol[v]]
                /\ job' = [j \in Job |-> IF j \in JobsOf(g) THEN Gone ELSE job[j]]
                /\ jvol' = Uncovered
                /\ UNCHANGED loose
           ELSE /\ jvol' \in {jvol, Uncovered}
                /\ loose' = loose \cup {<<"covered", g>>}
                /\ UNCHANGED <<group, gvol, job>>
    /\ Done(t)
    /\ UNCHANGED <<pend, requests, asked>>

\* create_volume_backup_groups: a version without a virtual machine is refused by
\* the database, so no backup is made and nothing changes.
BackupNow(t) ==
    /\ Ask(t, Idle)
    /\ UNCHANGED <<groups, jobs, pend, loose>>

\* What the endpoints of groups accept; a list without volumes is accepted by the
\* first, and changes nothing in the second.
GroupRequests(t) ==
    \/ \E vols \in SUBSET Volume : CreateGroup(t, vols)
    \/ \E g \in Group : DeleteGroup(t, g) \/ \E vols \in (SUBSET Volume) \ {{}} : UpdateGroup(t, g, vols)
    \/ BackupNow(t)

-----------------------------------------------------------------------------
(* Schedule jobs.                                                          *)

CreateJob_Unchecked(t, g, gfs) ==
    /\ group[g] = "live"
    /\ Members(g) # {}
    /\ Ask(t, [Idle EXCEPT !.op = "job", !.group = g, !.todo = Members(g), !.gfs = gfs,
                           !.days = IF gfs THEN "all" ELSE "some", !.pc = "commit"])
    /\ UNCHANGED <<groups, jobs, pend, loose>>

\* create_schedule_job: the group has no job yet, and it has volumes.  The policy
\* of grandfather, father and son (retention -1) takes all the days.
CreateJob(t, g, gfs) ==
    /\ group[g] = "live"
    /\ JobsOf(g) = {}
    /\ Members(g) # {}
    /\ Ask(t, [Idle EXCEPT !.op = "job", !.group = g, !.todo = Members(g), !.gfs = gfs,
                           !.days = IF gfs THEN "all" ELSE "some", !.pc = "commit"])
    /\ loose' = loose \cup (IF Busy(g) = {} THEN {} ELSE {<<"covered", g>>})
                     \cup (IF \E s \in Busy(g) : th[s].op = "job" THEN {<<"single", g>>} ELSE {})
    /\ UNCHANGED <<groups, jobs, pend>>

\* ScheduleJobModel.create: the row of the job, then the rows of its volumes.
CommitJob(t) ==
    /\ At(t, "job", "commit")
    /\ IF group[th[t].group] = "live"
       THEN \E j \in {j \in Job : job[j] = None} :
               /\ job' = [job EXCEPT ![j] = [group |-> th[t].group, gfs |-> th[t].gfs, days |-> th[t].days]]
               /\ th' = [th EXCEPT ![t].job = j, ![t].pc = "volume"]
       ELSE Done(t) /\ UNCHANGED job
    /\ UNCHANGED <<groups, jvol, pend, requests, loose>>

AddJobVolume_First(t) ==
    /\ At(t, "job", "volume") /\ th[t].todo # {}
    /\ \E v \in th[t].todo :
          jvol' = IF jvol[v] = None /\ Live(th[t].job) THEN [jvol EXCEPT ![v] = th[t].job] ELSE jvol
    /\ th' = [th EXCEPT ![t].todo = {}]
    /\ UNCHANGED <<groups, job, pend, requests, loose>>

\* A volume that is in a job already is left out; the error is not looked at.
AddJobVolume(t) ==
    /\ At(t, "job", "volume") /\ th[t].todo # {}
    /\ \E v \in th[t].todo :
          /\ jvol' = IF jvol[v] = None /\ Live(th[t].job) THEN [jvol EXCEPT ![v] = th[t].job] ELSE jvol
          /\ loose' = loose \cup (IF jvol[v] = None THEN {} ELSE {<<"covered", th[t].group>>})
          /\ th' = [th EXCEPT ![t].todo = @ \ {v}]
    /\ UNCHANGED <<groups, job, pend, requests>>

UpdateJob_AnyDays(t, j, gfs, days) ==
    /\ Live(j)
    /\ Ask(t, [Idle EXCEPT !.op = "policy", !.job = j, !.gfs = IF gfs = None THEN job[j].gfs ELSE gfs,
                           !.days = days, !.pc = "commit"])
    /\ UNCHANGED <<groups, jobs, pend, loose>>

\* update_schedule_job: the policy takes all the days, when it is asked for and
\* when it is what the job has and stays.  A request without days raises otherwise.
UpdateJob(t, j, gfs, days) ==
    /\ Live(j)
    /\ LET all == gfs = TRUE \/ (gfs = None /\ job[j].gfs)
       IN  /\ all \/ days # None
           /\ Ask(t, [Idle EXCEPT !.op = "policy", !.job = j, !.gfs = gfs,
                                  !.days = IF all THEN "all" ELSE days, !.pc = "commit"])
    /\ loose' = loose \cup IF \E s \in Thread : th[s].op = "policy" /\ th[s].job = j THEN {<<"days", j>>} ELSE {}
    /\ UNCHANGED <<groups, jobs, pend>>

\* ScheduleJobModel.update: only what the request names is written.
CommitPolicy(t) ==
    /\ At(t, "policy", "commit")
    /\ job' = IF Live(th[t].job)
              THEN [job EXCEPT ![th[t].job].days = th[t].days,
                               ![th[t].job].gfs = IF th[t].gfs = None THEN @ ELSE th[t].gfs]
              ELSE job
    /\ Done(t)
    /\ UNCHANGED <<groups, jvol, pend, requests, loose>>

\* delete_schedule_job: the volumes of the job and the job in one transaction.
DeleteJob(t, j) ==
    /\ Live(j)
    /\ Ask(t, Idle)
    /\ job' = [job EXCEPT ![j] = Gone]
    /\ jvol' = [v \in Volume |-> IF jvol[v] = j THEN None ELSE jvol[v]]
    /\ UNCHANGED <<groups, pend, loose>>

JobRequests(t) ==
    \/ \E g \in Group, gfs \in BOOLEAN : CreateJob(t, g, gfs)
    \/ \E j \in Job : DeleteJob(t, j) \/ \E gfs \in BOOLEAN \cup {None}, days \in {None, "some"} : UpdateJob(t, j, gfs, days)

-----------------------------------------------------------------------------
Steps(t) ==
    \/ CommitGroup(t) \/ ReplaceVolumes(t) \/ AddVolume(t) \/ RaiseVolume(t) \/ EndGroup(t) \/ CommitDeleteGroup(t)
    \/ CommitJob(t) \/ AddJobVolume(t) \/ CommitPolicy(t)

Next == \E t \in Thread : GroupRequests(t) \/ JobRequests(t) \/ Steps(t)

Spec == Init /\ [][Next]_vars

-----------------------------------------------------------------------------
(* Properties.                                                             *)

TypeOK ==
    /\ group \in [Group -> {"new", "live", "gone"}]
    /\ gvol \in [Volume -> Group \cup {None}]
    /\ jvol \in [Volume -> Job \cup {None}]
    /\ pend \in [Thread -> SUBSET Volume]
    /\ loose \subseteq {"members", "covered", "single", "days"} \X (Group \cup Job)

Tight(what, x) == <<what, x>> \notin loose
AtRest(g) == Busy(g) = {}

\* A deletion leaves nothing behind: the volumes of a group that is gone are free
\* for another one, the jobs of the group and the volumes of the jobs go with it,
\* whatever other requests on the group are under way.
NothingIsLeftBehind ==
    /\ TypeOK
    /\ \A v \in Volume : gvol[v] # None => group[gvol[v]] = "live"
    /\ \A v \in Volume : jvol[v] # None => Live(jvol[v])
    /\ \A j \in Job : Live(j) => group[job[j].group] = "live"

\* What a thread at work has in its hands.
Requests ==
    [op : {"none", "group", "members", "delete", "job", "policy"}, group : Group \cup {None},
     job : Job \cup {None}, todo : SUBSET Volume, gfs : BOOLEAN \cup {None},
     days : {"some", "all"}, pc : {"none", "commit", "replace", "volume"}]
ThreadsFit ==
    \A t \in Thread :
       /\ th[t].op \in {"members", "delete", "job"} => th[t].group \in Group
       /\ th[t].op = "group" /\ th[t].pc = "volume" => th[t].group \in Group
       /\ th[t].op = "job" => th[t].gfs \in BOOLEAN
       /\ th[t].op = "job" /\ th[t].pc = "volume" => th[t].job \in Job
       /\ th[t].op = "policy" => th[t].job \in Job

\* NothingIsLeftBehind with what makes it inductive.
GroupsInv ==
    /\ NothingIsLeftBehind
    /\ job \in [Job -> JobRow \cup {None, Gone}]
    /\ th \in [Thread -> Requests]
    /\ ThreadsFit

\* The volumes of a group are those of the last request that was carried out,
\* though every row is committed on its own and errors are not looked at.  What
\* breaks that: a volume that is in another group (also when two requests pass
\* the check together), a group deleted meanwhile, two updates at a time, and a
\* request that raised, whose session is committed all the same.
GroupIsAsAsked ==
    \A g \in Group : group[g] = "live" /\ AtRest(g) /\ Tight("members", g) => Members(g) = asked[g]

\* create_schedule_job checks that the group has no job and commits later, without
\* a constraint: two jobs for a group come only from requests that overlap.
OneJobPerGroup ==
    \A g \in Group : Tight("single", g) => Cardinality(JobsOf(g)) <= 1

\* Every volume of a group with a job is in that job, whose rows are committed one
\* by one after it.  What breaks that: a volume that another job has, which is left
\* out and has no job once that one is deleted; an update of the group, which
\* changes nothing in its job; requests on the group that overlap.
GroupIsCovered ==
    \A g \in Group : \A j \in JobsOf(g) :
       AtRest(g) /\ Tight("covered", g) => \A v \in Members(g) : jvol[v] = j

\* A job with the policy of grandfather, father and son runs every day, from
\* which the retention of weeks and months is computed, unless two requests
\* change one job at a time.
PolicyRunsDaily ==
    \A j \in Job : Live(j) /\ job[j].gfs /\ Tight("days", j) => job[j].days = "all"

=============================================================================
