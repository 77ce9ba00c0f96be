---------------------------- MODULE ControlPlane ----------------------------
(***************************************************************************)
(* Nodes, storages, versions and quotas: the requests of the REST API, the *)
(* rows they commit, the Celery tasks they send and the gRPC servers on    *)
(* the nodes, which own the logical volumes of the storages.               *)
(*                                                                         *)
(* A user has at most one storage, which has his name: storages are known  *)
(* by their users.  Sizes are in units that a backup may write.  The       *)
(* database, the volumes and the queue belong to different processes, so   *)
(* a request is one step per transaction, per message and per remote call. *)
(* Requests that are refused, and those that only read, change nothing and *)
(* have no step.                                                           *)
(***************************************************************************)
EXTENDS Integers, FiniteSets, FiniteSetsExt, Functions

CONSTANTS
    User, Node, Version,
    Request,    \* concurrent requests
    MaxSize,    \* bound: size of a storage
    OldSizes,   \* bound: sizes of the storages there are at the start
    Permit,     \* lvm_permit_overcommit, in units of size
    MaxWrite,   \* bound: what one backup writes
    MaxAsked,   \* bound: requests and deaths of nodes in a behaviour
    NoRow, NoUser, NoNode

Faults == {"message", "script", "node"}

VARIABLES
    node,   \* rows of nodes: deleted, disk_used_overcommit
    up,     \* the nodes whose server answers
    row,    \* rows of storages: node, disk_allowed, disk_used, deleted
    vol,    \* size of the logical volume of a user that is mounted on a node, 0 for none
    stray,  \* size of a logical volume of his that is there and not mounted
    load,   \* what the storage of a user holds
    ver,    \* rows of versions: status, user
    refs,   \* <<table, user>>: other rows that refer to a storage
    queue,  \* tasks of Celery
    job,    \* what the servers do for the tasks they were given
    req,    \* requests under way
    asked,  \* how many requests came and nodes died
    fault,  \* what fails now and then in this behaviour, one of Faults
    lost,   \* history: versions whose task or server was lost
    loose   \* history: <<what, whose>>, the facts nobody keeps true any more

vars == <<node, up, row, vol, stray, load, ver, refs, queue, job, req, asked, fault, lost, loose>>
disk == <<vol, stray, load>>
work == <<ver, queue, job, lost>>

Sizes == 1 .. MaxSize
NoReq == [op |-> "none", user |-> NoUser, node |-> NoNode, size |-> 0, force |-> FALSE,
          todo |-> 0, ver |-> NoRow, value |-> 0, pc |-> "none"]
Task == Version \X {"backup", "remove", "restore"}
NoVer == [status |-> "none", user |-> NoUser]
NoJob == [pc |-> "none", value |-> 0]

\* lvmctl_get_node_overcommit: the sum of the volumes, in units of the pool.
Committed(volumes, n) == SumFunction([u \in User |-> volumes[u][n]])

\* The logical volumes there may be, the sums of those of a node, and the rows of
\* nodes and storages.
Volumes == [User -> [Node -> 0 .. MaxSize]]
Sums == {0} \cup {Committed(volumes, n) : volumes \in Volumes, n \in Node}
NodeRow == [deleted : BOOLEAN, over : Sums]
StorageRow == [node : Node, allowed : Sizes, used : Int, deleted : BOOLEAN]

ASSUME ControlPlaneAssumption ==
    /\ MaxSize \in Nat \ {0} /\ Permit \in Nat /\ MaxWrite \in Nat \ {0}
    /\ MaxAsked \in Nat /\ OldSizes \subseteq Sizes
    /\ IsFiniteSet(User) /\ IsFiniteSet(Node)
    /\ NoUser \notin User /\ NoNode \notin Node
    /\ NoRow \notin NodeRow /\ NoRow \notin StorageRow

\* Some users have had a storage since before, of size s.
Init ==
    /\ up = Node
    /\ \E place \in [User -> Node \cup {NoNode}], s \in OldSizes :
          /\ row = [u \in User |-> IF place[u] = NoNode THEN NoRow
                                 ELSE [node |-> place[u], allowed |-> s, used |-> 0, deleted |-> FALSE]]
          /\ vol = [u \in User |-> [n \in Node |-> IF place[u] = n THEN s ELSE 0]]
          /\ node = [n \in Node |-> [deleted |-> FALSE, over |-> Committed(vol, n)]]
    /\ load = [u \in User |-> 0] /\ stray = [u \in User |-> [n \in Node |-> 0]]
    /\ refs = {}
    /\ ver = [v \in Version |-> NoVer]
    /\ queue = {}
    /\ job = [t \in Task |-> NoJob]
    /\ req = [r \in Request |-> NoReq]
    /\ asked = 0 /\ fault \in Faults
    /\ lost = {} /\ loose = {}

Loosen(facts) == loose' = loose \cup facts

-----------------------------------------------------------------------------
(* Requests.                                                               *)

Versions(u) == {v \in Version : ver[v].user = u /\ ver[v].status # "removed"}

\* The rows of versions, jobs and deleted blocks refer to storages.
Referring == {"jobs", "blocks"} \X User
Referred(u) == Versions(u) # {} \/ \E ref \in refs : ref[2] = u

\* The row of a storage is deleted or marked; a foreign key that refers to it
\* refuses the first.  It is changed where it is still there.
DeleteRow(u, force) ==
    row' = [row EXCEPT ![u] = IF @ = NoRow \/ (force /\ Referred(u)) THEN @
                              ELSE IF force THEN NoRow ELSE [@ EXCEPT !.deleted = TRUE]]
UpdateRow(u, changed) == row' = [row EXCEPT ![u] = IF @ = NoRow THEN @ ELSE changed]

\* exec_manager_func runs one function of a controller; an exception ends it
\* with the answer 500 and undoes no commit.
Asked == asked < MaxAsked /\ asked' = asked + 1
Ask(r, q) == req[r].op = "none" /\ Asked /\ req' = [req EXCEPT ![r] = q]
Done(r) == req' = [req EXCEPT ![r] = NoReq]
Goto(r, pc) == req' = [req EXCEPT ![r].pc = pc]
At(r, op, pc) == req[r].op = op /\ req[r].pc = pc
Now(op, u) == [NoReq EXCEPT !.op = op, !.user = u, !.pc = "call"]

Storing(u) == {r \in Request : req[r].user = u /\ req[r].op \in {"create", "update", "delete"}}
\* A second request for the storage of u, on node n, while one is under way.
Contest(u, n) ==
    IF Storing(u) = {} THEN {}
    ELSE {<<"volume", u>>, <<"use", u>>, <<"over", n>>} \cup {<<"over", req[r].node>> : r \in Storing(u)}
Jobs(u) == {t \in Task : ver[t[1]].user = u /\ job[t] # NoJob}
\* What is stored changes while a thread has not recorded what it measured.
Blur(u) == IF \E t \in Jobs(u) : job[t].pc = "record" THEN {<<"use", u>>} ELSE {}

\* StorageModel.create: of the active nodes that are not overcommitted, one with
\* the fewest storages.
Storages(n) == {u \in User : row[u] # NoRow /\ row[u].node = n}
Candidates == {n \in Node : node[n] # NoRow /\ ~ node[n].deleted /\ node[n].over <= Permit}
Selected == {n \in Candidates : \A m \in Candidates : Cardinality(Storages(n)) <= Cardinality(Storages(m))}

\* create_storage, up to the commit of the row.  The name and the user of a
\* storage are unique, also among the deleted ones.
CreateStorage(r, u, s) ==
    /\ row[u] = NoRow
    /\ \E n \in Selected :
          /\ row' = [row EXCEPT ![u] = [node |-> n, allowed |-> s, used |-> 0, deleted |-> FALSE]]
          /\ Ask(r, [Now("create", u) EXCEPT !.node = n, !.size = s])
          /\ Loosen(Contest(u, n))
    /\ UNCHANGED <<node, up, disk, work, fault, refs>>

\* update_storage, up to the remote call: a storage only grows.
UpdateStorage(r, u, s) ==
    /\ row[u] # NoRow
    /\ s > row[u].allowed
    /\ Ask(r, [Now("update", u) EXCEPT !.node = row[u].node, !.size = s])
    /\ Loosen(Contest(u, row[u].node))
    /\ UNCHANGED <<node, up, row, disk, work, fault, refs>>

\* delete_storage, up to the remote call.
DeleteStorage(r, u, force) ==
    /\ row[u] # NoRow
    /\ Ask(r, [Now("delete", u) EXCEPT !.node = row[u].node, !.force = force])
    /\ Loosen(Contest(u, row[u].node))
    /\ UNCHANGED <<node, up, row, disk, work, fault, refs>>

\* create_schedule_job, and delete_schedule_job of the last job of a storage.
ScheduleJobs(r, u) ==
    /\ req[r].op = "none" /\ Asked
    /\ \/ row[u] # NoRow /\ refs' = refs \cup {<<"jobs", u>>}
       \/ <<"jobs", u>> \in refs /\ refs' = refs \ {<<"jobs", u>>}
    /\ UNCHANGED <<node, up, row, disk, work, req, loose, fault>>

\* What the endpoints of storages accept: a new storage has at least one unit,
\* and a deletion is forced unless the request says otherwise.
StorageRequests(r) ==
    \E u \in User :
       \/ \E s \in Sizes : CreateStorage(r, u, s) \/ UpdateStorage(r, u, s)
       \/ \E force \in BOOLEAN : DeleteStorage(r, u, force)
       \/ ScheduleJobs(r, u)

-----------------------------------------------------------------------------
(* The servers of the nodes and the logical volumes.                       *)

\* The scripts of the logical volumes, which run to their end whatever fails.  A
\* volume that is there is not made again: it is formatted and mounted, unless it
\* is mounted already.  None gets smaller.
MakeVolume(u, n, s) ==
    /\ vol' = [vol EXCEPT ![u][n] = IF @ # 0 THEN @ ELSE IF stray[u][n] # 0 THEN stray[u][n] ELSE s]
    /\ stray' = [stray EXCEPT ![u][n] = 0]
MakeStray(u, n, s) == stray' = [stray EXCEPT ![u][n] = IF @ = 0 THEN s ELSE @] /\ UNCHANGED vol
Extended(size, s) == IF size = 0 \/ size >= s THEN size ELSE s
ExtendVolume(u, n, s) ==
    /\ vol' = [vol EXCEPT ![u][n] = Extended(@, s)]
    /\ stray' = [stray EXCEPT ![u][n] = Extended(@, s)]
Remount(u, n, s) ==
    /\ vol' = [vol EXCEPT ![u][n] = Extended(stray[u][n], s)]
    /\ stray' = [stray EXCEPT ![u][n] = 0]
DropVolume(u, n) ==
    /\ vol' = [vol EXCEPT ![u][n] = 0]
    /\ stray' = [stray EXCEPT ![u][n] = 0]
\* The volume is unmounted, and lvremove fails.
LeaveVolume(u, n) ==
    /\ vol' = [vol EXCEPT ![u][n] = 0]
    /\ stray' = [stray EXCEPT ![u][n] = IF vol[u][n] # 0 THEN vol[u][n] ELSE @]
DropFiles(u) == load' = [load EXCEPT ![u] = 0]
Available(u, n) == vol[u][n] - load[u]

\* A remote call needs a server that answers.
Calls(r, op) == At(r, op, "call") /\ req[r].node \in up

\* A volume of n changes while the sum another server thread took is not recorded.
Overtake(n) == IF \E r \in Request : req[r].node = n /\ req[r].pc = "record" THEN {<<"over", n>>} ELSE {}
Queried(r) == req' = [req EXCEPT ![r].pc = "record", ![r].value = Committed(vol', req[r].node)]

\* map_storage: the volume is made and the overcommitment queried.  The script
\* fails where the volume is there already, because it cannot be mounted twice.
MapStorage(r) ==
    /\ Calls(r, "create")
    /\ vol[req[r].user][req[r].node] = 0
    /\ MakeVolume(req[r].user, req[r].node, req[r].size)
    /\ Queried(r)
    /\ Loosen(Overtake(req[r].node))
    /\ UNCHANGED <<node, up, row, load, work, fault, refs, asked>>

\* map_storage fails: nothing was done, or the volume was made and not mounted, or
\* it was mounted and the query of the overcommitment failed.
MapStorageFails(r) ==
    /\ Calls(r, "create")
    /\ LET u == req[r].user  n == req[r].node
       IN  \/ /\ fault = "script" \/ vol[u][n] # 0
              /\ UNCHANGED <<vol, stray, loose>>
           \/ /\ fault = "script"
              /\ vol[u][n] = 0
              /\ MakeStray(u, n, req[r].size) \/ MakeVolume(u, n, req[r].size)
              /\ Loosen({<<"volume", u>>, <<"over", n>>})
    /\ Goto(r, "undo")
    /\ UNCHANGED <<node, up, row, load, work, fault, refs, asked>>

Record_OnlyCreated(r) ==
    /\ req[r].pc = "record" /\ req[r].node \in up
    /\ node' = IF node[req[r].node] = NoRow \/ req[r].op = "delete" THEN node
               ELSE [node EXCEPT ![req[r].node].over = req[r].value]
    /\ IF req[r].op = "create" THEN Done(r) ELSE Goto(r, "commit")
    /\ UNCHANGED <<up, row, disk, work, loose, fault, refs, asked>>

\* map_storage and delete_storage of the server record the overcommitment: the
\* first in the row of its node, the second in that of the storage's node.
Record(r) ==
    /\ req[r].pc = "record" /\ req[r].node \in up
    /\ LET n == req[r].node
       IN  node' = IF node[n] = NoRow \/ (req[r].op = "delete" /\ row[req[r].user] = NoRow) THEN node
                   ELSE [node EXCEPT ![n].over = req[r].value]
    /\ IF req[r].op = "create" THEN Done(r) ELSE Goto(r, "commit")
    /\ UNCHANGED <<up, row, disk, work, loose, fault, refs, asked>>

UndoStorage_Keeps(r) ==
    /\ At(r, "create", "undo")
    /\ Done(r)
    /\ UNCHANGED <<node, up, row, disk, work, loose, fault, refs, asked>>

\* create_storage deletes the row of a volume that could not be made; a version or
\* a job that was accepted meanwhile refuses that, and nobody is told.
UndoStorage(r) ==
    /\ At(r, "create", "undo")
    /\ LET u == req[r].user
       IN  /\ DeleteRow(u, TRUE)
           /\ Loosen(IF Referred(u) THEN {<<"volume", u>>, <<"use", u>>} ELSE {})
    /\ Done(r)
    /\ UNCHANGED <<node, up, disk, work, fault, refs, asked>>

\* update_storage of the server: the volume grows, or is that large already, and
\* one that was left unmounted may be mounted.  The script answers what resize2fs
\* says, which needs a volume that is mounted: it fails after lvextend has grown
\* the volume, or succeeds where lvextend has failed.
GrowVolume(r) ==
    /\ Calls(r, "update")
    /\ LET u == req[r].user  n == req[r].node
       IN  \/ /\ ExtendVolume(u, n, req[r].size)
              /\ IF vol[u][n] = 0 THEN Done(r) /\ UNCHANGED loose
                 ELSE Goto(r, "commit") /\ Loosen({<<"over", n>>})
           \/ stray[u][n] # 0 /\ Remount(u, n, req[r].size) /\ Goto(r, "commit") /\ Loosen({<<"over", n>>})
           \/ /\ fault = "script"
              /\ \/ UNCHANGED <<vol, stray, loose>> /\ Done(r)
                 \/ ExtendVolume(u, n, req[r].size) /\ Done(r) /\ Loosen({<<"volume", u>>, <<"over", n>>})
                 \/ vol[u][n] # 0 /\ UNCHANGED <<vol, stray>> /\ Goto(r, "commit") /\ Loosen({<<"volume", u>>})
    /\ UNCHANGED <<node, up, row, load, work, fault, refs, asked>>

\* update_storage writes the row.
CommitUpdate(r) ==
    /\ At(r, "update", "commit")
    /\ UpdateRow(req[r].user, [row[req[r].user] EXCEPT !.allowed = req[r].size])
    /\ Done(r)
    /\ Loosen(IF Jobs(req[r].user) = {} THEN {} ELSE {<<"use", req[r].user>>})
    /\ UNCHANGED <<node, up, disk, work, fault, refs, asked>>

\* delete_storage of the server: the volume goes and the overcommitment is
\* queried.  The script answers what its last rm says: it ends well where there is
\* no volume, and where lvremove fails and leaves one.
UnmapStorage(r) ==
    /\ Calls(r, "delete")
    /\ LET u == req[r].user  n == req[r].node
       IN  /\ DropVolume(u, n) \/ (fault = "script" /\ LeaveVolume(u, n))
           /\ DropFiles(u)
           /\ Loosen(Overtake(n) \cup Blur(u)
                     \cup IF Versions(u) = {} /\ stray'[u][n] = 0 THEN {} ELSE {<<"volume", u>>, <<"use", u>>})
    /\ Queried(r)
    /\ UNCHANGED <<node, up, row, work, fault, refs, asked>>

\* delete_storage of the server fails.  A volume in use is not unmounted and
\* stays, while its files go; or the query of the overcommitment failed.
UnmapStorageFails(r) ==
    /\ Calls(r, "delete")
    /\ LET u == req[r].user  n == req[r].node
       IN  /\ \/ (Jobs(u) # {} \/ fault = "script") /\ vol[u][n] # 0 /\ UNCHANGED <<vol, stray>>
              \/ fault = "script" /\ (DropVolume(u, n) \/ LeaveVolume(u, n))
           /\ DropFiles(u)
           /\ Loosen({<<"volume", u>>, <<"use", u>>, <<"over", n>>})
    /\ Done(r)
    /\ UNCHANGED <<node, up, row, work, fault, refs, asked>>

\* delete_storage deletes the row.  A forced deletion is refused by the foreign
\* keys of versions, jobs and deleted blocks; the other one sets a flag that no
\* query of a storage looks at.  Either way the row stays without a volume.
CommitDelete(r) ==
    /\ At(r, "delete", "commit")
    /\ LET u == req[r].user
       IN  /\ DeleteRow(u, req[r].force)
           /\ Loosen(IF row[u] # NoRow /\ req[r].force /\ ~ Referred(u) THEN {}
                     ELSE {<<"volume", u>>, <<"use", u>>})
    /\ Done(r)
    /\ UNCHANGED <<node, up, disk, work, fault, refs, asked>>

\* A remote call raises: the server is gone, or the answer did not come while
\* the server did what it was asked.
CallFails(r) ==
    /\ req[r].pc \in {"call", "record"}
    /\ LET u == req[r].user  n == req[r].node
       IN  /\ \/ n \notin up /\ UNCHANGED disk
              \/ /\ fault = "message" /\ req[r].pc = "call"
                 /\ \/ /\ req[r].op = "delete"
                       /\ DropVolume(u, n) /\ DropFiles(u)
                    \/ /\ req[r].op = "create"
                       /\ MakeVolume(u, n, req[r].size) /\ UNCHANGED load
                    \/ /\ req[r].op = "update"
                       /\ ExtendVolume(u, n, req[r].size) /\ UNCHANGED load
           /\ Loosen({<<"volume", u>>, <<"use", u>>, <<"over", n>>})
    /\ Done(r)
    /\ UNCHANGED <<node, up, row, work, fault, refs, asked>>

-----------------------------------------------------------------------------
(* Versions.                                                               *)

Active(u) == node[row[u].node] # NoRow /\ ~ node[row[u].node].deleted

Admit_Always(r, u, volumes) ==
    /\ row[u] # NoRow
    /\ Ask(r, [Now("backup", u) EXCEPT !.todo = volumes, !.pc = "commit"])
    /\ UNCHANGED <<node, up, row, disk, work, loose, fault, refs>>

\* The quota is checked once for all the volumes of a request.  A deleted storage
\* is found as well, and so is one whose node is not active.
Admit(r, u, volumes) ==
    /\ row[u] # NoRow
    /\ row[u].used < row[u].allowed
    /\ Ask(r, [Now("backup", u) EXCEPT !.todo = volumes, !.pc = "commit"])
    /\ UNCHANGED <<node, up, row, disk, work, loose, fault, refs>>

Unused == {v \in Version : ver[v] = NoVer}
CreateVersion(r, u) == Unused # {} /\ Admit(r, u, 1)
CreateBackups(r, u) == \E volumes \in 2 .. Cardinality(Unused) : Admit(r, u, volumes)

\* The row of the next version, which waits for its backup.  The foreign key of
\* the storage refuses it when the storage is gone.
CommitVersion(r) ==
    /\ At(r, "backup", "commit")
    /\ IF row[req[r].user] = NoRow \/ req[r].todo = 0
       THEN Done(r) /\ UNCHANGED ver
       ELSE \E v \in Unused :
               /\ ver' = [ver EXCEPT ![v] = [status |-> "incomplete", user |-> req[r].user]]
               /\ req' = [req EXCEPT ![r].todo = @ - 1, ![r].ver = v, ![r].pc = "send"]
    /\ UNCHANGED <<node, up, row, disk, queue, job, lost, loose, fault, refs, asked>>

SendVersion_Last(r) ==
    /\ At(r, "backup", "send")
    /\ queue' = IF req[r].todo = 0 THEN queue \cup {<<req[r].ver, "backup">>} ELSE queue
    /\ Goto(r, "commit")
    /\ UNCHANGED <<node, up, row, disk, ver, job, lost, loose, fault, refs, asked>>

\* apply_async.  When the broker does not take the task, or the request waits
\* for the result (delay has one argument too many), the exception ends the
\* request and the row stays.
SendVersion(r) ==
    /\ At(r, "backup", "send")
    /\ \/ /\ queue' = queue \cup {<<req[r].ver, "backup">>}
          /\ Goto(r, "commit")
          /\ UNCHANGED lost
       \/ /\ fault = "message"
          /\ lost' = lost \cup {req[r].ver}
          /\ Done(r)
          /\ UNCHANGED queue
    /\ UNCHANGED <<node, up, row, disk, ver, job, loose, fault, refs, asked>>

\* restore_version: not of a version without data, nor on a node that is not active.
RestoreVersion(r, v) ==
    /\ req[r].op = "none" /\ Asked
    /\ ver[v].status \in {"valid", "invalid"}
    /\ Active(ver[v].user)
    /\ queue' = queue \cup {<<v, "restore">>}
    /\ UNCHANGED <<node, up, row, disk, ver, job, req, lost, loose, fault, refs>>

\* delete_version, also of a version that waits for its backup.
DeleteVersion(r, v) ==
    /\ req[r].op = "none" /\ Asked
    /\ ver[v].status \in {"incomplete", "valid", "invalid"}
    /\ Active(ver[v].user)
    /\ queue' = queue \cup {<<v, "remove">>}
    /\ UNCHANGED <<node, up, row, disk, ver, job, req, lost, loose, fault, refs>>

\* What the endpoints of versions accept: one volume, or those of a machine.
VersionRequests(r) ==
    \/ \E u \in User : CreateVersion(r, u) \/ CreateBackups(r, u)
    \/ \E v \in Version : RestoreVersion(r, v) \/ DeleteVersion(r, v)

-----------------------------------------------------------------------------
(* The workers of Celery and what the servers do for their tasks.          *)

NodeOf(t) == row[ver[t[1]].user].node
Step(t, pc) == job' = [job EXCEPT ![t].pc = pc]
Finish(t) == job' = [job EXCEPT ![t] = NoJob]

\* A worker takes a task and calls the node.  A node that does not answer ends
\* it; the error of a backup is logged and nothing else.
Take(t) ==
    /\ t \in queue /\ t[2] # "restore"
    /\ queue' = queue \ {t}
    /\ IF row[ver[t[1]].user] # NoRow /\ NodeOf(t) \in up /\ job[t] = NoJob
       THEN Step(t, t[2]) /\ UNCHANGED lost
       ELSE UNCHANGED job /\ lost' = IF t[2] = "backup" THEN lost \cup {t[1]} ELSE lost
    /\ UNCHANGED <<node, up, row, disk, ver, req, loose, fault, refs, asked>>

\* What a backup may add: at most what fits on the volume.  Without a volume the
\* files end up below the path, outside of every account.
Writes(u, n) == IF vol[u][n] = 0 THEN {0} ELSE 0 .. Min({MaxWrite, Available(u, n)})

Backup_StatisticsOnSuccess(t) ==
    /\ job[t].pc = "backup"
    /\ ver[t[1]].status = "incomplete"
    /\ LET v == t[1]  u == ver[v].user
       IN  /\ \E w \in Writes(u, NodeOf(t)) : load' = [load EXCEPT ![u] = @ + w]
           /\ \/ ver' = [ver EXCEPT ![v].status = "valid"] /\ Step(t, "measure")
              \/ ver' = [ver EXCEPT ![v].status = "invalid"] /\ Finish(t)
           /\ Loosen(Blur(u))
    /\ UNCHANGED <<node, up, row, vol, stray, queue, req, lost, fault, refs, asked>>

\* create of the servicer: Benji.backup ends well, or raises and the version is
\* invalid; what it wrote stays either way.
Backup(t) ==
    /\ job[t].pc = "backup"
    /\ LET v == t[1]  u == ver[v].user
       IN  IF ver[v].status # "incomplete"
           THEN Finish(t) /\ UNCHANGED <<load, ver, loose>>
           ELSE /\ \E w \in Writes(u, NodeOf(t)) : load' = [load EXCEPT ![u] = @ + w]
                /\ \E status \in {"valid", "invalid"} : ver' = [ver EXCEPT ![v].status = status]
                /\ Step(t, "measure")
                /\ Loosen(Blur(u))
    /\ UNCHANGED <<node, up, row, vol, stray, queue, req, lost, fault, refs, asked>>

\* delete of the servicer, Benji.rm: the lock of a version at work, or its
\* protection, refuses it; otherwise the row goes, and its blocks, if it had any,
\* become candidates.
Remove(t) ==
    /\ job[t].pc = "remove"
    /\ LET v == t[1]
       IN  \/ Finish(t) /\ UNCHANGED <<ver, refs>>
           \/ /\ ver[v].status # "removed" /\ job[<<v, "backup">>].pc # "backup"
              /\ ver' = [ver EXCEPT ![v].status = "removed"]
              /\ refs' \in {refs, refs \cup {<<"blocks", ver[v].user>>}}
              /\ Step(t, "clean")
    /\ UNCHANGED <<node, up, row, disk, queue, req, lost, loose, fault, asked>>

\* delete of the servicer, Benji.clean: it frees some of the candidates of the
\* storage and forgets them all.  Where rm could not remove the metadata, another
\* cleanup is running, or an object cannot be removed after others were, an
\* exception ends the task before the statistics.
Clean(t) ==
    /\ job[t].pc = "clean"
    /\ LET u == ver[t[1]].user
       IN  \E freed \in IF <<"blocks", u>> \in refs THEN 0 .. load[u] ELSE {0} :
              /\ load' = [load EXCEPT ![u] = @ - freed]
              /\ \/ Step(t, "measure") /\ refs' = refs \ {<<"blocks", u>>} /\ Loosen(Blur(u))
                 \/ Finish(t) /\ UNCHANGED refs /\ Loosen(IF freed = 0 THEN {} ELSE {<<"use", u>>})
    /\ UNCHANGED <<node, up, row, vol, stray, ver, queue, req, lost, fault, asked>>

\* restore of the servicer reads the version and writes an image; where the call
\* fails the task fails.  Nothing here changes but the queue.
Restore(t) ==
    /\ t \in queue /\ t[2] = "restore"
    /\ queue' = queue \ {t}
    /\ UNCHANGED <<node, up, row, disk, ver, job, req, lost, loose, fault, refs, asked>>

\* update_statistic: what the row allows less what df says is available.
Measure(t) ==
    /\ job[t].pc = "measure"
    /\ LET u == ver[t[1]].user
       IN  IF row[u] # NoRow /\ vol[u][NodeOf(t)] > 0
           THEN \/ /\ job' = [job EXCEPT ![t] = [pc |-> "record", value |-> row[u].allowed - Available(u, NodeOf(t))]]
                   /\ Loosen(IF Storing(u) = {} THEN {} ELSE {<<"use", u>>})
                \/ fault = "script" /\ Finish(t) /\ Loosen({<<"use", u>>})
           ELSE Finish(t) /\ Loosen({<<"use", u>>})
    /\ UNCHANGED <<node, up, row, disk, ver, queue, req, lost, fault, refs, asked>>

\* update_statistic writes the row of the storage.
RecordUse(t) ==
    /\ job[t].pc = "record"
    /\ UpdateRow(ver[t[1]].user, [row[ver[t[1]].user] EXCEPT !.used = job[t].value])
    /\ Finish(t)
    /\ UNCHANGED <<node, up, disk, ver, queue, req, lost, loose, fault, refs, asked>>

-----------------------------------------------------------------------------
(* Nodes.                                                                  *)

\* The server of a node dies with what it does, or comes back.
NodeDown(n) ==
    /\ fault = "node" /\ n \in up /\ Asked
    /\ up' = up \ {n}
    /\ LET dead == {t \in Task : job[t] # NoJob /\ row[ver[t[1]].user] # NoRow /\ NodeOf(t) = n}
       IN  /\ job' = [t \in Task |-> IF t \in dead THEN NoJob ELSE job[t]]
           /\ lost' = lost \cup {t[1] : t \in {s \in dead : s[2] = "backup"}}
           /\ Loosen({<<"use", ver[t[1]].user>> : t \in dead})
    /\ UNCHANGED <<node, row, disk, ver, queue, req, fault, refs>>

NodeUp(n) ==
    /\ n \notin up
    /\ up' = up \cup {n}
    /\ UNCHANGED <<node, row, disk, work, req, loose, fault, refs, asked>>

\* monitor_nodes: one transaction per node.
Ping(n) ==
    /\ node[n] # NoRow
    /\ node' = [node EXCEPT ![n].deleted = n \notin up]
    /\ UNCHANGED <<up, row, disk, work, req, loose, fault, refs, asked>>

\* create_node: the host is unique.  A host that was a node before may have
\* volumes nobody knows of.
CreateNode(r, n) ==
    /\ req[r].op = "none" /\ Asked
    /\ node[n] = NoRow
    /\ node' = [node EXCEPT ![n] = [deleted |-> FALSE, over |-> 0]]
    /\ Loosen(IF Committed(vol, n) # 0 \/ \E q \in Request : req[q].node = n THEN {<<"over", n>>} ELSE {})
    /\ UNCHANGED <<up, row, disk, work, req, fault, refs>>

\* delete_node: a flag, or the row when no storage refers to it.
DeleteNode(r, n, force) ==
    /\ req[r].op = "none" /\ Asked
    /\ node[n] # NoRow
    /\ force => Storages(n) = {}
    /\ node' = [node EXCEPT ![n] = IF force THEN NoRow ELSE [@ EXCEPT !.deleted = TRUE]]
    /\ UNCHANGED <<up, row, disk, work, req, loose, fault, refs>>

NodeRequests(r) ==
    \E n \in Node : CreateNode(r, n) \/ \E force \in BOOLEAN : DeleteNode(r, n, force)

-----------------------------------------------------------------------------
RequestSteps(r) ==
    \/ MapStorage(r) \/ MapStorageFails(r) \/ Record(r) \/ UndoStorage(r)
    \/ GrowVolume(r) \/ CommitUpdate(r)
    \/ UnmapStorage(r) \/ UnmapStorageFails(r) \/ CommitDelete(r) \/ CallFails(r)
    \/ CommitVersion(r) \/ SendVersion(r)

TaskSteps(t) == Take(t) \/ Backup(t) \/ Remove(t) \/ Clean(t) \/ Restore(t) \/ Measure(t) \/ RecordUse(t)

Next ==
    \/ \E r \in Request : StorageRequests(r) \/ VersionRequests(r) \/ NodeRequests(r) \/ RequestSteps(r)
    \/ \E t \in Task : TaskSteps(t)
    \/ \E n \in Node : NodeDown(n) \/ NodeUp(n) \/ Ping(n)

Spec == Init /\ [][Next]_vars

-----------------------------------------------------------------------------
(* Properties.                                                             *)

TypeOK ==
    /\ node \in [Node -> NodeRow \cup {NoRow}]
    /\ up \subseteq Node
    /\ row \in [User -> StorageRow \cup {NoRow}]
    /\ vol \in Volumes /\ stray \in Volumes /\ refs \subseteq Referring
    /\ \A u \in User : load[u] \in 0 .. MaxSize
    /\ queue \subseteq Task /\ lost \subseteq Version

Tight(what, x) == <<what, x>> \notin loose
AtRest(u) == Storing(u) = {}

\* create_storage, update_storage and delete_storage keep a row and a volume of
\* the same size, on the node of the row, though they change them in different
\* transactions and in different orders, and no other volume.  What breaks that: a
\* remote call or a script that fails after its work or before it is told, two
\* requests for one storage, a deletion of a storage that versions, jobs or deleted
\* blocks refer to, one that is not forced.
VolumeMatchesRow ==
    /\ TypeOK
    /\ \A u \in User : AtRest(u) /\ Tight("volume", u) =>
          \A n \in Node : /\ vol[u][n] = IF row[u] # NoRow /\ row[u].node = n THEN row[u].allowed ELSE 0
                          /\ stray[u][n] = 0

\* The used space of a storage, from which update_statistic and the quota are
\* computed, is what the storage holds once no thread is at work for it: after
\* backups that failed, after removals, after the storage grew.  It is lost by
\* statistics that overlap a change, by a failing df, by a cleanup that raises after
\* it removed something and by a server that dies.
UseIsKnown ==
    \A u \in User : row[u] # NoRow /\ AtRest(u) /\ Jobs(u) = {} /\ Tight("use", u) /\ Tight("volume", u) =>
       row[u].used = load[u]

\* The overcommitment of a node, by which create_storage selects nodes, is the sum
\* of its volumes after storages were made and deleted.  It is not after one grew
\* (update_storage of the server records nothing) or when two threads of the
\* server overtake each other.
OvercommitIsKnown ==
    \A n \in Node : node[n] # NoRow /\ Tight("over", n) /\ (\A r \in Request : req[r].node # n) =>
       node[n].over = Committed(vol, n)

\* A request for backups that comes when no thread works for the storage is
\* refused once the storage is full; requests that come while backups run are
\* compared with what was used before them.
QuotaIsKept ==
    [][\A r \in Request :
         LET u == req'[r].user
         IN  req[r].op = "none" /\ req'[r].op = "backup" /\ AtRest(u) /\ Jobs(u) = {}
                /\ Tight("use", u) /\ Tight("volume", u) => load[u] < vol[u][row[u].node]]_vars

\* A version whose row was committed and that waits for its backup is in the hands
\* of a request, of the queue or of a server, unless the broker refused its task
\* or its worker or server was lost: nobody looks after those, and they stay
\* incomplete.
IncompleteIsPending ==
    \A v \in Version : ver[v].status = "incomplete" =>
       \/ v \in lost
       \/ \E r \in Request : At(r, "backup", "send") /\ req[r].ver = v
       \/ <<v, "backup">> \in queue
       \/ job[<<v, "backup">>].pc = "backup"

=============================================================================
