------------------------- MODULE ControlPlaneProofs -------------------------
(***************************************************************************)
(* What the rows of storages, nodes and versions say is true of the        *)
(* volumes, their contents and the tasks, for any number of users, nodes,  *)
(* versions and concurrent requests and any sizes.                         *)
(***************************************************************************)
EXTENDS ControlPlane, TLAPS

-----------------------------------------------------------------------------
(* What is there: rows, requests, tasks.                                   *)

\* The requests that change a storage.
Storers == {"create", "update", "delete"}

Reqs ==
    [op : Storers \cup {"none", "backup"}, user : User \cup {NoUser}, node : Node \cup {NoNode},
     size : 0 .. MaxSize, force : BOOLEAN, todo : Int, ver : Version \cup {NoRow},
     value : Sums, pc : {"none", "call", "record", "undo", "commit", "send"}]
ReqFits(q) ==
    /\ q.op \in Storers => q.user \in User /\ q.node \in Node
    /\ q.op \in {"create", "update"} => q.size \in Sizes
    /\ q.op \notin Storers => q.node = NoNode /\ q.pc \in {"none", "commit", "send"}
    /\ q.op = "backup" => q.user \in User
    /\ q.pc = "record" => q.op \in {"create", "delete"}
    /\ q.pc = "undo" => q.op = "create"
    /\ q.op = "create" => q.pc \in {"call", "record", "undo"}
    /\ q.op = "update" => q.pc \in {"call", "commit"}
ReqsFit == req \in [Request -> Reqs] /\ \A r \in Request : ReqFits(req[r])

\* A version has a user from the commit of its row on, and only then tasks.
VerRow == [status : {"none", "incomplete", "valid", "invalid", "removed"}, user : User \cup {NoUser}]
JobRow == [pc : {"none", "backup", "remove", "clean", "measure", "record"}, value : Int]
TasksFit ==
    /\ ver \in [Version -> VerRow]
    /\ \A v \in Version : ver[v].status # "none" <=> ver[v].user \in User
    /\ job \in [Task -> JobRow]
    /\ \A t \in Task : t \in queue \/ job[t] # NoJob => ver[t[1]].status # "none"
    /\ \A t \in Task : job[t].pc = "none" => job[t] = NoJob
    /\ \A t \in Task : job[t].pc = "backup" => t[2] = "backup"
    /\ \A r \in Request : req[r].op = "backup" /\ req[r].pc = "send" =>
          req[r].ver \in Version /\ ver[req[r].ver].status # "none"

\* The foreign key of versions: one that is not removed has its storage.
KeysHold == \A u \in User : Versions(u) # {} => row[u] # NoRow

Fits == TypeOK /\ load \in [User -> Int] /\ ReqsFit /\ TasksFit /\ KeysHold

\* Changes of one logical volume.
Scripts(u, n, s) ==
    \/ MakeVolume(u, n, s) \/ MakeStray(u, n, s) \/ ExtendVolume(u, n, s) \/ Remount(u, n, s)
    \/ DropVolume(u, n) \/ LeaveVolume(u, n)

LEMMA OneVolume ==
    ASSUME vol \in Volumes, stray \in Volumes, NEW u \in User, NEW n \in Node, NEW s \in Sizes, Scripts(u, n, s)
    PROVE  /\ vol' \in Volumes /\ stray' \in Volumes
           /\ \A w \in User, m \in Node : w # u \/ m # n => vol'[w][m] = vol[w][m] /\ stray'[w][m] = stray[w][m]
           /\ \A w \in User : w # u => vol'[w] = vol[w] /\ stray'[w] = stray[w]
<1>a. Sizes \subseteq 0 .. MaxSize /\ 0 \in 0 .. MaxSize
  BY ControlPlaneAssumption DEF Sizes
<1>b. vol[u][n] \in 0 .. MaxSize /\ stray[u][n] \in 0 .. MaxSize
  BY DEF Volumes
<1>c. \A size \in 0 .. MaxSize : Extended(size, s) \in 0 .. MaxSize
  BY <1>a DEF Extended
<1>1. \E x, y \in 0 .. MaxSize :
         vol' = [vol EXCEPT ![u][n] = x] /\ stray' = [stray EXCEPT ![u][n] = y]
  <2>1. CASE MakeVolume(u, n, s)
    BY <1>a, <1>b, <2>1 DEF MakeVolume
  <2>2. CASE ExtendVolume(u, n, s)
    BY <1>b, <1>c, <2>2 DEF ExtendVolume
  <2>3. CASE DropVolume(u, n)
    BY <1>a, <2>3 DEF DropVolume
  <2>4. CASE MakeStray(u, n, s)
    <3>1. vol' = [vol EXCEPT ![u][n] = vol[u][n]]
      BY <2>4 DEF MakeStray, Volumes
    <3>2. QED
      BY <1>a, <1>b, <2>4, <3>1 DEF MakeStray
  <2>5. CASE Remount(u, n, s)
    BY <1>a, <1>b, <1>c, <2>5 DEF Remount
  <2>6. CASE LeaveVolume(u, n)
    BY <1>a, <1>b, <2>6 DEF LeaveVolume
  <2>7. QED
    BY <2>1, <2>2, <2>3, <2>4, <2>5, <2>6 DEF Scripts
<1>2. QED
  BY <1>1 DEF Volumes

LEMMA VolumeSize ==
    ASSUME vol \in Volumes, stray \in Volumes, NEW u \in User, NEW n \in Node, NEW s \in Sizes
    PROVE  /\ MakeVolume(u, n, s) => /\ stray'[u][n] = 0
                                     /\ vol[u][n] = 0 /\ stray[u][n] = 0 => vol'[u][n] = s
           /\ ExtendVolume(u, n, s) => /\ vol'[u][n] = Extended(vol[u][n], s)
                                       /\ stray[u][n] = 0 => stray'[u][n] = 0
           /\ DropVolume(u, n) \/ LeaveVolume(u, n) => vol'[u][n] = 0
           /\ DropVolume(u, n) => stray'[u][n] = 0
BY DEF MakeVolume, ExtendVolume, DropVolume, LeaveVolume, Extended, Volumes

\* The sum of a node depends on the volumes of that node only.
LEMMA SumIsSum ==
    ASSUME NEW volumes \in Volumes, NEW n \in Node
    PROVE  Committed(volumes, n) \in Sums
BY DEF Sums

LEMMA SameColumn ==
    ASSUME NEW volumes \in Volumes, NEW others \in Volumes, NEW n \in Node,
           \A u \in User : others[u][n] = volumes[u][n]
    PROVE  Committed(others, n) = Committed(volumes, n)
<1>1. [u \in User |-> others[u][n]] = [u \in User |-> volumes[u][n]]
  OBVIOUS
<1>2. QED
  BY <1>1 DEF Committed

LEMMA NoReqFits == NoReq \in Reqs /\ ReqFits(NoReq) /\ NoReq.op = "none" /\ NoReq.pc = "none" /\ NoReq.node = NoNode
<1>1. 0 \in Sums /\ 0 \in 0 .. MaxSize
  BY ControlPlaneAssumption DEF Sums
<1>2. QED
  BY <1>1 DEF NoReq, Reqs, ReqFits, Storers

\* A step is one of one request, or of none, and the history only grows.
LEMMA OneRequest ==
    ASSUME Fits, NEW r \in Request,
           StorageRequests(r) \/ VersionRequests(r) \/ NodeRequests(r) \/ RequestSteps(r)
    PROVE  /\ \A s \in Request \ {r} : req'[s] = req[s]
           /\ loose \subseteq loose'
<1> USE DEF Fits, ReqsFit
<1>1. CASE StorageRequests(r)
  BY <1>1 DEF StorageRequests, CreateStorage, UpdateStorage, DeleteStorage, ScheduleJobs, Ask, Loosen
<1>2. CASE VersionRequests(r) \/ NodeRequests(r)
  BY <1>2 DEF VersionRequests, CreateVersion, CreateBackups, Admit, RestoreVersion, DeleteVersion,
       NodeRequests, CreateNode, DeleteNode, Ask, Loosen
<1>3. CASE MapStorage(r) \/ MapStorageFails(r) \/ Record(r) \/ UndoStorage(r) \/ GrowVolume(r) \/ CommitUpdate(r)
  BY <1>3 DEF MapStorage, MapStorageFails, Record, UndoStorage, GrowVolume, CommitUpdate, Queried, Goto, Done, Loosen
<1>4. CASE UnmapStorage(r) \/ UnmapStorageFails(r) \/ CommitDelete(r) \/ CallFails(r)
  BY <1>4 DEF UnmapStorage, UnmapStorageFails, CommitDelete, CallFails, Queried, Goto, Done, Loosen
<1>5. CASE CommitVersion(r) \/ SendVersion(r)
  BY <1>5 DEF CommitVersion, SendVersion, Goto, Done, Loosen
<1>6. QED
  BY <1>1, <1>2, <1>3, <1>4, <1>5 DEF RequestSteps

LEMMA NoRequest ==
    ASSUME (\E t \in Task : TaskSteps(t)) \/ \E n \in Node : NodeDown(n) \/ NodeUp(n) \/ Ping(n)
    PROVE  req' = req /\ loose \subseteq loose'
BY DEF TaskSteps, Take, Backup, Remove, Clean, Restore, Measure, RecordUse, NodeDown, NodeUp, Ping, Loosen

\* How a request of a storage begins.
LEMMA Begins ==
    ASSUME Fits, NEW r \in Request, NEW q \in Reqs, Ask(r, q)
    PROVE  req[r].op = "none" /\ req'[r] = q
BY DEF Fits, ReqsFit, Ask

LEMMA Creates ==
    ASSUME Fits, NEW r \in Request, NEW u \in User, NEW s \in Sizes, CreateStorage(r, u, s)
    PROVE  /\ row[u] = NoRow /\ req[r].op = "none" /\ vol' = vol /\ stray' = stray /\ load' = load
           /\ \E n \in Node :
                 /\ row' = [row EXCEPT ![u] = [node |-> n, allowed |-> s, used |-> 0, deleted |-> FALSE]]
                 /\ req'[r] \in Reqs
                 /\ req'[r].op = "create" /\ req'[r].user = u /\ req'[r].node = n
                 /\ req'[r].size = s /\ req'[r].pc = "call"
                 /\ loose' = loose \cup Contest(u, n)
<1>1. PICK n \in Node :
         /\ row' = [row EXCEPT ![u] = [node |-> n, allowed |-> s, used |-> 0, deleted |-> FALSE]]
         /\ Ask(r, [Now("create", u) EXCEPT !.node = n, !.size = s])
         /\ loose' = loose \cup Contest(u, n)
  BY DEF CreateStorage, Selected, Candidates, Loosen
<1>2. NoReq \in Reqs /\ s \in 0 .. MaxSize
  BY NoReqFits, ControlPlaneAssumption DEF Sizes
<1>3. LET q == [Now("create", u) EXCEPT !.node = n, !.size = s]
      IN  /\ q \in Reqs
          /\ q.op = "create" /\ q.user = u /\ q.node = n /\ q.size = s /\ q.pc = "call"
  BY <1>2 DEF Now, Reqs, Storers
<1>4. QED
  BY <1>1, <1>3, Begins DEF CreateStorage, disk

LEMMA Updates ==
    ASSUME Fits, NEW r \in Request, NEW u \in User, NEW s \in Sizes, UpdateStorage(r, u, s)
    PROVE  /\ row[u] # NoRow /\ row[u].allowed < s /\ row' = row /\ req[r].op = "none"
           /\ vol' = vol /\ stray' = stray /\ load' = load
           /\ req'[r] \in Reqs
           /\ req'[r].op = "update" /\ req'[r].user = u /\ req'[r].node = row[u].node
           /\ req'[r].size = s /\ req'[r].pc = "call"
           /\ loose' = loose \cup Contest(u, row[u].node)
<1>1. row[u] # NoRow /\ s > row[u].allowed /\ Ask(r, [Now("update", u) EXCEPT !.node = row[u].node, !.size = s])
  BY DEF UpdateStorage
<1>2. NoReq \in Reqs /\ s \in 0 .. MaxSize /\ row[u] \in StorageRow
  BY <1>1, NoReqFits, ControlPlaneAssumption DEF Sizes, Fits, TypeOK
<1>3. row[u].node \in Node /\ row[u].allowed < s
  BY <1>1, <1>2 DEF StorageRow, Sizes
<1>4. LET q == [Now("update", u) EXCEPT !.node = row[u].node, !.size = s]
      IN  /\ q \in Reqs
          /\ q.op = "update" /\ q.user = u /\ q.node = row[u].node /\ q.size = s /\ q.pc = "call"
  BY <1>2, <1>3 DEF Now, Reqs, Storers
<1>5. QED
  BY <1>1, <1>3, <1>4, Begins DEF UpdateStorage, disk, Loosen

LEMMA Deletes ==
    ASSUME Fits, NEW r \in Request, NEW u \in User, NEW force \in BOOLEAN, DeleteStorage(r, u, force)
    PROVE  /\ row[u] # NoRow /\ row' = row /\ req[r].op = "none" /\ vol' = vol /\ stray' = stray /\ load' = load
           /\ req'[r] \in Reqs
           /\ req'[r].op = "delete" /\ req'[r].user = u /\ req'[r].node = row[u].node /\ req'[r].pc = "call"
           /\ loose' = loose \cup Contest(u, row[u].node)
<1>1. row[u] # NoRow /\ Ask(r, [Now("delete", u) EXCEPT !.node = row[u].node, !.force = force])
  BY DEF DeleteStorage
<1>2. NoReq \in Reqs /\ row[u] \in StorageRow
  BY <1>1, NoReqFits DEF Fits, TypeOK
<1>3. row[u].node \in Node
  BY <1>2 DEF StorageRow
<1>4. LET q == [Now("delete", u) EXCEPT !.node = row[u].node, !.force = force]
      IN  /\ q \in Reqs
          /\ q.op = "delete" /\ q.user = u /\ q.node = row[u].node /\ q.pc = "call"
  BY <1>2, <1>3 DEF Now, Reqs, Storers
<1>5. QED
  BY <1>1, <1>4, Begins DEF DeleteStorage, disk, Loosen

\* How a request of a storage goes on.
StorageSteps(r) ==
    \/ MapStorage(r) \/ MapStorageFails(r) \/ Record(r) \/ UndoStorage(r) \/ GrowVolume(r) \/ CommitUpdate(r)
    \/ UnmapStorage(r) \/ UnmapStorageFails(r) \/ CommitDelete(r) \/ CallFails(r)
Continues(r, pc) ==
    /\ req'[r] \in Reqs
    /\ req'[r].op = req[r].op /\ req'[r].user = req[r].user /\ req'[r].node = req[r].node
    /\ req'[r].size = req[r].size /\ req'[r].pc = pc

LEMMA Starts ==
    ASSUME Fits, NEW r \in Request
    PROVE  /\ MapStorage(r) \/ MapStorageFails(r) => req[r].op = "create" /\ req[r].pc = "call"
           /\ UndoStorage(r) => req[r].op = "create" /\ req[r].pc = "undo"
           /\ GrowVolume(r) => req[r].op = "update" /\ req[r].pc = "call"
           /\ CommitUpdate(r) => req[r].op = "update" /\ req[r].pc = "commit"
           /\ UnmapStorage(r) \/ UnmapStorageFails(r) => req[r].op = "delete" /\ req[r].pc = "call"
           /\ CommitDelete(r) => req[r].op = "delete" /\ req[r].pc = "commit"
           /\ Record(r) => req[r].op \in {"create", "delete"} /\ req[r].pc = "record"
           /\ CallFails(r) => req[r].op \in Storers /\ req[r].pc \in {"call", "record"}
           /\ StorageSteps(r) => req[r].op \in Storers /\ req[r].user \in User /\ req[r].node \in Node
<1>1. req[r] \in Reqs /\ ReqFits(req[r])
  BY DEF Fits, ReqsFit
<1>2. /\ MapStorage(r) \/ MapStorageFails(r) => req[r].op = "create" /\ req[r].pc = "call"
      /\ UndoStorage(r) => req[r].op = "create" /\ req[r].pc = "undo"
      /\ GrowVolume(r) => req[r].op = "update" /\ req[r].pc = "call"
      /\ CommitUpdate(r) => req[r].op = "update" /\ req[r].pc = "commit"
  BY DEF MapStorage, MapStorageFails, UndoStorage, GrowVolume, CommitUpdate, Calls, At
<1>3. /\ UnmapStorage(r) \/ UnmapStorageFails(r) => req[r].op = "delete" /\ req[r].pc = "call"
      /\ CommitDelete(r) => req[r].op = "delete" /\ req[r].pc = "commit"
  BY DEF UnmapStorage, UnmapStorageFails, CommitDelete, Calls, At
<1>4. /\ Record(r) => req[r].op \in {"create", "delete"} /\ req[r].pc = "record"
      /\ CallFails(r) => req[r].op \in Storers /\ req[r].pc \in {"call", "record"}
  BY <1>1 DEF Record, CallFails, ReqFits
<1>5. QED
  BY <1>1, <1>2, <1>3, <1>4 DEF StorageSteps, ReqFits, Storers

LEMMA Moves ==
    ASSUME Fits, NEW r \in Request
    PROVE  /\ (MapStorage(r) \/ UnmapStorage(r)) /\ vol' \in Volumes =>
                 Continues(r, "record") /\ req'[r].value = Committed(vol', req[r].node)
           /\ MapStorageFails(r) => Continues(r, "undo")
           /\ Record(r) => IF req[r].op = "create" THEN req'[r] = NoReq ELSE Continues(r, "commit")
           /\ GrowVolume(r) => req'[r] = NoReq \/ Continues(r, "commit")
           /\ UndoStorage(r) \/ CommitUpdate(r) \/ UnmapStorageFails(r) \/ CommitDelete(r) \/ CallFails(r) =>
                 req'[r] = NoReq
<1>a. req \in [Request -> Reqs] /\ req[r] \in Reqs
  BY DEF Fits, ReqsFit
<1>b. ASSUME Done(r)
      PROVE  req'[r] = NoReq
  BY <1>a, <1>b DEF Done
<1>c. ASSUME NEW pc \in {"undo", "commit"}, Goto(r, pc)
      PROVE  Continues(r, pc)
  BY <1>a, <1>c DEF Goto, Continues, Reqs
<1>1. ASSUME MapStorage(r) \/ UnmapStorage(r), vol' \in Volumes
      PROVE  Continues(r, "record") /\ req'[r].value = Committed(vol', req[r].node)
  <2>1. req[r].node \in Node
    BY <1>1, Starts DEF StorageSteps
  <2>2. PICK sum \in Sums : sum = Committed(vol', req[r].node)
    BY <1>1, <2>1, SumIsSum
  <2>3. req' = [req EXCEPT ![r].pc = "record", ![r].value = sum]
    BY <1>1, <2>2 DEF MapStorage, UnmapStorage, Queried
  <2>4. req'[r] = [req[r] EXCEPT !.pc = "record", !.value = sum]
    BY <1>a, <2>3
  <2>5. QED
    BY <1>a, <2>2, <2>4 DEF Continues, Reqs
<1>2. MapStorageFails(r) => Continues(r, "undo")
  BY <1>c DEF MapStorageFails
<1>3. Record(r) => IF req[r].op = "create" THEN req'[r] = NoReq ELSE Continues(r, "commit")
  BY <1>b, <1>c DEF Record
<1>4. GrowVolume(r) => req'[r] = NoReq \/ Continues(r, "commit")
  BY <1>b, <1>c DEF GrowVolume
<1>5. UndoStorage(r) \/ CommitUpdate(r) \/ UnmapStorageFails(r) \/ CommitDelete(r) \/ CallFails(r) => req'[r] = NoReq
  BY <1>b DEF UndoStorage, CommitUpdate, UnmapStorageFails, CommitDelete, CallFails
<1>6. QED
  BY <1>1, <1>2, <1>3, <1>4, <1>5

\* The volumes and files that the steps of a request touch are those of its user,
\* and the volumes are on its node.
LEMMA OwnVolumes ==
    ASSUME Fits, NEW r \in Request, StorageSteps(r)
    PROVE  /\ vol' \in Volumes /\ stray' \in Volumes
           /\ \A w \in User, m \in Node : w # req[r].user \/ m # req[r].node =>
                 vol'[w][m] = vol[w][m] /\ stray'[w][m] = stray[w][m]
           /\ \A w \in User \ {req[r].user} :
                 vol'[w] = vol[w] /\ stray'[w] = stray[w] /\ load'[w] = load[w] /\ row'[w] = row[w]
           /\ load' \in [User -> Int] /\ \A w \in User : load'[w] \in {0, load[w]}
<1>a. PICK u \in User, n \in Node : u = req[r].user /\ n = req[r].node
  BY Starts
<1>b. vol \in Volumes /\ stray \in Volumes /\ load \in [User -> Int] /\ row \in [User -> StorageRow \cup {NoRow}]
  BY DEF Fits, TypeOK
<1>c. req[r].op \in {"create", "update"} => req[r].size \in Sizes
  BY DEF Fits, ReqsFit, ReqFits
<1>d. PICK z : z = req[r].size
  OBVIOUS
<1>1. (vol' = vol /\ stray' = stray) \/ \E s \in Sizes : Scripts(u, n, s)
  <2>0. 1 \in Sizes
    BY ControlPlaneAssumption DEF Sizes
  <2>1. CASE MapStorage(r) \/ MapStorageFails(r)
    BY <1>a, <1>c, <1>d, <2>1, Starts DEF MapStorage, MapStorageFails, Scripts
  <2>2. CASE GrowVolume(r)
    BY <1>a, <1>c, <1>d, <2>2, Starts DEF GrowVolume, Scripts
  <2>3. CASE CallFails(r)
    BY <1>a, <1>c, <1>d, <2>0, <2>3 DEF CallFails, disk, Scripts
  <2>4. CASE UnmapStorage(r) \/ UnmapStorageFails(r)
    BY <1>a, <2>0, <2>4 DEF UnmapStorage, UnmapStorageFails, Scripts
  <2>5. CASE Record(r) \/ UndoStorage(r) \/ CommitUpdate(r) \/ CommitDelete(r)
    BY <2>5 DEF Record, UndoStorage, CommitUpdate, CommitDelete, disk
  <2>6. QED
    BY <2>1, <2>2, <2>3, <2>4, <2>5 DEF StorageSteps
<1>2. load' = load \/ DropFiles(u)
  BY <1>a DEF StorageSteps, MapStorage, MapStorageFails, GrowVolume, CallFails, UnmapStorage, UnmapStorageFails,
     Record, UndoStorage, CommitUpdate, CommitDelete, disk
<1>3. \A w \in User \ {u} : row'[w] = row[w]
  BY <1>a, <1>b DEF StorageSteps, MapStorage, MapStorageFails, GrowVolume, CallFails, UnmapStorage, UnmapStorageFails,
     Record, UndoStorage, CommitUpdate, CommitDelete, DeleteRow, UpdateRow
<1>4. /\ vol' \in Volumes /\ stray' \in Volumes
      /\ \A w \in User, m \in Node : w # u \/ m # n => vol'[w][m] = vol[w][m] /\ stray'[w][m] = stray[w][m]
      /\ \A w \in User : w # u => vol'[w] = vol[w] /\ stray'[w] = stray[w]
  BY <1>b, <1>1, OneVolume
<1>5. load' \in [User -> Int] /\ \A w \in User : load'[w] \in {0, load[w]} /\ (w # u => load'[w] = load[w])
  BY <1>b, <1>2 DEF DropFiles
<1>6. QED
  BY <1>a, <1>3, <1>4, <1>5

\* Rows of storages are deleted only where no version refers to them.
LEMMA RowsStep ==
    ASSUME Fits, NEW r \in Request, StorageSteps(r)
    PROVE  /\ row' \in [User -> StorageRow \cup {NoRow}]
           /\ \A u \in User : Versions(u) # {} /\ row[u] # NoRow => row'[u] # NoRow
<1>a. PICK u \in User : u = req[r].user
  BY Starts
<1>b. row \in [User -> StorageRow \cup {NoRow}] /\ NoRow \notin StorageRow
  BY ControlPlaneAssumption DEF Fits, TypeOK
<1>1. CASE UndoStorage(r) \/ CommitDelete(r)
  <2>1. PICK force : DeleteRow(u, force)
    BY <1>a, <1>1 DEF UndoStorage, CommitDelete
  <2>2. row[u] # NoRow => [row[u] EXCEPT !.deleted = TRUE] \in StorageRow
    BY <1>b DEF StorageRow
  <2>3. Versions(u) # {} => Referred(u)
    BY DEF Referred
  <2>4. row' \in [User -> StorageRow \cup {NoRow}] /\ \A w \in User \ {u} : row'[w] = row[w]
    BY <1>b, <2>1, <2>2 DEF DeleteRow
  <2>5. row[u] # NoRow /\ Versions(u) # {} => row'[u] # NoRow
    BY <1>b, <2>1, <2>2, <2>3 DEF DeleteRow
  <2>6. QED
    BY <2>4, <2>5
<1>2. CASE CommitUpdate(r)
  <2>1. req[r].size \in Sizes
    BY <1>2, Starts DEF Fits, ReqsFit, ReqFits
  <2>2. row[u] # NoRow => [row[u] EXCEPT !.allowed = req[r].size] \in StorageRow
    BY <1>b, <2>1 DEF StorageRow
  <2>3. QED
    BY <1>a, <1>b, <1>2, <2>2 DEF CommitUpdate, UpdateRow
<1>3. CASE ~ (UndoStorage(r) \/ CommitDelete(r) \/ CommitUpdate(r))
  <2>1. row' = row
    BY <1>3 DEF StorageSteps, MapStorage, MapStorageFails, Record, GrowVolume, UnmapStorage, UnmapStorageFails, CallFails
  <2>2. QED
    BY <1>b, <2>1
<1>4. QED
  BY <1>1, <1>2, <1>3

LEMMA FitsStorageStep ==
    ASSUME Fits, NEW r \in Request, StorageSteps(r)
    PROVE  Fits'
<1>a. /\ req[r].op \in Storers /\ req[r].user \in User /\ req[r].node \in Node
      /\ req \in [Request -> Reqs] /\ req[r] \in Reqs /\ ReqFits(req[r])
  BY Starts DEF Fits, ReqsFit
<1>b. ver' = ver /\ queue' = queue /\ job' = job /\ lost' = lost /\ up' = up /\ refs' = refs
  BY DEF StorageSteps, MapStorage, MapStorageFails, Record, UndoStorage, GrowVolume, CommitUpdate, UnmapStorage,
     UnmapStorageFails, CommitDelete, CallFails, work
<1>c. \A s \in Request \ {r} : req'[s] = req[s]
  BY OneRequest DEF StorageSteps, RequestSteps
<1>1. req'[r] \in Reqs /\ ReqFits(req'[r]) /\ req'[r].op # "backup"
  <2>1. CASE req'[r] = NoReq
    BY <2>1, NoReqFits
  <2>2. CASE MapStorage(r) \/ UnmapStorage(r)
    <3>1. Continues(r, "record") /\ req[r].op \in {"create", "delete"}
      BY <2>2, Moves, OwnVolumes, Starts
    <3>2. QED
      BY <1>a, <3>1 DEF Continues, ReqFits, Storers
  <2>3. CASE MapStorageFails(r)
    <3>1. Continues(r, "undo") /\ req[r].op = "create"
      BY <2>3, Moves, Starts
    <3>2. QED
      BY <1>a, <3>1 DEF Continues, ReqFits, Storers
  <2>4. ASSUME Continues(r, "commit"), req[r].op # "create"
        PROVE  req'[r] \in Reqs /\ ReqFits(req'[r]) /\ req'[r].op # "backup"
    BY <1>a, <2>4 DEF Continues, ReqFits, Storers
  <2>5. CASE Record(r) \/ GrowVolume(r)
    BY <2>1, <2>4, <2>5, Moves, Starts
  <2>6. QED
    BY <2>1, <2>2, <2>3, <2>5, Moves DEF StorageSteps
<1>2. ReqsFit'
  <2>1. req' \in [Request -> Reqs]
    <3>1. \E q : req' = [req EXCEPT ![r] = q]
      BY DEF StorageSteps, MapStorage, MapStorageFails, Record, UndoStorage, GrowVolume, CommitUpdate, UnmapStorage,
         UnmapStorageFails, CommitDelete, CallFails, Queried, Goto, Done
    <3>2. QED
      BY <1>a, <1>1, <3>1
  <2>2. QED
    BY <1>c, <1>1, <2>1 DEF Fits, ReqsFit
<1>3. node' \in [Node -> NodeRow \cup {NoRow}]
  <2>1. CASE Record(r)
    <3>1. req[r].value \in Sums /\ node \in [Node -> NodeRow \cup {NoRow}]
      BY <1>a DEF Reqs, Fits, TypeOK
    <3>2. node[req[r].node] # NoRow => [node[req[r].node] EXCEPT !.over = req[r].value] \in NodeRow
      BY <1>a, <3>1 DEF NodeRow
    <3>3. QED
      BY <1>a, <2>1, <3>1, <3>2 DEF Record
  <2>2. CASE ~ Record(r)
    BY <2>2 DEF StorageSteps, MapStorage, MapStorageFails, UndoStorage, GrowVolume, CommitUpdate, UnmapStorage,
     UnmapStorageFails, CommitDelete, CallFails, Fits, TypeOK
  <2>3. QED
    BY <2>1, <2>2
<1>4. TypeOK' /\ load' \in [User -> Int]
  <2>1. \A u \in User : load'[u] \in 0 .. MaxSize
    BY OwnVolumes, ControlPlaneAssumption DEF Fits, TypeOK
  <2>2. QED
    BY <1>b, <1>3, <2>1, OwnVolumes, RowsStep DEF Fits, TypeOK
<1>5. TasksFit'
  BY <1>b, <1>c, <1>1 DEF Fits, TasksFit, Task
<1>6. KeysHold'
  BY <1>b, RowsStep DEF Fits, KeysHold, Versions
<1>7. QED
  BY <1>2, <1>4, <1>5, <1>6 DEF Fits

\* A request that begins, in what the types say of it.
LEMMA FitsAsk ==
    ASSUME Fits, NEW r \in Request, NEW q \in Reqs, ReqFits(q), q.pc # "send", Ask(r, q),
           row' \in [User -> StorageRow \cup {NoRow}], \A u \in User : row[u] # NoRow => row'[u] # NoRow,
           UNCHANGED <<node, up, disk, work, refs>>
    PROVE  Fits'
<1>1. req' = [req EXCEPT ![r] = q]
  BY DEF Ask
<1>2. ReqsFit'
  BY <1>1 DEF Fits, ReqsFit
<1>3. TypeOK' /\ load' \in [User -> Int]
  BY DEF Fits, TypeOK, disk, work
<1>4. TasksFit'
  BY <1>1 DEF Fits, ReqsFit, TasksFit, Task, work
<1>5. KeysHold'
  BY DEF Fits, KeysHold, Versions, work
<1>6. QED
  BY <1>2, <1>3, <1>4, <1>5 DEF Fits

LEMMA FitsStorageRequest ==
    ASSUME Fits, NEW r \in Request, StorageRequests(r)
    PROVE  Fits'
<1>a. row \in [User -> StorageRow \cup {NoRow}]
  BY DEF Fits, TypeOK
<1>b. \A q : Ask(r, q) => Ask(r, req'[r])
  BY DEF Ask, Fits, ReqsFit
<1>1. ASSUME NEW u \in User, NEW s \in Sizes, CreateStorage(r, u, s)
      PROVE  Fits'
  <2>1. PICK n \in Node :
           /\ row' = [row EXCEPT ![u] = [node |-> n, allowed |-> s, used |-> 0, deleted |-> FALSE]]
           /\ req'[r] \in Reqs
           /\ req'[r].op = "create" /\ req'[r].user = u /\ req'[r].node = n
           /\ req'[r].size = s /\ req'[r].pc = "call"
    BY <1>1, Creates
  <2>2. ReqFits(req'[r])
    BY <2>1 DEF ReqFits, Storers
  <2>3. [node |-> n, allowed |-> s, used |-> 0, deleted |-> FALSE] \in StorageRow /\ NoRow \notin StorageRow
    BY ControlPlaneAssumption DEF StorageRow
  <2>4. Ask(r, req'[r]) /\ UNCHANGED <<node, up, disk, work, refs>>
    BY <1>1, <1>b DEF CreateStorage
  <2>5. QED
    BY <1>a, <2>1, <2>2, <2>3, <2>4, FitsAsk
<1>2. ASSUME NEW u \in User, NEW s \in Sizes, UpdateStorage(r, u, s)
      PROVE  Fits'
  <2>1. row[u] \in StorageRow
    BY <1>2, <1>a, Updates
  <2>2. req'[r] \in Reqs /\ ReqFits(req'[r]) /\ req'[r].pc # "send" /\ row' = row
    BY <1>2, <2>1, Updates DEF ReqFits, Storers, StorageRow
  <2>3. Ask(r, req'[r]) /\ UNCHANGED <<node, up, disk, work, refs>>
    BY <1>2, <1>b DEF UpdateStorage
  <2>4. QED
    BY <1>a, <2>2, <2>3, FitsAsk
<1>3. ASSUME NEW u \in User, NEW force \in BOOLEAN, DeleteStorage(r, u, force)
      PROVE  Fits'
  <2>1. row[u] \in StorageRow
    BY <1>3, <1>a, Deletes
  <2>2. req'[r] \in Reqs /\ ReqFits(req'[r]) /\ req'[r].pc # "send" /\ row' = row
    BY <1>3, <2>1, Deletes DEF ReqFits, Storers, StorageRow
  <2>3. Ask(r, req'[r]) /\ UNCHANGED <<node, up, disk, work, refs>>
    BY <1>3, <1>b DEF DeleteStorage
  <2>4. QED
    BY <1>a, <2>2, <2>3, FitsAsk
<1>4. ASSUME NEW u \in User, ScheduleJobs(r, u)
      PROVE  Fits'
  <2>1. UNCHANGED <<node, up, row, vol, stray, load, ver, queue, job, lost, req>>
    BY <1>4 DEF ScheduleJobs, disk, work
  <2>2. refs' \subseteq Referring
    BY <1>4 DEF ScheduleJobs, Referring, Fits, TypeOK
  <2>3. QED
    BY <2>1, <2>2 DEF Fits, TypeOK, ReqsFit, TasksFit, KeysHold, Versions
<1>5. QED
  BY <1>1, <1>2, <1>3, <1>4 DEF StorageRequests

\* A request for backups begins.
LEMMA Admits ==
    ASSUME Fits, NEW r \in Request, NEW u \in User, NEW volumes \in Int, Admit(r, u, volumes)
    PROVE  /\ row[u] # NoRow /\ row[u].used < row[u].allowed /\ req[r].op = "none"
           /\ UNCHANGED <<node, up, row, disk, work, refs, loose>>
           /\ req'[r] \in Reqs
           /\ req'[r].op = "backup" /\ req'[r].user = u /\ req'[r].node = NoNode /\ req'[r].pc = "commit"
<1>1. NoReq \in Reqs /\ NoReq.node = NoNode
  BY NoReqFits
<1>2. LET q == [Now("backup", u) EXCEPT !.todo = volumes, !.pc = "commit"]
      IN  q \in Reqs /\ q.op = "backup" /\ q.user = u /\ q.node = NoNode /\ q.pc = "commit"
  BY <1>1 DEF Now, Reqs
<1>3. QED
  BY <1>2, Begins DEF Admit

LEMMA FitsVersionRequest ==
    ASSUME Fits, NEW r \in Request, VersionRequests(r)
    PROVE  Fits'
<1>1. ASSUME NEW u \in User, NEW volumes \in Int, Admit(r, u, volumes)
      PROVE  Fits'
  <2>1. Ask(r, req'[r])
    BY <1>1 DEF Admit, Ask, Fits, ReqsFit
  <2>2. req'[r] \in Reqs /\ ReqFits(req'[r]) /\ req'[r].pc # "send"
    BY <1>1, Admits DEF ReqFits, Storers
  <2>3. UNCHANGED <<node, up, row, disk, work, refs>>
    BY <1>1, Admits
  <2>4. row' \in [User -> StorageRow \cup {NoRow}]
    BY <2>3 DEF Fits, TypeOK
  <2>5. QED
    BY <2>1, <2>2, <2>3, <2>4, FitsAsk
<1>2. ASSUME NEW v \in Version, RestoreVersion(r, v) \/ DeleteVersion(r, v)
      PROVE  Fits'
  <2>1. PICK t \in Task : queue' = queue \cup {t} /\ ver[t[1]].status # "none"
    <3>1. <<v, "restore">> \in Task /\ <<v, "remove">> \in Task
      BY DEF Task
    <3>2. ver[v].status # "none"
      BY <1>2 DEF RestoreVersion, DeleteVersion
    <3>3. QED
      BY <1>2, <3>1, <3>2 DEF RestoreVersion, DeleteVersion
  <2>2. UNCHANGED <<node, up, row, vol, stray, load, refs, ver, job, req, lost>>
    BY <1>2 DEF RestoreVersion, DeleteVersion, disk
  <2>3. TypeOK' /\ load' \in [User -> Int] /\ ReqsFit'
    BY <2>1, <2>2 DEF Fits, TypeOK, ReqsFit
  <2>4. TasksFit'
    BY <2>1, <2>2 DEF Fits, TasksFit
  <2>5. KeysHold'
    BY <2>2 DEF Fits, KeysHold, Versions
  <2>6. QED
    BY <2>3, <2>4, <2>5 DEF Fits
<1>4. ASSUME NEW u \in User, CreateVersion(r, u) \/ CreateBackups(r, u)
      PROVE  \E volumes \in Int : Admit(r, u, volumes)
  BY <1>4 DEF CreateVersion, CreateBackups
<1>5. QED
  BY <1>1, <1>2, <1>4 DEF VersionRequests

\* The rows of nodes.
LEMMA FitsNodeStep ==
    ASSUME Fits, \/ \E r \in Request : NodeRequests(r)
                 \/ \E n \in Node : NodeUp(n) \/ Ping(n)
    PROVE  Fits'
<1>a. node \in [Node -> NodeRow \cup {NoRow}] /\ up \subseteq Node
  BY DEF Fits, TypeOK
<1>1. UNCHANGED <<row, vol, stray, load, refs, ver, queue, job, lost, req>>
  BY DEF NodeRequests, CreateNode, DeleteNode, NodeUp, Ping, disk, work
<1>2. node' \in [Node -> NodeRow \cup {NoRow}] /\ up' \subseteq Node
  <2>1. ASSUME NEW r \in Request, NEW n \in Node, CreateNode(r, n)
        PROVE  node' \in [Node -> NodeRow \cup {NoRow}] /\ up' \subseteq Node
    <3>1. [deleted |-> FALSE, over |-> 0] \in NodeRow
      BY DEF NodeRow, Sums
    <3>2. QED
      BY <1>a, <2>1, <3>1 DEF CreateNode
  <2>2. ASSUME NEW n \in Node, NEW deleted \in BOOLEAN, node[n] # NoRow
        PROVE  [node[n] EXCEPT !.deleted = deleted] \in NodeRow
    BY <1>a, <2>2 DEF NodeRow
  <2>3. ASSUME NEW r \in Request, NEW n \in Node, NEW force \in BOOLEAN, DeleteNode(r, n, force)
        PROVE  node' \in [Node -> NodeRow \cup {NoRow}] /\ up' \subseteq Node
    BY <1>a, <2>2, <2>3 DEF DeleteNode
  <2>4. ASSUME NEW n \in Node, Ping(n)
        PROVE  node' \in [Node -> NodeRow \cup {NoRow}] /\ up' \subseteq Node
    BY <1>a, <2>2, <2>4 DEF Ping
  <2>5. ASSUME NEW n \in Node, NodeUp(n)
        PROVE  node' \in [Node -> NodeRow \cup {NoRow}] /\ up' \subseteq Node
    BY <1>a, <2>5 DEF NodeUp
  <2>6. QED
    BY <2>1, <2>3, <2>4, <2>5 DEF NodeRequests
<1>3. TypeOK' /\ load' \in [User -> Int] /\ ReqsFit'
  BY <1>1, <1>2 DEF Fits, TypeOK, ReqsFit
<1>4. TasksFit' /\ KeysHold'
  BY <1>1 DEF Fits, TasksFit, KeysHold, Versions
<1>5. QED
  BY <1>3, <1>4 DEF Fits

\* How a request for backups goes on.
LEMMA Commits ==
    ASSUME Fits, NEW r \in Request, CommitVersion(r)
    PROVE  /\ req[r].op = "backup" /\ req[r].pc = "commit" /\ req[r].user \in User
           /\ \/ req'[r] = NoReq /\ ver' = ver
              \/ /\ row[req[r].user] # NoRow
                 /\ \E v \in Unused :
                       /\ ver' = [ver EXCEPT ![v] = [status |-> "incomplete", user |-> req[r].user]]
                       /\ req'[r] \in Reqs /\ ReqFits(req'[r])
                       /\ req'[r].op = "backup" /\ req'[r].node = NoNode /\ req'[r].ver = v /\ req'[r].pc = "send"
<1>1. req[r].op = "backup" /\ req[r].pc = "commit"
  BY DEF CommitVersion, At
<1>2. /\ req \in [Request -> Reqs] /\ req[r] \in Reqs /\ ReqFits(req[r])
      /\ req[r].user \in User /\ req[r].node = NoNode
  BY <1>1 DEF Fits, ReqsFit, ReqFits, Storers
<1>3. CASE row[req[r].user] = NoRow \/ req[r].todo = 0
  BY <1>1, <1>2, <1>3 DEF CommitVersion, Done
<1>4. CASE row[req[r].user] # NoRow /\ req[r].todo # 0
  <2>1. PICK v \in Unused :
           /\ ver' = [ver EXCEPT ![v] = [status |-> "incomplete", user |-> req[r].user]]
           /\ req' = [req EXCEPT ![r].todo = @ - 1, ![r].ver = v, ![r].pc = "send"]
    BY <1>4 DEF CommitVersion
  <2>2. PICK todo \in Int : todo = req[r].todo - 1
    BY <1>2 DEF Reqs
  <2>3. req'[r] = [req[r] EXCEPT !.todo = todo, !.ver = v, !.pc = "send"]
    BY <1>2, <2>1, <2>2
  <2>4. v \in Version
    BY DEF Unused
  <2>5. /\ req'[r] \in Reqs /\ req'[r].op = "backup" /\ req'[r].node = NoNode
        /\ req'[r].ver = v /\ req'[r].pc = "send" /\ req'[r].user = req[r].user
    BY <1>1, <1>2, <2>3, <2>4 DEF Reqs
  <2>6. ReqFits(req'[r])
    BY <1>2, <2>5 DEF ReqFits, Storers
  <2>7. QED
    BY <1>1, <1>2, <1>4, <2>1, <2>5, <2>6
<1>5. QED
  BY <1>3, <1>4

LEMMA Sends ==
    ASSUME Fits, NEW r \in Request, SendVersion(r)
    PROVE  /\ req[r].op = "backup" /\ req[r].pc = "send" /\ req[r].ver \in Version
           /\ req'[r] \in Reqs /\ ReqFits(req'[r]) /\ req'[r].pc # "send" /\ req'[r].op \in {"none", "backup"}
           /\ \/ queue' = queue \cup {<<req[r].ver, "backup">>} /\ lost' = lost
              \/ lost' = lost \cup {req[r].ver} /\ queue' = queue
<1>1. req[r].op = "backup" /\ req[r].pc = "send"
  BY DEF SendVersion, At
<1>2. req[r].ver \in Version /\ req \in [Request -> Reqs] /\ req[r] \in Reqs /\ ReqFits(req[r])
  BY <1>1 DEF Fits, TasksFit, ReqsFit
<1>3. CASE Done(r)
  <2>1. req'[r] = NoReq
    BY <1>2, <1>3 DEF Done
  <2>2. QED
    BY <1>1, <1>2, <2>1, NoReqFits DEF SendVersion
<1>4. CASE Goto(r, "commit")
  <2>1. req'[r] = [req[r] EXCEPT !.pc = "commit"]
    BY <1>2, <1>4 DEF Goto
  <2>2. /\ req'[r] \in Reqs /\ req'[r].op = "backup" /\ req'[r].pc = "commit"
        /\ req'[r].node = req[r].node /\ req'[r].user = req[r].user
    BY <1>1, <1>2, <2>1 DEF Reqs
  <2>3. ReqFits(req'[r])
    BY <1>1, <1>2, <2>2 DEF ReqFits, Storers
  <2>4. QED
    BY <1>1, <1>2, <2>2, <2>3 DEF SendVersion
<1>5. QED
  BY <1>3, <1>4 DEF SendVersion

LEMMA FitsVersionStep ==
    ASSUME Fits, NEW r \in Request, CommitVersion(r) \/ SendVersion(r)
    PROVE  Fits'
<1>a. /\ req \in [Request -> Reqs] /\ \A s \in Request \ {r} : req'[s] = req[s]
      /\ ver \in [Version -> VerRow] /\ queue \subseteq Task /\ job \in [Task -> JobRow] /\ NoUser \notin User
  BY OneRequest, ControlPlaneAssumption DEF RequestSteps, Fits, ReqsFit, TasksFit, TypeOK
<1>b. UNCHANGED <<node, up, row, vol, stray, load, refs, job>>
  BY DEF CommitVersion, SendVersion, disk
<1>c. \E q : req' = [req EXCEPT ![r] = q]
  BY DEF CommitVersion, SendVersion, Done, Goto
<1>d. \A t \in Task : t[1] \in Version
  BY DEF Task
<1>1. CASE CommitVersion(r)
  <2>1. req'[r] \in Reqs /\ ReqFits(req'[r])
    BY <1>1, Commits, NoReqFits
  <2>2. ReqsFit'
    BY <1>a, <1>c, <2>1 DEF Fits, ReqsFit
  <2>3. queue' = queue /\ lost' = lost
    BY <1>1 DEF CommitVersion
  <2>4. CASE req'[r] = NoReq /\ ver' = ver
    BY <1>a, <1>b, <2>2, <2>3, <2>4, NoReqFits DEF Fits, TypeOK, TasksFit, KeysHold, Versions
  <2>5. CASE req'[r] # NoReq \/ ver' # ver
    <3>1. PICK v \in Unused :
             /\ row[req[r].user] # NoRow /\ req[r].user \in User
             /\ ver' = [ver EXCEPT ![v] = [status |-> "incomplete", user |-> req[r].user]]
             /\ req'[r].ver = v
      BY <1>1, <2>5, Commits
    <3>2. v \in Version /\ ver[v] = NoVer
      BY DEF Unused
    <3>3. /\ [status |-> "incomplete", user |-> req[r].user] \in VerRow
          /\ ver'[v].status = "incomplete" /\ ver'[v].user = req[r].user
          /\ \A w \in Version \ {v} : ver'[w] = ver[w]
      BY <1>a, <3>1, <3>2 DEF VerRow
    <3>4. ver' \in [Version -> VerRow] /\ \A w \in Version : ver'[w].status # "none" <=> ver'[w].user \in User
      BY <1>a, <3>1, <3>2, <3>3 DEF Fits, TasksFit
    <3>5. \A w \in Version : ver[w].status # "none" => ver'[w].status # "none"
      BY <3>2, <3>3
    <3>6. TasksFit'
      BY <1>a, <1>b, <1>d, <2>3, <3>1, <3>2, <3>3, <3>4, <3>5 DEF Fits, TasksFit
    <3>7. KeysHold'
      BY <1>b, <3>1, <3>2, <3>3 DEF Fits, KeysHold, Versions
    <3>8. QED
      BY <1>b, <2>2, <2>3, <3>6, <3>7 DEF Fits, TypeOK
  <2>6. QED
    BY <2>4, <2>5
<1>2. CASE SendVersion(r)
  <2>1. ver' = ver
    BY <1>2 DEF SendVersion
  <2>2. ReqsFit'
    BY <1>2, <1>a, <1>c, Sends DEF Fits, ReqsFit
  <2>3. ver[req[r].ver].status # "none" /\ req[r].ver \in Version /\ <<req[r].ver, "backup">> \in Task
    BY <1>2, Sends DEF Fits, TasksFit, Task
  <2>4. queue' \subseteq Task /\ lost' \subseteq Version /\ \A t \in queue' : t \in queue \/ t[1] = req[r].ver
    BY <1>2, <2>3, Sends DEF Fits, TypeOK
  <2>5. TasksFit'
    BY <1>2, <1>a, <1>b, <1>d, <2>1, <2>3, <2>4, Sends DEF Fits, TasksFit
  <2>6. QED
    BY <1>b, <2>1, <2>2, <2>4, <2>5 DEF Fits, TypeOK, KeysHold, Versions
<1>3. QED
  BY <1>1, <1>2

\* What a job is after a step of it.
LEMMA JobMoves ==
    ASSUME Fits, NEW t \in Task
    PROVE  /\ \A pc \in {"backup", "remove", "clean", "measure", "record"} : Step(t, pc) =>
                 job' \in [Task -> JobRow] /\ job'[t].pc = pc /\ job'[t].value = job[t].value
           /\ Finish(t) => job' \in [Task -> JobRow] /\ job'[t] = NoJob
           /\ (Finish(t) \/ \E pc : Step(t, pc)) => \A s \in Task \ {t} : job'[s] = job[s]
<1>1. job \in [Task -> JobRow] /\ job[t] \in JobRow /\ NoJob \in JobRow
  BY DEF Fits, TasksFit, JobRow, NoJob
<1>2. ASSUME NEW pc \in {"backup", "remove", "clean", "measure", "record"}, Step(t, pc)
      PROVE  job' \in [Task -> JobRow] /\ job'[t].pc = pc /\ job'[t].value = job[t].value
  <2>1. [job[t] EXCEPT !.pc = pc] \in JobRow
    BY <1>1 DEF JobRow
  <2>2. job' = [job EXCEPT ![t] = [job[t] EXCEPT !.pc = pc]]
    BY <1>1, <1>2 DEF Step
  <2>3. QED
    BY <1>1, <2>1, <2>2 DEF JobRow
<1>3. Finish(t) => job' \in [Task -> JobRow] /\ job'[t] = NoJob
  BY <1>1 DEF Finish
<1>4. (Finish(t) \/ \E pc : Step(t, pc)) => \A s \in Task \ {t} : job'[s] = job[s]
  BY <1>1 DEF Finish, Step
<1>5. QED
  BY <1>2, <1>3, <1>4

\* A version that is not removed has its storage on a node.
LEMMA HasNode ==
    ASSUME Fits, NEW v \in Version, ver[v].status \in {"incomplete", "valid", "invalid"}
    PROVE  /\ ver[v].user \in User /\ row[ver[v].user] # NoRow
           /\ row[ver[v].user] \in StorageRow /\ row[ver[v].user].node \in Node
<1>1. ver[v].user \in User
  BY DEF Fits, TasksFit
<1>2. v \in Versions(ver[v].user)
  BY DEF Versions
<1>3. row[ver[v].user] # NoRow
  BY <1>1, <1>2 DEF Fits, KeysHold
<1>4. row[ver[v].user] \in StorageRow
  BY <1>1, <1>3 DEF Fits, TypeOK
<1>5. QED
  BY <1>1, <1>3, <1>4 DEF StorageRow

\* A backup writes what fits on the volume, and nothing where there is none.
LEMMA WritesFit ==
    ASSUME Fits, NEW u \in User, NEW n \in Node, NEW w \in Writes(u, n)
    PROVE  w \in Nat /\ load[u] + w \in 0 .. MaxSize /\ (vol[u][n] = 0 => w = 0)
<1>1. vol[u][n] \in 0 .. MaxSize /\ load[u] \in 0 .. MaxSize
  BY DEF Fits, TypeOK, Volumes
<1>2. CASE vol[u][n] = 0
  BY <1>1, <1>2, ControlPlaneAssumption DEF Writes
<1>3. CASE vol[u][n] # 0
  <2>1. Available(u, n) \in Int /\ Available(u, n) = vol[u][n] - load[u] /\ MaxWrite \in Nat /\ MaxSize \in Nat
    BY <1>1, ControlPlaneAssumption DEF Available
  <2>2. Min({MaxWrite, Available(u, n)}) \in Int /\ Min({MaxWrite, Available(u, n)}) <= Available(u, n)
    <3>1. ASSUME NEW a \in Int, NEW b \in Int
          PROVE  Min({a, b}) \in Int /\ Min({a, b}) <= b
      <4>1. \E x \in {a, b} : \A y \in {a, b} : x <= y
        <5>1. CASE a <= b
          BY <5>1
        <5>2. CASE b <= a
          BY <5>2
        <5>3. QED
          BY <5>1, <5>2
      <4>2. Min({a, b}) \in {a, b} /\ \A y \in {a, b} : Min({a, b}) <= y
        BY <4>1 DEF Min
      <4>3. QED
        BY <4>2
    <3>2. QED
      BY <2>1, <3>1
  <2>3. w \in 0 .. Min({MaxWrite, Available(u, n)})
    BY <1>3 DEF Writes
  <2>4. w \in Nat /\ w <= Available(u, n)
    BY <2>1, <2>2, <2>3
  <2>5. QED
    BY <1>1, <1>3, <2>1, <2>4
<1>4. QED
  BY <1>2, <1>3

\* What the tasks do: to the job, the version and the files.
LEMMA Tasks ==
    ASSUME Fits, NEW t \in Task, TaskSteps(t)
    PROVE  /\ UNCHANGED <<node, up, vol, stray>> /\ refs' \subseteq Referring
           /\ \A s \in Task \ {t} : job'[s] = job[s]
           /\ job' \in [Task -> JobRow]
           /\ job'[t].pc = "none" => job'[t] = NoJob
           /\ job'[t].pc = "backup" => t[2] = "backup"
           /\ job'[t] # NoJob => t \in queue \/ job[t] # NoJob
           /\ queue' \subseteq queue
           /\ lost' \subseteq lost \cup {t[1]}
           /\ load' \in [User -> Int]
           /\ \A u \in User : load'[u] \in 0 .. MaxSize /\ (load'[u] # load[u] => u = ver[t[1]].user)
           /\ \/ ver' = ver
              \/ /\ ver[t[1]].status \notin {"none", "removed"}
                 /\ \E status \in {"valid", "invalid", "removed"} : ver' = [ver EXCEPT ![t[1]].status = status]
<1>a. /\ job \in [Task -> JobRow] /\ NoJob \in JobRow /\ load \in [User -> Int] /\ NoJob.pc = "none"
      /\ \A u \in User : load[u] \in 0 .. MaxSize
      /\ t[1] \in Version /\ t[2] \in {"backup", "remove", "restore"}
      /\ job[t] # NoJob => ver[t[1]].status # "none" /\ ver[t[1]].user \in User
      /\ job[t].pc # "none" => job[t] # NoJob
      /\ refs \subseteq Referring
  BY DEF Fits, TasksFit, TypeOK, JobRow, NoJob, Task
<1>1. CASE Take(t)
  <2>1. t \in queue /\ t[2] \in {"backup", "remove"} /\ queue' = queue \ {t}
    BY <1>a, <1>1 DEF Take
  <2>2. UNCHANGED <<node, up, vol, stray, load, refs, ver>> /\ lost' \in {lost, lost \cup {t[1]}} /\ (Step(t, t[2]) \/ job' = job)
    BY <1>1 DEF Take, disk
  <2>3. CASE Step(t, t[2])
    BY <1>a, <2>1, <2>2, <2>3, JobMoves
  <2>4. CASE job' = job
    BY <1>a, <2>1, <2>2, <2>4 DEF Fits, TasksFit
  <2>5. QED
    BY <2>2, <2>3, <2>4
<1>2. CASE Backup(t)
  <2>1. UNCHANGED <<node, up, vol, stray, refs, queue, lost>> /\ job[t].pc = "backup"
    BY <1>2 DEF Backup
  <2>2. CASE Finish(t) /\ UNCHANGED <<load, ver>>
    BY <1>a, <2>1, <2>2, JobMoves
  <2>3. CASE /\ ver[t[1]].status = "incomplete" /\ Step(t, "measure")
             /\ \E w \in Writes(ver[t[1]].user, NodeOf(t)) : load' = [load EXCEPT ![ver[t[1]].user] = @ + w]
             /\ \E status \in {"valid", "invalid"} : ver' = [ver EXCEPT ![t[1]].status = status]
    <3>1. PICK u \in User : u = ver[t[1]].user /\ NodeOf(t) \in Node
      BY <1>a, <2>3, HasNode DEF NodeOf
    <3>2. PICK w \in Writes(u, NodeOf(t)) : load' = [load EXCEPT ![u] = @ + w]
      BY <2>3, <3>1
    <3>3. load[u] + w \in 0 .. MaxSize /\ w \in Nat
      BY <3>1, <3>2, WritesFit
    <3>4. load' \in [User -> Int] /\ \A x \in User : load'[x] \in 0 .. MaxSize /\ (load'[x] # load[x] => x = u)
      BY <1>a, <3>2, <3>3
    <3>5. QED
      BY <1>a, <2>1, <2>3, <3>1, <3>4, JobMoves
  <2>4. QED
    BY <1>2, <2>2, <2>3 DEF Backup
<1>3. CASE Remove(t)
  <2>1. UNCHANGED <<node, up, vol, stray, load, queue, lost>> /\ job[t].pc = "remove"
    BY <1>3 DEF Remove, disk
  <2>2. CASE Finish(t) /\ UNCHANGED <<ver, refs>>
    BY <1>a, <2>1, <2>2, JobMoves
  <2>3. CASE /\ ver[t[1]].status # "removed" /\ Step(t, "clean")
             /\ refs' \in {refs, refs \cup {<<"blocks", ver[t[1]].user>>}}
             /\ ver' = [ver EXCEPT ![t[1]].status = "removed"]
    <3>1. ver[t[1]].status \notin {"none", "removed"} /\ job[t] # NoJob /\ ver[t[1]].user \in User
      BY <1>a, <2>1, <2>3
    <3>2. job' \in [Task -> JobRow] /\ job'[t].pc = "clean" /\ \A s \in Task \ {t} : job'[s] = job[s]
      BY <2>3, JobMoves
    <3>3. refs' \subseteq Referring
      BY <1>a, <2>3, <3>1 DEF Referring
    <3>4. QED
      BY <1>a, <2>1, <2>3, <3>1, <3>2, <3>3
  <2>4. QED
    BY <1>3, <2>2, <2>3 DEF Remove
<1>8. CASE Clean(t)
  <2>1. UNCHANGED <<node, up, vol, stray, ver, queue, lost>> /\ job[t].pc = "clean"
    BY <1>8 DEF Clean
  <2>2. refs' \subseteq refs /\ (Step(t, "measure") \/ Finish(t))
    BY <1>8 DEF Clean
  <2>3. PICK u \in User : u = ver[t[1]].user
    BY <1>a, <2>1
  <2>4. PICK freed \in 0 .. load[u] : load' = [load EXCEPT ![u] = @ - freed]
    <3>1. 0 \in 0 .. load[u]
      BY <1>a, ControlPlaneAssumption
    <3>2. QED
      BY <1>8, <2>3, <3>1 DEF Clean
  <2>5. load[u] - freed \in 0 .. MaxSize
    BY <1>a, <2>4, ControlPlaneAssumption
  <2>6. load' \in [User -> Int] /\ \A x \in User : load'[x] \in 0 .. MaxSize /\ (load'[x] # load[x] => x = u)
    BY <1>a, <2>4, <2>5
  <2>7. CASE Step(t, "measure")
    <3>1. job' \in [Task -> JobRow] /\ job'[t].pc = "measure" /\ \A s \in Task \ {t} : job'[s] = job[s]
      BY <2>7, JobMoves
    <3>2. QED
      BY <1>a, <2>1, <2>2, <2>3, <2>6, <3>1
  <2>8. CASE Finish(t)
    BY <1>a, <2>1, <2>2, <2>3, <2>6, <2>8, JobMoves
  <2>9. QED
    BY <2>2, <2>7, <2>8
<1>4. CASE Restore(t)
  BY <1>a, <1>4 DEF Restore, disk, Fits, TasksFit
<1>5. CASE Measure(t)
  <2>1. UNCHANGED <<node, up, vol, stray, load, refs, ver, queue, lost>> /\ job[t].pc = "measure"
    BY <1>5 DEF Measure, disk
  <2>2. CASE Finish(t)
    BY <1>a, <2>1, <2>2, JobMoves
  <2>3. ASSUME NEW u, u = ver[t[1]].user, row[u] # NoRow,
               job' = [job EXCEPT ![t] = [pc |-> "record", value |-> row[u].allowed - Available(u, NodeOf(t))]]
        PROVE  job' \in [Task -> JobRow] /\ job'[t].pc = "record" /\ \A s \in Task \ {t} : job'[s] = job[s]
    <3>1. u \in User /\ row[u] \in StorageRow
      BY <1>a, <2>1, <2>3 DEF Fits, TypeOK
    <3>2. row[u].allowed \in Int /\ NodeOf(t) \in Node
      BY <2>3, <3>1 DEF StorageRow, NodeOf, Sizes
    <3>3. vol[u][NodeOf(t)] \in Int /\ load[u] \in Int
      BY <1>a, <3>1, <3>2 DEF Fits, TypeOK, Volumes
    <3>4. row[u].allowed - Available(u, NodeOf(t)) \in Int
      BY <3>2, <3>3 DEF Available
    <3>5. [pc |-> "record", value |-> row[u].allowed - Available(u, NodeOf(t))] \in JobRow
      BY <3>4 DEF JobRow
    <3>6. QED
      BY <1>a, <2>3, <3>5
  <2>4. QED
    BY <1>5, <1>a, <2>1, <2>2, <2>3 DEF Measure
<1>6. CASE RecordUse(t)
  BY <1>a, <1>6, JobMoves DEF RecordUse, disk
<1>7. QED
  BY <1>1, <1>2, <1>3, <1>4, <1>5, <1>6, <1>8 DEF TaskSteps

\* The used space of a row is all that a task changes of it.
LEMMA UseOnly ==
    ASSUME Fits, NEW t \in Task, TaskSteps(t)
    PROVE  /\ row' \in [User -> StorageRow \cup {NoRow}]
           /\ \A u \in User :
                 /\ row'[u] = NoRow <=> row[u] = NoRow
                 /\ row[u] # NoRow => row'[u].node = row[u].node /\ row'[u].allowed = row[u].allowed
                 /\ row'[u] # row[u] => RecordUse(t) /\ u = ver[t[1]].user
                 /\ RecordUse(t) /\ u = ver[t[1]].user /\ row[u] # NoRow => row'[u].used = job[t].value
<1>a. row \in [User -> StorageRow \cup {NoRow}] /\ NoRow \notin StorageRow
  BY ControlPlaneAssumption DEF Fits, TypeOK
<1>1. CASE RecordUse(t)
  <2>1. job[t] \in JobRow /\ job[t] # NoJob
    BY <1>1 DEF RecordUse, Fits, TasksFit, NoJob
  <2>2. PICK u \in User, used \in Int : u = ver[t[1]].user /\ used = job[t].value
    BY <2>1 DEF Fits, TasksFit, Task, JobRow
  <2>3. CASE row[u] = NoRow
    <3>1. row' = row
      BY <1>a, <1>1, <2>2, <2>3 DEF RecordUse, UpdateRow
    <3>2. QED
      BY <1>a, <2>2, <2>3, <3>1
  <2>4. CASE row[u] # NoRow
    <3>1. row' = [row EXCEPT ![u] = [row[u] EXCEPT !.used = used]] /\ row[u] \in StorageRow
      BY <1>a, <1>1, <2>2, <2>4 DEF RecordUse, UpdateRow
    <3>2. PICK changed \in StorageRow : /\ changed = [row[u] EXCEPT !.used = used]
                                        /\ changed.node = row[u].node /\ changed.allowed = row[u].allowed
                                        /\ changed.used = used
      <4>1. [row[u] EXCEPT !.used = used] \in StorageRow
        BY <3>1 DEF StorageRow
      <4>2. LET changed == [row[u] EXCEPT !.used = used]
            IN  changed.node = row[u].node /\ changed.allowed = row[u].allowed /\ changed.used = used
        BY <3>1 DEF StorageRow
      <4>3. QED
        BY <4>1, <4>2
    <3>3. row'[u] = changed /\ \A w \in User \ {u} : row'[w] = row[w]
      BY <1>a, <3>1, <3>2
    <3>4. row' \in [User -> StorageRow \cup {NoRow}]
      BY <1>a, <3>1, <3>2
    <3>5. QED
      BY <1>a, <1>1, <2>2, <2>4, <3>2, <3>3, <3>4
  <2>5. QED
    BY <2>3, <2>4
<1>2. CASE ~ RecordUse(t)
  <2>1. row' = row
    BY <1>2 DEF TaskSteps, Take, Backup, Remove, Clean, Restore, Measure
  <2>2. QED
    BY <1>a, <1>2, <2>1
<1>3. QED
  BY <1>1, <1>2

LEMMA FitsTaskStep ==
    ASSUME Fits, NEW t \in Task, TaskSteps(t)
    PROVE  Fits'
<1>a. ver \in [Version -> VerRow] /\ t[1] \in Version /\ req' = req /\ \A s \in Task : s[1] \in Version
  BY NoRequest DEF Fits, TasksFit, Task
<1>b. /\ \A s \in Task \ {t} : job'[s] = job[s]
      /\ job'[t].pc = "none" => job'[t] = NoJob
      /\ job'[t].pc = "backup" => t[2] = "backup"
      /\ job'[t] # NoJob => t \in queue \/ job[t] # NoJob
      /\ queue' \subseteq queue
      /\ lost' \subseteq lost \cup {t[1]}
  BY Tasks
<1>c. /\ queue \subseteq Task /\ lost \subseteq Version
      /\ \A s \in Task : s \in queue \/ job[s] # NoJob => ver[s[1]].status # "none"
      /\ \A s \in Task : (job[s].pc = "none" => job[s] = NoJob) /\ (job[s].pc = "backup" => s[2] = "backup")
  BY DEF Fits, TypeOK, TasksFit
<1>1. /\ ver' \in [Version -> VerRow]
      /\ \A v \in Version : /\ ver'[v].user = ver[v].user
                            /\ ver'[v].status = "none" <=> ver[v].status = "none"
                            /\ ver'[v].status # "removed" => ver[v].status # "removed"
  <2>1. CASE ver' = ver
    BY <1>a, <2>1
  <2>2. ASSUME NEW status \in {"valid", "invalid", "removed"}, ver' = [ver EXCEPT ![t[1]].status = status],
               ver[t[1]].status \notin {"none", "removed"}
        PROVE  /\ ver' \in [Version -> VerRow]
               /\ \A v \in Version : /\ ver'[v].user = ver[v].user
                                     /\ ver'[v].status = "none" <=> ver[v].status = "none"
                                     /\ ver'[v].status # "removed" => ver[v].status # "removed"
    <3>1. [ver[t[1]] EXCEPT !.status = status] \in VerRow /\ ver[t[1]] \in VerRow
      BY <1>a DEF VerRow
    <3>2. ver'[t[1]] = [ver[t[1]] EXCEPT !.status = status] /\ \A v \in Version \ {t[1]} : ver'[v] = ver[v]
      BY <1>a, <2>2
    <3>3. ver'[t[1]].user = ver[t[1]].user /\ ver'[t[1]].status = status
      BY <3>1, <3>2 DEF VerRow
    <3>4. ver' \in [Version -> VerRow]
      BY <1>a, <2>2, <3>1
    <3>5. QED
      BY <2>2, <3>2, <3>3, <3>4
  <2>3. QED
    BY <2>1, <2>2, Tasks
<1>2. TypeOK' /\ load' \in [User -> Int] /\ ReqsFit'
  <2>1. lost' \subseteq Version /\ queue' \subseteq Task
    BY <1>a, <1>b, <1>c
  <2>2. UNCHANGED <<node, up, vol, stray>> /\ refs' \subseteq Referring /\ load' \in [User -> Int] /\ \A u \in User : load'[u] \in 0 .. MaxSize
    BY Tasks
  <2>3. QED
    BY <1>a, <2>1, <2>2, UseOnly DEF Fits, TypeOK, ReqsFit
<1>3. TasksFit'
  <2>1. \A v \in Version : ver'[v].status # "none" <=> ver'[v].user \in User
    BY <1>1 DEF Fits, TasksFit
  <2>2. \A s \in Task : s \in queue' \/ job'[s] # NoJob => ver'[s[1]].status # "none"
    BY <1>a, <1>b, <1>c, <1>1
  <2>3. \A s \in Task : (job'[s].pc = "none" => job'[s] = NoJob) /\ (job'[s].pc = "backup" => s[2] = "backup")
    BY <1>b, <1>c
  <2>4. \A r \in Request : req'[r].op = "backup" /\ req'[r].pc = "send" =>
           req'[r].ver \in Version /\ ver'[req'[r].ver].status # "none"
    BY <1>a, <1>1 DEF Fits, TasksFit
  <2>5. job' \in [Task -> JobRow]
    BY Tasks
  <2>6. QED
    BY <1>1, <2>1, <2>2, <2>3, <2>4, <2>5 DEF TasksFit
<1>4. KeysHold'
  <2>1. \A u \in User : Versions(u)' \subseteq Versions(u)
    BY <1>1 DEF Versions
  <2>2. QED
    BY <2>1, UseOnly DEF Fits, KeysHold
<1>5. QED
  BY <1>2, <1>3, <1>4 DEF Fits

LEMMA FitsNodeDown ==
    ASSUME Fits, NEW n \in Node, NodeDown(n)
    PROVE  Fits'
<1>1. UNCHANGED <<node, row, vol, stray, load, refs, ver, queue, req>> /\ up' \subseteq up
  BY DEF NodeDown, disk
<1>2. PICK dead \in SUBSET Task :
         /\ job' = [t \in Task |-> IF t \in dead THEN NoJob ELSE job[t]]
         /\ lost' = lost \cup {t[1] : t \in {s \in dead : s[2] = "backup"}}
  <2>1. {t \in Task : job[t] # NoJob /\ row[ver[t[1]].user] # NoRow /\ NodeOf(t) = n} \in SUBSET Task
    OBVIOUS
  <2>2. QED
    BY <2>1 DEF NodeDown
<1>3. lost' \subseteq Version
  BY <1>2 DEF Fits, TypeOK, Task
<1>4. TypeOK' /\ load' \in [User -> Int] /\ ReqsFit' /\ KeysHold'
  BY <1>1, <1>3 DEF Fits, TypeOK, ReqsFit, KeysHold, Versions
<1>5. TasksFit'
  BY <1>1, <1>2 DEF Fits, TasksFit, JobRow, NoJob
<1>6. QED
  BY <1>4, <1>5 DEF Fits

\* The rows, requests and tasks stay what they are made of; foreign keys hold.
THEOREM ControlPlaneFits == Spec => []Fits
<1>1. Init => Fits
  <2> SUFFICES ASSUME Init
               PROVE  Fits
    OBVIOUS
  <2>a. PICK place \in [User -> Node \cup {NoNode}], s \in OldSizes :
          /\ row = [u \in User |-> IF place[u] = NoNode THEN NoRow
                                 ELSE [node |-> place[u], allowed |-> s, used |-> 0, deleted |-> FALSE]]
          /\ vol = [u \in User |-> [n \in Node |-> IF place[u] = n THEN s ELSE 0]]
          /\ node = [n \in Node |-> [deleted |-> FALSE, over |-> Committed(vol, n)]]
    BY DEF Init
  <2>c. s \in Sizes
    BY ControlPlaneAssumption
  <2>b. /\ stray = [u \in User |-> [n \in Node |-> 0]] /\ refs = {} /\ up = Node /\ load = [u \in User |-> 0] /\ ver = [v \in Version |-> NoVer] /\ queue = {}
        /\ job = [t \in Task |-> NoJob] /\ req = [r \in Request |-> NoReq] /\ lost = {}
    BY DEF Init
  <2>1. vol \in Volumes /\ stray \in Volumes
    BY <2>a, <2>b, <2>c, ControlPlaneAssumption DEF Volumes, Sizes
  <2>2. row \in [User -> StorageRow \cup {NoRow}]
    BY <2>a, <2>c DEF StorageRow
  <2>3. node \in [Node -> NodeRow \cup {NoRow}]
    BY <2>1, <2>a, SumIsSum DEF NodeRow
  <2>4. TypeOK /\ load \in [User -> Int]
    BY <2>b, <2>1, <2>2, <2>3, ControlPlaneAssumption DEF TypeOK
  <2>5. ReqsFit
    BY <2>b, NoReqFits DEF ReqsFit
  <2>6. TasksFit /\ KeysHold
    BY <2>b, NoReqFits, ControlPlaneAssumption
       DEF TasksFit, KeysHold, Versions, NoVer, NoJob, VerRow, JobRow, Task
  <2>7. QED
    BY <2>4, <2>5, <2>6 DEF Fits
<1>2. Fits /\ [Next]_vars => Fits'
  <2> SUFFICES ASSUME Fits, [Next]_vars
               PROVE  Fits'
    OBVIOUS
  <2>1. CASE UNCHANGED vars
    BY <2>1 DEF vars, Fits, TypeOK, ReqsFit, TasksFit, KeysHold, Versions
  <2>2. ASSUME NEW r \in Request, StorageRequests(r) \/ VersionRequests(r) \/ NodeRequests(r) \/ RequestSteps(r)
        PROVE  Fits'
    BY <2>2, FitsStorageRequest, FitsVersionRequest, FitsNodeStep, FitsStorageStep, FitsVersionStep
       DEF RequestSteps, StorageSteps
  <2>3. QED
    BY <2>1, <2>2, FitsTaskStep, FitsNodeStep, FitsNodeDown DEF Next
<1>3. QED
  BY <1>1, <1>2, PTL DEF Spec

-----------------------------------------------------------------------------
(* Versions that wait.                                                     *)

Pending(v) ==
    \/ v \in lost
    \/ \E r \in Request : At(r, "backup", "send") /\ req[r].ver = v
    \/ <<v, "backup">> \in queue
    \/ job[<<v, "backup">>].pc = "backup"

LEMMA PendingRequest ==
    ASSUME Fits, IncompleteIsPending, NEW r \in Request,
           StorageRequests(r) \/ VersionRequests(r) \/ NodeRequests(r) \/ RequestSteps(r)
    PROVE  IncompleteIsPending'
<1>a. \A s \in Request \ {r} : req'[s] = req[s]
  BY OneRequest
<1>b. \A v \in Version : ver[v].status = "incomplete" => Pending(v)
  BY DEF IncompleteIsPending, Pending
<1>1. ASSUME ver' = ver, job' = job, lost \subseteq lost', queue \subseteq queue',
             ~ At(r, "backup", "send")
      PROVE  IncompleteIsPending'
  <2>1. ASSUME NEW v \in Version, Pending(v)
        PROVE  Pending(v)'
    <3>1. CASE \E s \in Request : At(s, "backup", "send") /\ req[s].ver = v
      <4>1. PICK s \in Request : At(s, "backup", "send") /\ req[s].ver = v
        BY <3>1
      <4>2. req'[s] = req[s]
        BY <1>a, <1>1, <4>1
      <4>3. QED
        BY <4>1, <4>2 DEF At, Pending
    <3>2. QED
      BY <1>1, <2>1, <3>1 DEF Pending
  <2>2. QED
    BY <1>b, <1>1, <2>1 DEF IncompleteIsPending, Pending
<1>2. CASE SendVersion(r)
  <2>1. ver' = ver /\ job' = job
    BY <1>2 DEF SendVersion
  <2>2. PICK v \in Version : v = req[r].ver
    BY <1>2, Sends
  <2>3. v \in lost' \/ <<v, "backup">> \in queue'
    BY <1>2, <2>2, Sends
  <2>4. \A w \in Version : ver[w].status = "incomplete" => Pending(w)'
    <3>1. ASSUME NEW w \in Version, Pending(w)
          PROVE  Pending(w)'
      <4>1. lost \subseteq lost' /\ queue \subseteq queue'
        BY <1>2, Sends
      <4>2. CASE w = v
        BY <2>3, <4>2 DEF Pending
      <4>3. CASE w # v
        BY <1>a, <2>1, <2>2, <3>1, <4>1, <4>3 DEF Pending, At
      <4>4. QED
        BY <4>2, <4>3
    <3>2. QED
      BY <1>b, <3>1
  <2>5. QED
    BY <2>1, <2>4 DEF IncompleteIsPending, Pending
<1>3. CASE CommitVersion(r)
  <2>1. queue' = queue /\ job' = job /\ lost' = lost /\ ~ At(r, "backup", "send")
    BY <1>3 DEF CommitVersion, At
  <2>2. CASE ver' = ver
    BY <1>1, <2>1, <2>2
  <2>3. CASE ver' # ver
    <3>1. PICK v \in Unused :
             /\ ver' = [ver EXCEPT ![v] = [status |-> "incomplete", user |-> req[r].user]]
             /\ req'[r].op = "backup" /\ req'[r].ver = v /\ req'[r].pc = "send"
      BY <1>3, <2>3, Commits
    <3>2. \A w \in Version \ {v} : ver'[w] = ver[w]
      BY <3>1 DEF Fits, TasksFit
    <3>3. Pending(v)'
      BY <3>1 DEF Pending, At
    <3>4. ASSUME NEW w \in Version, Pending(w)
          PROVE  Pending(w)'
      BY <1>a, <2>1, <3>4 DEF Pending, At
    <3>5. QED
      BY <1>b, <3>2, <3>3, <3>4 DEF IncompleteIsPending, Pending
  <2>4. QED
    BY <2>2, <2>3
<1>4. CASE StorageRequests(r) \/ NodeRequests(r) \/ StorageSteps(r)
  <2>1. ver' = ver /\ job' = job /\ lost' = lost /\ queue' = queue
    BY <1>4 DEF StorageRequests, CreateStorage, UpdateStorage, DeleteStorage, ScheduleJobs, NodeRequests, CreateNode, DeleteNode,
       StorageSteps, MapStorage, MapStorageFails, Record, UndoStorage, GrowVolume, CommitUpdate, UnmapStorage,
       UnmapStorageFails, CommitDelete, CallFails, work
  <2>2. ~ At(r, "backup", "send")
    <3>1. CASE StorageSteps(r)
      BY <3>1, Starts DEF At, Storers
    <3>2. CASE StorageRequests(r) \/ NodeRequests(r)
      BY <3>2 DEF StorageRequests, CreateStorage, UpdateStorage, DeleteStorage, ScheduleJobs, NodeRequests, CreateNode, DeleteNode,
         Ask, At
    <3>3. QED
      BY <1>4, <3>1, <3>2
  <2>3. QED
    BY <1>1, <2>1, <2>2
<1>5. CASE VersionRequests(r)
  <2>1. ver' = ver /\ job' = job /\ lost' = lost /\ queue \subseteq queue' /\ ~ At(r, "backup", "send")
    BY <1>5 DEF VersionRequests, CreateVersion, CreateBackups, Admit, RestoreVersion, DeleteVersion, Ask, At, work
  <2>2. QED
    BY <1>1, <2>1
<1>6. QED
  BY <1>2, <1>3, <1>4, <1>5 DEF RequestSteps, StorageSteps

LEMMA PendingTask ==
    ASSUME Fits, IncompleteIsPending, NEW t \in Task, TaskSteps(t)
    PROVE  IncompleteIsPending'
<1>a. req' = req /\ t = <<t[1], t[2]>> /\ t[1] \in Version
  BY NoRequest DEF Task
<1>b. \A s \in Task \ {t} : job'[s] = job[s]
  BY Tasks
<1>c. \A v \in Version : ver[v].status = "incomplete" => Pending(v)
  BY DEF IncompleteIsPending, Pending
<1>d. \A v \in Version : <<v, "backup">> \in Task /\ (<<v, "backup">> = t <=> v = t[1] /\ t[2] = "backup")
  BY <1>a DEF Task
<1>1. ASSUME NEW v \in Version, Pending(v), ver'[v].status = "incomplete", v # t[1] \/ t[2] # "backup",
             lost \subseteq lost', queue' = queue \/ queue' = queue \ {t}
      PROVE  Pending(v)'
  BY <1>a, <1>b, <1>d, <1>1 DEF Pending, At
<1>2. \A v \in Version : ver'[v].status = "incomplete" => ver[v].status = "incomplete"
  <2>1. ver' = ver \/ \E status \in {"valid", "invalid", "removed"} : ver' = [ver EXCEPT ![t[1]].status = status]
    BY Tasks
  <2>2. ver \in [Version -> VerRow]
    BY DEF Fits, TasksFit
  <2>3. QED
    BY <1>a, <2>1, <2>2 DEF VerRow
<1>3. lost \subseteq lost' /\ (queue' = queue \/ queue' = queue \ {t})
  BY DEF TaskSteps, Take, Backup, Remove, Clean, Restore, Measure, RecordUse
<1>4. CASE t[2] # "backup"
  BY <1>1, <1>2, <1>3, <1>4, <1>c DEF IncompleteIsPending, Pending
<1>5. CASE t[2] = "backup"
  <2>1. ASSUME ver'[t[1]].status = "incomplete"
        PROVE  Pending(t[1])'
    <3>1. CASE Take(t)
      <4>1. CASE Step(t, t[2])
        BY <1>a, <1>5, <4>1, JobMoves DEF Pending
      <4>2. CASE ~ Step(t, t[2])
        BY <1>5, <3>1, <4>2 DEF Take, Pending
      <4>3. QED
        BY <4>1, <4>2
    <3>2. CASE Backup(t)
      <4>1. job[t].pc = "backup" /\ queue' = queue /\ lost' = lost
        BY <3>2 DEF Backup
      <4>2. CASE ver[t[1]].status = "incomplete"
        <5>1. PICK status \in {"valid", "invalid"} : ver' = [ver EXCEPT ![t[1]].status = status]
          BY <3>2, <4>2 DEF Backup
        <5>2. ver'[t[1]].status = status
          BY <1>a, <5>1 DEF Fits, TasksFit, VerRow
        <5>3. QED
          BY <2>1, <5>2
      <4>3. CASE ver[t[1]].status # "incomplete"
        BY <1>a, <1>2, <2>1, <4>3
      <4>4. QED
        BY <4>2, <4>3
    <3>3. CASE ~ (Take(t) \/ Backup(t))
      <4>1. job[t].pc # "backup" /\ queue' = queue
        BY <1>5, <3>3 DEF TaskSteps, Remove, Clean, Restore, Measure, RecordUse
      <4>2. Pending(t[1])
        BY <1>a, <1>2, <1>c, <2>1
      <4>3. QED
        BY <1>a, <1>3, <1>5, <4>1, <4>2 DEF Pending, At
    <3>4. QED
      BY <3>1, <3>2, <3>3
  <2>2. QED
    BY <1>1, <1>2, <1>3, <1>c, <2>1 DEF IncompleteIsPending, Pending
<1>6. QED
  BY <1>4, <1>5

\* create_version and its kin: a version never waits for a backup that nobody has,
\* unless its task or its server was lost.
THEOREM IncompleteIsPendingAlways == Spec => []IncompleteIsPending
<1>1. Init => IncompleteIsPending
  BY DEF Init, IncompleteIsPending, NoVer
<1>2. Fits /\ IncompleteIsPending /\ [Next]_vars => IncompleteIsPending'
  <2> SUFFICES ASSUME Fits, IncompleteIsPending, [Next]_vars
               PROVE  IncompleteIsPending'
    OBVIOUS
  <2>1. CASE UNCHANGED vars
    BY <2>1 DEF vars, IncompleteIsPending, At
  <2>2. ASSUME NEW n \in Node, NodeDown(n)
        PROVE  IncompleteIsPending'
    <3>1. PICK dead \in SUBSET Task :
             /\ job' = [t \in Task |-> IF t \in dead THEN NoJob ELSE job[t]]
             /\ lost' = lost \cup {t[1] : t \in {s \in dead : s[2] = "backup"}}
      <4>1. {t \in Task : job[t] # NoJob /\ row[ver[t[1]].user] # NoRow /\ NodeOf(t) = n} \in SUBSET Task
        OBVIOUS
      <4>2. QED
        BY <2>2, <4>1 DEF NodeDown
    <3>2. ver' = ver /\ req' = req /\ queue' = queue
      BY <2>2 DEF NodeDown
    <3>3. ASSUME NEW v \in Version, job[<<v, "backup">>].pc = "backup"
          PROVE  v \in lost' \/ job'[<<v, "backup">>].pc = "backup"
      <4>1. <<v, "backup">> \in Task /\ <<v, "backup">>[1] = v /\ <<v, "backup">>[2] = "backup"
        BY DEF Task
      <4>2. CASE <<v, "backup">> \in dead
        BY <3>1, <4>1, <4>2
      <4>3. CASE <<v, "backup">> \notin dead
        BY <3>1, <3>3, <4>1, <4>3
      <4>4. QED
        BY <4>2, <4>3
    <3>4. QED
      BY <3>1, <3>2, <3>3 DEF IncompleteIsPending, At
  <2>3. ASSUME NEW n \in Node, NodeUp(n) \/ Ping(n)
        PROVE  IncompleteIsPending'
    BY <2>3 DEF NodeUp, Ping, work, IncompleteIsPending, At
  <2>4. QED
    BY <2>1, <2>2, <2>3, PendingRequest, PendingTask DEF Next
<1>3. QED
  BY <1>1, <1>2, ControlPlaneFits, PTL DEF Spec

-----------------------------------------------------------------------------
(* Rows and volumes.                                                       *)

Matches(u) == \A n \in Node : vol[u][n] = IF row[u] # NoRow /\ row[u].node = n THEN row[u].allowed ELSE 0
Empty(u) == \A n \in Node : vol[u][n] = 0
Bare(u) == \A n \in Node : stray[u][n] = 0
Holds(u, m, s) == \A n \in Node : vol[u][n] = IF n = m THEN s ELSE 0

\* How far a request has come: create_storage commits the row first, update_storage
\* and delete_storage change the volume first.
Underway(u, q) ==
    /\ row[u] # NoRow /\ row[u].node = q.node
    /\ q.op = "create" => row[u].allowed = q.size /\ IF q.pc = "record" THEN Matches(u) ELSE Empty(u)
    /\ q.op = "update" => IF q.pc = "call" THEN row[u].allowed < q.size /\ Matches(u) ELSE Holds(u, q.node, q.size)
    /\ q.op = "delete" => IF q.pc = "call" THEN Matches(u) ELSE Empty(u)

\* VolumeMatchesRow with what makes it inductive: one request at a time, and the
\* difference between row and volume is the part of it that is done.
Kept(u) ==
    /\ Bare(u)
    /\ \A r, s \in Storing(u) : r = s
    /\ Storing(u) = {} => Matches(u)
    /\ \A r \in Storing(u) : Underway(u, req[r])
VolumeInv == \A u \in User : Tight("volume", u) => Kept(u)

\* The steps that are about no storage.
QuietSteps ==
    \/ \E r \in Request : VersionRequests(r) \/ NodeRequests(r) \/ CommitVersion(r) \/ SendVersion(r)
    \/ \E r \in Request, u \in User : ScheduleJobs(r, u)
    \/ \E t \in Task : TaskSteps(t)
    \/ \E n \in Node : NodeDown(n) \/ NodeUp(n) \/ Ping(n)

LEMMA Quiet ==
    ASSUME Fits, QuietSteps
    PROVE  /\ vol' = vol /\ stray' = stray /\ loose \subseteq loose'
           /\ \A u \in User :
                 /\ row'[u] = NoRow <=> row[u] = NoRow
                 /\ row[u] # NoRow => row'[u].node = row[u].node /\ row'[u].allowed = row[u].allowed
           /\ \A r \in Request : req[r].node # NoNode \/ req'[r].node # NoNode => req'[r] = req[r]
           /\ \A r \in Request : req[r].op \in Storers \/ req'[r].op \in Storers => req'[r] = req[r]
<1>1. ASSUME NEW t \in Task, TaskSteps(t)
      PROVE  /\ vol' = vol /\ stray' = stray /\ loose \subseteq loose' /\ req' = req
             /\ \A u \in User :
                   /\ row'[u] = NoRow <=> row[u] = NoRow
                   /\ row[u] # NoRow => row'[u].node = row[u].node /\ row'[u].allowed = row[u].allowed
  BY <1>1, UseOnly, Tasks, NoRequest
<1>2. ASSUME NEW n \in Node, NodeDown(n) \/ NodeUp(n) \/ Ping(n)
      PROVE  vol' = vol /\ stray' = stray /\ loose \subseteq loose' /\ req' = req /\ row' = row
  BY <1>2, NoRequest DEF NodeDown, NodeUp, Ping, disk
<1>3. ASSUME NEW r \in Request, VersionRequests(r) \/ NodeRequests(r) \/ CommitVersion(r) \/ SendVersion(r)
      PROVE  /\ vol' = vol /\ stray' = stray /\ loose \subseteq loose' /\ row' = row
             /\ \A s \in Request : req'[s] = req[s]
                \/ (req[s].op \in {"none", "backup"} /\ req'[s].op \in {"none", "backup"} /\ req[s].node = NoNode /\ req'[s].node = NoNode)
  <2>a. /\ \A s \in Request \ {r} : req'[s] = req[s]
        /\ loose \subseteq loose' /\ req[r] \in Reqs /\ ReqFits(req[r])
    BY <1>3, OneRequest DEF RequestSteps, Fits, ReqsFit
  <2>b. req[r].op \in {"none", "backup"} => req[r].node = NoNode
    BY <2>a DEF ReqFits, Storers
  <2>1. CASE NodeRequests(r)
    BY <2>1, <2>a DEF NodeRequests, CreateNode, DeleteNode, disk
  <2>2. ASSUME NEW u \in User, NEW volumes \in Int, Admit(r, u, volumes)
        PROVE  vol' = vol /\ stray' = stray /\ row' = row /\ req[r].op = "none" /\ req'[r].op = "backup" /\ req'[r].node = NoNode
    BY <2>2, Admits DEF disk
  <2>3. ASSUME NEW v \in Version, RestoreVersion(r, v) \/ DeleteVersion(r, v)
        PROVE  vol' = vol /\ stray' = stray /\ row' = row /\ req' = req
    BY <2>3 DEF RestoreVersion, DeleteVersion, disk
  <2>4. ASSUME NEW u \in User, CreateVersion(r, u) \/ CreateBackups(r, u)
        PROVE  \E volumes \in Int : Admit(r, u, volumes)
    BY <2>4 DEF CreateVersion, CreateBackups
  <2>5. CASE VersionRequests(r)
    BY <2>5, <2>a, <2>b, <2>2, <2>3, <2>4 DEF VersionRequests
  <2>6. CASE CommitVersion(r)
    BY <2>6, <2>a, <2>b, Commits, NoReqFits DEF CommitVersion, disk
  <2>7. CASE SendVersion(r)
    <3>1. req[r].op = "backup" /\ ReqFits(req'[r]) /\ req'[r].op \in {"none", "backup"}
      BY <2>7, Sends
    <3>2. req'[r].node = NoNode
      BY <3>1 DEF ReqFits, Storers
    <3>3. QED
      BY <2>7, <2>a, <2>b, <3>1, <3>2 DEF SendVersion, disk
  <2>8. QED
    BY <1>3, <2>1, <2>5, <2>6, <2>7
<1>4. ASSUME NEW r \in Request, NEW u \in User, ScheduleJobs(r, u)
      PROVE  vol' = vol /\ stray' = stray /\ loose' = loose /\ req' = req /\ row' = row
  BY <1>4 DEF ScheduleJobs, disk
<1>5. QED
  BY <1>1, <1>2, <1>3, <1>4 DEF QuietSteps, Storers

LEMMA KeptFrame ==
    ASSUME NEW u \in User, Kept(u),
           vol'[u] = vol[u], stray'[u] = stray[u], row'[u] = NoRow <=> row[u] = NoRow,
           row[u] # NoRow => row'[u].node = row[u].node /\ row'[u].allowed = row[u].allowed,
           \A r \in Request : r \in Storing(u) \/ r \in Storing(u)' => req'[r] = req[r]
    PROVE  Kept(u)'
<1>1. Storing(u)' = Storing(u) /\ \A r \in Storing(u) : req'[r] = req[r]
  BY DEF Storing
<1>2. (Matches(u)' <=> Matches(u)) /\ (Empty(u)' <=> Empty(u)) /\ (Bare(u)' <=> Bare(u))
  BY DEF Matches, Empty, Bare
<1>3. ASSUME NEW r \in Storing(u)
      PROVE  Underway(u, req[r])'
  <2>1. Underway(u, req[r]) /\ req'[r] = req[r]
    BY <1>1 DEF Kept
  <2>2. \A m, s : Holds(u, m, s) => Holds(u, m, s)'
    BY DEF Holds
  <2>3. QED
    BY <1>2, <2>1, <2>2 DEF Underway
<1>4. QED
  BY <1>1, <1>2, <1>3 DEF Kept

LEMMA VolumeQuiet ==
    ASSUME Fits, VolumeInv, QuietSteps
    PROVE  VolumeInv'
<1>1. ASSUME NEW u \in User, Tight("volume", u)'
      PROVE  Kept(u)'
  <2>1. Kept(u)
    BY <1>1, Quiet DEF VolumeInv, Tight
  <2>2. \A r \in Request : r \in Storing(u) \/ r \in Storing(u)' => req'[r] = req[r]
    BY Quiet DEF Storing, Storers
  <2>3. vol'[u] = vol[u] /\ stray'[u] = stray[u] /\ (row'[u] = NoRow <=> row[u] = NoRow) /\
        (row[u] # NoRow => row'[u].node = row[u].node /\ row'[u].allowed = row[u].allowed)
    BY Quiet
  <2>4. QED
    BY <2>1, <2>2, <2>3, KeptFrame
<1>2. QED
  BY <1>1 DEF VolumeInv

\* The requests that begin to change a storage.
Orders(r) ==
    \/ \E u \in User, s \in Sizes : CreateStorage(r, u, s) \/ UpdateStorage(r, u, s)
    \/ \E u \in User, force \in BOOLEAN : DeleteStorage(r, u, force)

LEMMA VolumeRequest ==
    ASSUME Fits, VolumeInv, NEW r \in Request, Orders(r)
    PROVE  VolumeInv'
<1>a. /\ vol \in Volumes /\ row \in [User -> StorageRow \cup {NoRow}] /\ NoRow \notin StorageRow
      /\ \A s \in Request \ {r} : req'[s] = req[s]
      /\ loose \subseteq loose'
  BY OneRequest, ControlPlaneAssumption DEF Fits, TypeOK, Orders, StorageRequests
<1>1. ASSUME NEW u \in User, NEW n \in Node, req[r].op = "none", req'[r].op \in Storers, req'[r].user = u,
             loose' = loose \cup Contest(u, n), vol' = vol, stray' = stray,
             \A w \in User \ {u} : row'[w] = row[w],
             Matches(u) => Underway(u, req[r])'
      PROVE  VolumeInv'
  <2>1. ASSUME NEW w \in User \ {u}, Tight("volume", w)'
        PROVE  Kept(w)'
    <3>1. Kept(w)
      BY <1>a, <2>1 DEF VolumeInv, Tight
    <3>2. \A s \in Request : s \in Storing(w) \/ s \in Storing(w)' => req'[s] = req[s]
      BY <1>a, <1>1 DEF Storing
    <3>3. QED
      BY <1>1, <3>1, <3>2, KeptFrame
  <2>2. ASSUME Tight("volume", u)'
        PROVE  Kept(u)'
    <3>1. Kept(u) /\ Storing(u) = {}
      BY <1>1, <1>a, <2>2 DEF VolumeInv, Tight, Contest
    <3>2. Storing(u)' = {r}
      BY <1>a, <1>1, <3>1 DEF Storing, Storers
    <3>3. Underway(u, req[r])'
      BY <1>1, <3>1 DEF Kept
    <3>4. Bare(u)'
      BY <1>1, <3>1 DEF Kept, Bare
    <3>5. QED
      BY <3>2, <3>3, <3>4 DEF Kept
  <2>3. QED
    BY <2>1, <2>2 DEF VolumeInv
<1>2. ASSUME NEW u \in User, NEW s \in Sizes, CreateStorage(r, u, s)
      PROVE  VolumeInv'
  <2>1. PICK n \in Node :
           /\ row' = [row EXCEPT ![u] = [node |-> n, allowed |-> s, used |-> 0, deleted |-> FALSE]]
           /\ req'[r].op = "create" /\ req'[r].user = u /\ req'[r].node = n
           /\ req'[r].size = s /\ req'[r].pc = "call"
           /\ loose' = loose \cup Contest(u, n)
    BY <1>2, Creates
  <2>2. row[u] = NoRow /\ req[r].op = "none" /\ vol' = vol /\ stray' = stray
    BY <1>2, Creates
  <2>3. /\ row'[u] = [node |-> n, allowed |-> s, used |-> 0, deleted |-> FALSE]
        /\ \A w \in User \ {u} : row'[w] = row[w]
    BY <1>a, <2>1
  <2>4. row'[u] \in StorageRow /\ row'[u].node = n /\ row'[u].allowed = s
    BY <2>3 DEF StorageRow
  <2>5. Matches(u) => Underway(u, req[r])'
    BY <1>a, <2>1, <2>2, <2>4 DEF Matches, Empty, Underway
  <2>6. QED
    BY <1>1, <2>1, <2>2, <2>3, <2>5 DEF Storers
<1>3. ASSUME NEW u \in User, NEW s \in Sizes, UpdateStorage(r, u, s)
      PROVE  VolumeInv'
  <2>1. /\ row[u] # NoRow /\ row[u].allowed < s /\ row' = row /\ req[r].op = "none" /\ vol' = vol /\ stray' = stray
        /\ req'[r].op = "update" /\ req'[r].user = u /\ req'[r].node = row[u].node
        /\ req'[r].size = s /\ req'[r].pc = "call"
        /\ loose' = loose \cup Contest(u, row[u].node)
    BY <1>3, Updates
  <2>2. row[u].node \in Node
    BY <1>a, <2>1 DEF StorageRow
  <2>3. Matches(u) => Underway(u, req[r])'
    BY <2>1 DEF Matches, Underway
  <2>4. QED
    BY <1>1, <2>1, <2>2, <2>3 DEF Storers
<1>4. ASSUME NEW u \in User, NEW force \in BOOLEAN, DeleteStorage(r, u, force)
      PROVE  VolumeInv'
  <2>1. /\ row[u] # NoRow /\ row' = row /\ req[r].op = "none" /\ vol' = vol /\ stray' = stray
        /\ req'[r].op = "delete" /\ req'[r].user = u /\ req'[r].node = row[u].node /\ req'[r].pc = "call"
        /\ loose' = loose \cup Contest(u, row[u].node)
    BY <1>4, Deletes
  <2>2. row[u].node \in Node
    BY <1>a, <2>1 DEF StorageRow
  <2>3. Matches(u) => Underway(u, req[r])'
    BY <2>1 DEF Matches, Underway
  <2>4. QED
    BY <1>1, <2>1, <2>2, <2>3 DEF Storers
<1>5. QED
  BY <1>2, <1>3, <1>4 DEF Orders

\* A step of the only request for the storage.
LEMMA KeptStep ==
    ASSUME Fits, NEW r \in Request, StorageSteps(r), NEW u \in User, u = req[r].user,
           Kept(u), Tight("volume", u)'
    PROVE  Kept(u)'
<1>a. /\ vol \in Volumes /\ stray \in Volumes /\ row \in [User -> StorageRow \cup {NoRow}] /\ NoRow \notin StorageRow /\ NoNode \notin Node
      /\ \A s \in Request \ {r} : req'[s] = req[s]
      /\ req[r] \in Reqs
  BY OneRequest, ControlPlaneAssumption DEF Fits, TypeOK, ReqsFit, StorageSteps, RequestSteps
<1>b. PICK n \in Node : n = req[r].node /\ req[r].op \in Storers
  BY Starts
<1>c. Storing(u) = {r} /\ Underway(u, req[r]) /\ row[u] # NoRow /\ row[u] \in StorageRow /\ row[u].node = n
  BY <1>a, <1>b DEF Storing, Storers, Kept, Underway
<1>f. row[u].allowed \in Sizes /\ Sizes \subseteq 0 .. MaxSize /\ 0 \notin Sizes
  BY <1>c, ControlPlaneAssumption DEF StorageRow, Sizes
<1>g. Bare(u)'
  <2>a. stray[u][n] = 0 /\ \A m \in Node \ {n} : stray'[u][m] = 0
    BY <1>a, <1>b, OwnVolumes DEF Kept, Bare
  <2>b. req[r].op \in {"create", "update"} => req[r].size \in Sizes
    BY DEF Fits, ReqsFit, ReqFits
  <2>1. CASE MapStorage(r)
    <3>1. MakeVolume(u, n, req[r].size) /\ req[r].size \in Sizes
      BY <1>b, <2>b, <2>1, Starts DEF MapStorage
    <3>2. QED
      BY <1>a, <2>a, <3>1, VolumeSize DEF Bare
  <2>2. CASE GrowVolume(r)
    <3>1. req[r].size \in Sizes /\ (ExtendVolume(u, n, req[r].size) \/ stray' = stray)
      BY <1>b, <2>a, <2>b, <2>2, Starts DEF GrowVolume
    <3>2. QED
      BY <1>a, <2>a, <3>1, VolumeSize DEF Bare
  <2>3. CASE UnmapStorage(r)
    <3>1. stray'[u][n] = 0
      BY <1>b, <2>3 DEF UnmapStorage, Tight, Loosen
    <3>2. QED
      BY <2>a, <3>1 DEF Bare
  <2>4. CASE MapStorageFails(r)
    BY <2>a, <2>4 DEF MapStorageFails, Tight, Loosen, Bare
  <2>5. CASE Record(r) \/ UndoStorage(r) \/ CommitUpdate(r) \/ CommitDelete(r)
    BY <2>a, <2>5 DEF Record, UndoStorage, CommitUpdate, CommitDelete, disk, Bare
  <2>6. CASE UnmapStorageFails(r) \/ CallFails(r)
    BY <2>6 DEF UnmapStorageFails, CallFails, Tight, Loosen
  <2>7. QED
    BY <2>1, <2>2, <2>3, <2>4, <2>5, <2>6 DEF StorageSteps
<1>d. ASSUME req'[r] = NoReq, Matches(u)'
      PROVE  Kept(u)'
  <2>1. Storing(u)' = {}
    BY <1>a, <1>c, <1>d, NoReqFits DEF Storing
  <2>2. QED
    BY <1>g, <1>d, <2>1 DEF Kept
<1>e. ASSUME NEW pc, Continues(r, pc), Underway(u, req[r])'
      PROVE  Kept(u)'
  <2>1. Storing(u)' = {r}
    BY <1>a, <1>b, <1>c, <1>e DEF Storing, Continues, Storers
  <2>2. QED
    BY <1>g, <1>e, <2>1 DEF Kept
<1>1. CASE MapStorage(r)
  <2>1. req[r].op = "create" /\ req[r].pc = "call" /\ row' = row /\ MakeVolume(u, n, req[r].size)
    BY <1>1, <1>b, Starts DEF MapStorage
  <2>2. Empty(u) /\ row[u].allowed = req[r].size
    BY <1>c, <2>1 DEF Underway
  <2>3. vol'[u][n] = req[r].size /\ \A m \in Node \ {n} : vol'[u][m] = 0
    <3>1. req[r].size \in Sizes
      BY <1>c, <1>f, <2>2 DEF StorageRow
    <3>2. vol[u][n] = 0 /\ stray[u][n] = 0
      BY <2>2 DEF Empty, Kept, Bare
    <3>3. vol'[u][n] = req[r].size
      BY <1>a, <2>1, <3>1, <3>2, VolumeSize
    <3>4. \A m \in Node \ {n} : vol'[u][m] = vol[u][m]
      BY <1>a, <1>b, OwnVolumes
    <3>5. QED
      BY <2>2, <3>3, <3>4 DEF Empty
  <2>4. Continues(r, "record")
    BY <1>1, Moves, OwnVolumes
  <2>5. Matches(u)'
    BY <1>c, <2>1, <2>2, <2>3 DEF Matches
  <2>6. Underway(u, req[r])'
    BY <1>b, <1>c, <2>1, <2>2, <2>4, <2>5 DEF Underway, Continues
  <2>7. QED
    BY <1>e, <2>4, <2>6
<1>2. CASE MapStorageFails(r)
  <2>1. req[r].op = "create" /\ req[r].pc = "call" /\ row' = row /\ vol' = vol
    BY <1>2, Starts DEF MapStorageFails, Tight, Loosen
  <2>2. Continues(r, "undo")
    BY <1>2, Moves
  <2>3. Underway(u, req[r])'
    BY <1>b, <1>c, <2>1, <2>2 DEF Underway, Continues, Empty
  <2>4. QED
    BY <1>e, <2>2, <2>3
<1>3. CASE Record(r)
  <2>1. req[r].op \in {"create", "delete"} /\ req[r].pc = "record" /\ row' = row /\ vol' = vol
    BY <1>3, Starts DEF Record, disk
  <2>2. CASE req[r].op = "create"
    <3>1. req'[r] = NoReq /\ Matches(u)'
      BY <1>3, <1>c, <2>1, <2>2, Moves DEF Underway, Matches
    <3>2. QED
      BY <1>d, <3>1
  <2>3. CASE req[r].op = "delete"
    <3>1. Continues(r, "commit")
      BY <1>3, <2>3, Moves
    <3>2. Underway(u, req[r])'
      BY <1>b, <1>c, <2>1, <2>3, <3>1 DEF Underway, Continues, Empty
    <3>3. QED
      BY <1>e, <3>1, <3>2
  <2>4. QED
    BY <2>1, <2>2, <2>3
<1>4. CASE UndoStorage(r)
  <2>1. req[r].op = "create" /\ req[r].pc = "undo" /\ vol' = vol /\ DeleteRow(u, TRUE) /\ req'[r] = NoReq
    BY <1>4, Starts, Moves DEF UndoStorage, disk
  <2>2. ~ Referred(u)
    BY <1>4 DEF UndoStorage, Tight, Loosen
  <2>3. row'[u] = NoRow
    BY <1>a, <1>c, <2>1, <2>2 DEF DeleteRow
  <2>4. Matches(u)'
    BY <1>c, <2>1, <2>3 DEF Underway, Empty, Matches
  <2>5. QED
    BY <1>d, <2>1, <2>4
<1>5. CASE GrowVolume(r)
  <2>1. req[r].op = "update" /\ req[r].pc = "call" /\ row' = row
    BY <1>5, Starts DEF GrowVolume
  <2>2. Matches(u) /\ row[u].allowed < req[r].size
    BY <1>c, <2>1 DEF Underway
  <2>3. vol[u][n] = row[u].allowed /\ \A m \in Node \ {n} : vol[u][m] = 0
    BY <1>c, <2>2 DEF Matches
  <2>4. \/ Done(r) /\ vol' = vol
        \/ Goto(r, "commit") /\ ExtendVolume(u, n, req[r].size)
    <3>1. vol[u][n] # 0 /\ stray[u][n] = 0
      BY <1>f, <2>3 DEF Kept, Bare
    <3>2. QED
      BY <1>5, <1>b, <3>1 DEF GrowVolume, Tight, Loosen
  <2>5. CASE Done(r) /\ vol' = vol
    <3>1. req'[r] = NoReq /\ Matches(u)'
      BY <2>1, <2>2, <2>5 DEF Done, Matches, Fits, ReqsFit
    <3>2. QED
      BY <1>d, <3>1
  <2>6. CASE Goto(r, "commit") /\ ExtendVolume(u, n, req[r].size)
    <3>1. Continues(r, "commit")
      BY <1>5, <2>6, Moves, NoReqFits DEF Goto, Fits, ReqsFit, Reqs
    <3>2. req[r].size \in Sizes
      BY <2>1 DEF Fits, ReqsFit, ReqFits
    <3>3. vol'[u][n] = req[r].size /\ \A m \in Node \ {n} : vol'[u][m] = 0
      <4>1. vol'[u][n] = IF vol[u][n] = 0 \/ vol[u][n] >= req[r].size THEN vol[u][n] ELSE req[r].size
        BY <1>a, <2>6, <3>2, VolumeSize DEF Extended
      <4>2. \A m \in Node \ {n} : vol'[u][m] = vol[u][m]
        BY <1>a, <1>b, OwnVolumes
      <4>3. row[u].allowed # 0 /\ ~ (row[u].allowed >= req[r].size)
        BY <1>f, <2>2, <3>2 DEF Sizes
      <4>4. QED
        BY <2>3, <4>1, <4>2, <4>3
    <3>4. Underway(u, req[r])'
      BY <1>b, <1>c, <2>1, <3>1, <3>3 DEF Underway, Continues, Holds
    <3>5. QED
      BY <1>e, <3>1, <3>4
  <2>7. QED
    BY <2>4, <2>5, <2>6
<1>6. CASE CommitUpdate(r)
  <2>1. /\ req[r].op = "update" /\ req[r].pc = "commit" /\ vol' = vol /\ req'[r] = NoReq
        /\ row' = [row EXCEPT ![u] = [row[u] EXCEPT !.allowed = req[r].size]]
    BY <1>6, <1>a, <1>c, Starts, Moves DEF CommitUpdate, UpdateRow, disk
  <2>2. PICK changed \in StorageRow : changed = [row[u] EXCEPT !.allowed = req[r].size]
                                       /\ changed.node = n /\ changed.allowed = req[r].size
    <3>1. req[r].size \in Sizes
      BY <2>1 DEF Fits, ReqsFit, ReqFits
    <3>2. [row[u] EXCEPT !.allowed = req[r].size] \in StorageRow
      BY <1>c, <3>1 DEF StorageRow
    <3>3. LET changed == [row[u] EXCEPT !.allowed = req[r].size]
          IN  changed.node = row[u].node /\ changed.allowed = req[r].size
      BY <1>c DEF StorageRow
    <3>4. QED
      BY <1>c, <3>2, <3>3
  <2>3. row'[u] = changed
    BY <1>a, <2>1, <2>2
  <2>4. Matches(u)'
    BY <1>a, <1>b, <1>c, <2>1, <2>2, <2>3 DEF Underway, Holds, Matches
  <2>5. QED
    BY <1>d, <2>1, <2>4
<1>7. CASE UnmapStorage(r)
  <2>1. req[r].op = "delete" /\ req[r].pc = "call" /\ row' = row /\ (DropVolume(u, n) \/ LeaveVolume(u, n))
    BY <1>7, <1>b, Starts DEF UnmapStorage
  <2>2. \A m \in Node \ {n} : vol[u][m] = 0
    BY <1>c, <2>1 DEF Underway, Matches
  <2>3. Empty(u)'
    <3>1. vol'[u][n] = 0
      BY <1>a, <1>c, <1>f, <2>1, VolumeSize
    <3>2. \A m \in Node \ {n} : vol'[u][m] = vol[u][m]
      BY <1>a, <1>b, OwnVolumes
    <3>3. QED
      BY <2>2, <3>1, <3>2 DEF Empty
  <2>4. Continues(r, "record")
    BY <1>7, Moves, OwnVolumes
  <2>5. Underway(u, req[r])'
    BY <1>b, <1>c, <2>1, <2>3, <2>4 DEF Underway, Continues
  <2>6. QED
    BY <1>e, <2>4, <2>5
<1>8. CASE CommitDelete(r)
  <2>1. req[r].op = "delete" /\ req[r].pc = "commit" /\ vol' = vol /\ DeleteRow(u, req[r].force) /\ req'[r] = NoReq
    BY <1>8, Starts, Moves DEF CommitDelete, disk
  <2>2. ~ Referred(u) /\ req[r].force
    BY <1>8 DEF CommitDelete, Tight, Loosen
  <2>3. row'[u] = NoRow
    BY <1>a, <1>c, <2>1, <2>2 DEF DeleteRow
  <2>4. Matches(u)'
    BY <1>c, <2>1, <2>3 DEF Underway, Empty, Matches
  <2>5. QED
    BY <1>d, <2>1, <2>4
<1>9. CASE UnmapStorageFails(r) \/ CallFails(r)
  BY <1>9 DEF UnmapStorageFails, CallFails, Tight, Loosen
<1>10. QED
  BY <1>1, <1>2, <1>3, <1>4, <1>5, <1>6, <1>7, <1>8, <1>9 DEF StorageSteps

LEMMA VolumeStep ==
    ASSUME Fits, VolumeInv, NEW r \in Request, StorageSteps(r)
    PROVE  VolumeInv'
<1>a. (\A s \in Request \ {r} : req'[s] = req[s]) /\ loose \subseteq loose'
  BY OneRequest DEF StorageSteps, RequestSteps
<1>b. PICK u \in User : u = req[r].user
  BY Starts
<1>c. req'[r].op \in Storers => req'[r].user = u
  <2>1. req'[r] = NoReq \/ \E pc : Continues(r, pc)
    BY Moves, OwnVolumes DEF StorageSteps
  <2>2. QED
    BY <1>b, <2>1, NoReqFits DEF Continues, Storers
<1>1. ASSUME NEW w \in User, Tight("volume", w)'
      PROVE  Kept(w)'
  <2>1. Kept(w)
    BY <1>a, <1>1 DEF VolumeInv, Tight
  <2>2. CASE w = u
    BY <1>1, <1>b, <2>1, <2>2, KeptStep
  <2>3. CASE w # u
    <3>1. \A s \in Request : s \in Storing(w) \/ s \in Storing(w)' => req'[s] = req[s]
      BY <1>a, <1>b, <1>c, <2>3 DEF Storing, Storers
    <3>2. vol'[w] = vol[w] /\ stray'[w] = stray[w] /\ row'[w] = row[w]
      BY <1>b, <2>3, OwnVolumes
    <3>3. QED
      BY <2>1, <3>1, <3>2, KeptFrame
  <2>4. QED
    BY <2>2, <2>3
<1>2. QED
  BY <1>1 DEF VolumeInv

LEMMA Requested ==
    ASSUME NEW r \in Request, StorageRequests(r)
    PROVE  Orders(r) \/ \E u \in User : ScheduleJobs(r, u)
<1>1. PICK u \in User : \/ \E s \in Sizes : CreateStorage(r, u, s) \/ UpdateStorage(r, u, s)
                        \/ \E force \in BOOLEAN : DeleteStorage(r, u, force)
                        \/ ScheduleJobs(r, u)
  BY DEF StorageRequests
<1>2. CASE ScheduleJobs(r, u)
  BY <1>2
<1>3. ASSUME NEW s \in Sizes, CreateStorage(r, u, s) \/ UpdateStorage(r, u, s)
      PROVE  Orders(r)
  BY <1>3 DEF Orders
<1>4. ASSUME NEW force \in BOOLEAN, DeleteStorage(r, u, force)
      PROVE  Orders(r)
  BY <1>4, Zenon DEF Orders
<1>5. QED
  BY <1>1, <1>2, <1>3, <1>4

\* Every step of the specification is one of a storage or none.
LEMMA Kinds ==
    ASSUME Next
    PROVE  \/ QuietSteps
           \/ \E r \in Request : Orders(r) \/ StorageSteps(r)
BY Requested DEF Next, QuietSteps, RequestSteps, StorageSteps

\* The first states: nothing is under way.
LEMMA Beginning ==
    ASSUME Init
    PROVE  /\ \A u \in User : Storing(u) = {} /\ Matches(u) /\ Bare(u) /\ load[u] = 0 /\ Jobs(u) = {}
           /\ \A u \in User : row[u] # NoRow => row[u].used = 0
           /\ \A n \in Node : node[n].over = Committed(vol, n)
           /\ \A r \in Request : req[r].node = NoNode
<1>a. PICK place \in [User -> Node \cup {NoNode}], s \in OldSizes :
        /\ row = [u \in User |-> IF place[u] = NoNode THEN NoRow
                               ELSE [node |-> place[u], allowed |-> s, used |-> 0, deleted |-> FALSE]]
        /\ vol = [u \in User |-> [n \in Node |-> IF place[u] = n THEN s ELSE 0]]
        /\ node = [n \in Node |-> [deleted |-> FALSE, over |-> Committed(vol, n)]]
  BY DEF Init
<1>c. s \in Sizes
  BY ControlPlaneAssumption
<1>b. stray = [u \in User |-> [n \in Node |-> 0]] /\ load = [u \in User |-> 0] /\ job = [t \in Task |-> NoJob] /\ req = [r \in Request |-> NoReq]
  BY DEF Init
<1>1. ASSUME NEW u \in User
      PROVE  Storing(u) = {} /\ Bare(u) /\ load[u] = 0 /\ Jobs(u) = {}
  BY <1>b, NoReqFits DEF Storing, Bare, Jobs
<1>2. ASSUME NEW u \in User
      PROVE  Matches(u) /\ (row[u] # NoRow => row[u].used = 0)
  <2>1. CASE place[u] = NoNode
    BY <1>a, <2>1, ControlPlaneAssumption DEF Matches
  <2>2. CASE place[u] # NoNode
    <3>1. /\ row[u] = [node |-> place[u], allowed |-> s, used |-> 0, deleted |-> FALSE]
          /\ row[u] \in StorageRow
      BY <1>a, <1>c, <2>2 DEF StorageRow
    <3>2. row[u].node = place[u] /\ row[u].allowed = s /\ row[u].used = 0
      BY <3>1
    <3>3. row[u] # NoRow
      BY <3>1, ControlPlaneAssumption
    <3>4. QED
      BY <1>a, <3>2, <3>3 DEF Matches
  <2>3. QED
    BY <2>1, <2>2
<1>3. QED
  BY <1>a, <1>b, <1>1, <1>2, NoReqFits

LEMMA VolumeNext ==
    ASSUME Fits, VolumeInv, [Next]_vars
    PROVE  VolumeInv'
<1>1. CASE UNCHANGED vars
  BY <1>1 DEF vars, VolumeInv, Kept, Storing, Matches, Underway, Empty, Bare, Holds, Tight
<1>2. QED
  BY <1>1, Kinds, VolumeQuiet, VolumeRequest, VolumeStep

\* create_storage, update_storage and delete_storage keep the row and the volume of
\* a storage the same, for any number of users, nodes and requests at a time.
THEOREM VolumeMatchesRowAlways == Spec => []VolumeMatchesRow
<1>1. Init => VolumeInv
  BY Beginning DEF VolumeInv, Kept
<1>2. Fits /\ VolumeInv => VolumeMatchesRow
  BY DEF Fits, VolumeInv, Kept, Matches, Bare, VolumeMatchesRow, AtRest
<1>3. QED
  BY <1>1, <1>2, VolumeNext, ControlPlaneFits, PTL DEF Spec

-----------------------------------------------------------------------------
(* What is stored.                                                         *)

Settled(u) == \A r \in Storing(u) : req[r].op = "delete" => req[r].pc = "call"
Idle(u) == \A t \in Jobs(u) : job[t].pc \notin {"measure", "record"}

\* UseIsKnown with what makes it inductive: what a thread has measured is still
\* what is stored, and nothing is where there is no volume.
Measured(u) ==
    /\ Empty(u) => load[u] = 0
    /\ \A t \in Jobs(u) : job[t].pc = "record" => job[t].value = load[u]
    /\ row[u] # NoRow /\ Settled(u) /\ Idle(u) => row[u].used = load[u]
UseInv == \A u \in User : Tight("use", u) /\ Tight("volume", u) => Measured(u)

LEMMA MeasuredFrame ==
    ASSUME NEW u \in User, Measured(u), Empty(u)' => Empty(u), load'[u] = load[u],
           row'[u] # NoRow => row[u] # NoRow /\ row'[u].used = row[u].used,
           Settled(u)' => Settled(u), Idle(u)' => Idle(u),
           \A t \in Jobs(u)' : job'[t].pc = "record" =>
              t \in Jobs(u) /\ job[t].pc = "record" /\ job'[t].value = job[t].value
    PROVE  Measured(u)'
BY DEF Measured

\* Requests for storages leave the tasks alone.
LEMMA JobsStay ==
    ASSUME ver' = ver, job' = job, NEW u \in User
    PROVE  /\ Idle(u)' => Idle(u)
           /\ Jobs(u)' = Jobs(u)
           /\ \A t \in Jobs(u)' : job'[t].pc = "record" =>
                 t \in Jobs(u) /\ job[t].pc = "record" /\ job'[t].value = job[t].value
BY DEF Idle, Jobs

LEMMA UseRequest ==
    ASSUME Fits, VolumeInv, UseInv, NEW r \in Request, Orders(r)
    PROVE  UseInv'
<1>a. /\ row \in [User -> StorageRow \cup {NoRow}] /\ NoRow \notin StorageRow
      /\ (\A s \in Request \ {r} : req'[s] = req[s]) /\ loose \subseteq loose'
      /\ ver' = ver /\ job' = job
  BY OneRequest, ControlPlaneAssumption
     DEF Fits, TypeOK, Orders, StorageRequests, CreateStorage, UpdateStorage, DeleteStorage, work
<1>1. ASSUME NEW u \in User, NEW n \in Node, req[r].op = "none", req'[r].user = u, vol' = vol, load' = load,
             loose' = loose \cup Contest(u, n), \A w \in User \ {u} : row'[w] = row[w],
             \/ row'[u] = row[u]
             \/ row[u] = NoRow /\ row'[u].used = 0
      PROVE  UseInv'
  <2>1. ASSUME NEW w \in User, Tight("use", w)', Tight("volume", w)'
        PROVE  Measured(w)'
    <3>1. Measured(w) /\ Kept(w) /\ (w = u => Storing(u) = {})
      BY <1>1, <1>a, <2>1 DEF UseInv, VolumeInv, Tight, Contest
    <3>2. Empty(w)' <=> Empty(w)
      BY <1>1 DEF Empty
    <3>3. CASE w = u /\ row'[u] # row[u]
      <4>1. Empty(u)
        BY <1>1, <3>1, <3>3 DEF Kept, Matches, Empty
      <4>2. load'[u] = 0 /\ row'[u].used = load'[u]
        BY <1>1, <3>1, <3>3, <4>1 DEF Measured
      <4>3. QED
        BY <1>a, <1>1, <3>1, <3>3, <4>2, JobsStay DEF Measured
    <3>4. CASE w # u \/ row'[u] = row[u]
      <4>1. Settled(w)' => Settled(w)
        BY <1>a, <1>1, <3>1 DEF Settled, Storing
      <4>2. QED
        BY <1>a, <1>1, <3>1, <3>2, <3>4, <4>1, JobsStay, MeasuredFrame
    <3>5. QED
      BY <3>3, <3>4
  <2>2. QED
    BY <2>1 DEF UseInv
<1>2. ASSUME NEW u \in User, NEW s \in Sizes, CreateStorage(r, u, s)
      PROVE  UseInv'
  <2>1. PICK n \in Node :
           /\ row' = [row EXCEPT ![u] = [node |-> n, allowed |-> s, used |-> 0, deleted |-> FALSE]]
           /\ req'[r].user = u /\ loose' = loose \cup Contest(u, n)
    BY <1>2, Creates
  <2>2. row[u] = NoRow /\ req[r].op = "none" /\ vol' = vol /\ load' = load
    BY <1>2, Creates
  <2>3. row'[u] = [node |-> n, allowed |-> s, used |-> 0, deleted |-> FALSE] /\ \A w \in User \ {u} : row'[w] = row[w]
    BY <1>a, <2>1
  <2>4. row'[u].used = 0
    BY <2>3
  <2>5. QED
    BY <1>1, <2>1, <2>2, <2>3, <2>4
<1>3. ASSUME NEW u \in User, row[u] # NoRow, row' = row, req[r].op = "none", req'[r].user = u, vol' = vol, load' = load,
             loose' = loose \cup Contest(u, row[u].node)
      PROVE  UseInv'
  <2>1. row[u].node \in Node
    BY <1>a, <1>3 DEF StorageRow
  <2>2. QED
    BY <1>1, <1>3, <2>1
<1>4. QED
  BY <1>2, <1>3, Updates, Deletes DEF Orders

LEMMA MeasuredStep ==
    ASSUME Fits, NEW r \in Request, StorageSteps(r), NEW u \in User, u = req[r].user,
           Kept(u), Measured(u), Tight("use", u)', Tight("volume", u)'
    PROVE  Measured(u)'
<1>a. /\ vol \in Volumes /\ stray \in Volumes /\ row \in [User -> StorageRow \cup {NoRow}] /\ NoRow \notin StorageRow
      /\ load \in [User -> Int] /\ req[r] \in Reqs /\ ReqFits(req[r])
      /\ \A s \in Request \ {r} : req'[s] = req[s]
  BY OneRequest, ControlPlaneAssumption DEF Fits, TypeOK, ReqsFit, StorageSteps, RequestSteps
<1>b. PICK n \in Node : n = req[r].node /\ req[r].op \in Storers
  BY Starts
<1>c. Storing(u) = {r} /\ Underway(u, req[r]) /\ row[u] # NoRow /\ row[u] \in StorageRow /\ row[u].node = n
  BY <1>a, <1>b DEF Storing, Storers, Kept, Underway
<1>d. ver' = ver /\ job' = job
  BY DEF StorageSteps, MapStorage, MapStorageFails, Record, UndoStorage, GrowVolume, CommitUpdate, UnmapStorage,
     UnmapStorageFails, CommitDelete, CallFails, work
<1>e. ASSUME NEW pc, Continues(r, pc)
      PROVE  r \in Storing(u)'
  BY <1>b, <1>e DEF Continues, Storing, Storers
<1>f. req[r].op # "delete" \/ req[r].pc = "call" => Settled(u)
  BY <1>c DEF Settled
<1>1. ASSUME load' = load, Empty(u)' => Empty(u), Settled(u)' => Settled(u),
             row'[u] # NoRow => row'[u].used = row[u].used
      PROVE  Measured(u)'
  BY <1>1, <1>c, <1>d, JobsStay, MeasuredFrame
<1>2. CASE MapStorage(r)
  <2>1. req[r].op = "create" /\ req[r].pc = "call" /\ row' = row /\ load' = load
    BY <1>2, Starts DEF MapStorage
  <2>2. Empty(u)
    BY <1>c, <2>1 DEF Underway
  <2>3. QED
    BY <1>1, <1>f, <2>1, <2>2
<1>3. CASE MapStorageFails(r)
  <2>1. req[r].op = "create" /\ row' = row /\ vol' = vol /\ load' = load
    BY <1>3, Starts DEF MapStorageFails, Tight, Loosen
  <2>2. QED
    BY <1>1, <1>f, <2>1 DEF Empty
<1>4. CASE Record(r)
  <2>1. req[r].op \in {"create", "delete"} /\ req[r].pc = "record" /\ row' = row /\ vol' = vol /\ load' = load
    BY <1>4, Starts DEF Record, disk
  <2>2. CASE req[r].op = "create"
    BY <1>1, <1>f, <2>1, <2>2 DEF Empty
  <2>3. CASE req[r].op = "delete"
    <3>1. Continues(r, "commit")
      BY <1>4, <2>3, Moves
    <3>2. ~ Settled(u)'
      <4>1. r \in Storing(u)' /\ req'[r].op = "delete" /\ req'[r].pc = "commit"
        BY <1>e, <2>3, <3>1 DEF Continues
      <4>2. QED
        BY <4>1 DEF Settled
    <3>3. QED
      BY <1>1, <2>1, <3>2 DEF Empty
  <2>4. QED
    BY <2>1, <2>2, <2>3
<1>5. CASE UndoStorage(r)
  <2>1. req[r].op = "create" /\ vol' = vol /\ load' = load /\ DeleteRow(u, TRUE)
    BY <1>5, Starts DEF UndoStorage, disk
  <2>2. ~ Referred(u)
    BY <1>5 DEF UndoStorage, Tight, Loosen
  <2>3. row'[u] = NoRow
    BY <1>a, <1>c, <2>1, <2>2 DEF DeleteRow
  <2>4. QED
    BY <1>1, <1>f, <2>1, <2>3 DEF Empty
<1>6. CASE GrowVolume(r)
  <2>1. req[r].op = "update" /\ row' = row /\ load' = load
    BY <1>6, Starts DEF GrowVolume
  <2>2. req[r].size \in Sizes /\ 0 \notin Sizes
    BY <1>a, <2>1 DEF ReqFits, Sizes
  <2>3. vol' = vol \/ ExtendVolume(u, n, req[r].size)
    BY <1>6, <1>b DEF GrowVolume, Kept, Bare
  <2>4. Empty(u)' => Empty(u)
    <3>1. CASE vol' = vol
      BY <3>1 DEF Empty
    <3>2. CASE ExtendVolume(u, n, req[r].size)
      <4>1. /\ vol'[u][n] = IF vol[u][n] = 0 \/ vol[u][n] >= req[r].size THEN vol[u][n] ELSE req[r].size
            /\ \A m \in Node \ {n} : vol'[u][m] = vol[u][m]
        BY <1>a, <1>b, <2>2, <3>2, VolumeSize, OwnVolumes DEF Extended
      <4>2. QED
        BY <2>2, <4>1 DEF Empty
    <3>3. QED
      BY <2>3, <3>1, <3>2
  <2>5. QED
    BY <1>1, <1>f, <2>1, <2>4
<1>7. CASE CommitUpdate(r)
  <2>1. /\ req[r].op = "update" /\ vol' = vol /\ load' = load
        /\ row' = [row EXCEPT ![u] = [row[u] EXCEPT !.allowed = req[r].size]]
    BY <1>7, <1>a, <1>c, Starts DEF CommitUpdate, UpdateRow, disk
  <2>2. row'[u] = [row[u] EXCEPT !.allowed = req[r].size]
    BY <1>a, <2>1
  <2>3. row'[u].used = row[u].used
    BY <1>c, <2>2 DEF StorageRow
  <2>4. QED
    BY <1>1, <1>f, <2>1, <2>3 DEF Empty
<1>8. CASE UnmapStorage(r)
  <2>1. req[r].op = "delete" /\ Continues(r, "record") /\ DropFiles(u)
    BY <1>8, Starts, Moves, OwnVolumes DEF UnmapStorage
  <2>2. \A t \in Jobs(u) : job[t].pc # "record"
    BY <1>8 DEF UnmapStorage, Tight, Loosen, Blur
  <2>3. load'[u] = 0
    BY <1>a, <2>1 DEF DropFiles
  <2>4. ~ Settled(u)'
    <3>1. r \in Storing(u)' /\ req'[r].op = "delete" /\ req'[r].pc = "record"
      BY <1>e, <2>1 DEF Continues
    <3>2. QED
      BY <3>1 DEF Settled
  <2>5. QED
    BY <1>d, <2>2, <2>3, <2>4, JobsStay DEF Measured
<1>9. CASE CommitDelete(r)
  <2>1. vol' = vol /\ load' = load /\ DeleteRow(u, req[r].force)
    BY <1>9 DEF CommitDelete, disk
  <2>2. ~ Referred(u) /\ req[r].force
    BY <1>9 DEF CommitDelete, Tight, Loosen
  <2>3. row'[u] = NoRow
    BY <1>a, <1>c, <2>1, <2>2 DEF DeleteRow
  <2>4. QED
    BY <1>d, <2>1, <2>3, JobsStay DEF Measured, Empty
<1>10. CASE UnmapStorageFails(r) \/ CallFails(r)
  BY <1>10 DEF UnmapStorageFails, CallFails, Tight, Loosen
<1>11. QED
  BY <1>2, <1>3, <1>4, <1>5, <1>6, <1>7, <1>8, <1>9, <1>10 DEF StorageSteps

LEMMA UseStep ==
    ASSUME Fits, VolumeInv, UseInv, NEW r \in Request, StorageSteps(r)
    PROVE  UseInv'
<1>a. (\A s \in Request \ {r} : req'[s] = req[s]) /\ loose \subseteq loose'
  BY OneRequest DEF StorageSteps, RequestSteps
<1>b. PICK u \in User : u = req[r].user
  BY Starts
<1>c. ver' = ver /\ job' = job
  BY DEF StorageSteps, MapStorage, MapStorageFails, Record, UndoStorage, GrowVolume, CommitUpdate, UnmapStorage,
     UnmapStorageFails, CommitDelete, CallFails, work
<1>1. ASSUME NEW w \in User, Tight("use", w)', Tight("volume", w)'
      PROVE  Measured(w)'
  <2>1. Kept(w) /\ Measured(w)
    BY <1>a, <1>1 DEF VolumeInv, UseInv, Tight
  <2>2. CASE w = u
    BY <1>1, <1>b, <2>1, <2>2, MeasuredStep
  <2>3. CASE w # u
    <3>1. \A s \in Request : s \in Storing(w) => s \in Storing(w)' /\ req'[s] = req[s]
      BY <1>a, <1>b, <2>3 DEF Storing
    <3>2. vol'[w] = vol[w] /\ row'[w] = row[w] /\ load'[w] = load[w]
      BY <1>b, <2>3, OwnVolumes
    <3>3. (Settled(w)' => Settled(w)) /\ (Empty(w)' => Empty(w))
      BY <3>1, <3>2 DEF Settled, Storing, Empty
    <3>4. QED
      BY <1>c, <2>1, <3>2, <3>3, JobsStay, MeasuredFrame
  <2>4. QED
    BY <2>2, <2>3
<1>2. QED
  BY <1>1 DEF UseInv

\* Who a version belongs to does not change from its commit on.
LEMMA SameUser ==
    ASSUME Fits, NEW t \in Task, TaskSteps(t)
    PROVE  \A v \in Version : ver'[v].user = ver[v].user
<1>1. ver \in [Version -> VerRow] /\ t[1] \in Version
  BY DEF Fits, TasksFit, Task
<1>2. ASSUME NEW status \in {"valid", "invalid", "removed"}, ver' = [ver EXCEPT ![t[1]].status = status]
      PROVE  \A v \in Version : ver'[v].user = ver[v].user
  <2>1. ver'[t[1]] = [ver[t[1]] EXCEPT !.status = status] /\ \A v \in Version \ {t[1]} : ver'[v] = ver[v]
    BY <1>1, <1>2
  <2>2. ver'[t[1]].user = ver[t[1]].user
    BY <1>1, <2>1 DEF VerRow
  <2>3. QED
    BY <2>1, <2>2
<1>3. QED
  BY <1>2, Tasks

\* A step of a task, for the user of the task: what a thread measures is what is
\* stored, and what is recorded was measured.
LEMMA MeasuredTask ==
    ASSUME Fits, NEW t \in Task, TaskSteps(t), NEW u \in User, u = ver[t[1]].user,
           Kept(u), Measured(u), Tight("use", u)'
    PROVE  Measured(u)'
<1>a. /\ load \in [User -> Int] /\ load[u] \in 0 .. MaxSize /\ row \in [User -> StorageRow \cup {NoRow}]
      /\ \A s \in Task \ {t} : job'[s] = job[s]
      /\ vol' = vol /\ req' = req /\ job \in [Task -> JobRow]
      /\ t[1] \in Version /\ \A s \in Task : job[s].pc # "none" => job[s] # NoJob
  <2>1. vol' = vol /\ req' = req /\ \A s \in Task \ {t} : job'[s] = job[s]
    BY Tasks, NoRequest
  <2>2. QED
    BY <2>1 DEF Fits, TypeOK, TasksFit, Task, NoJob
<1>b. \A v \in Version : ver'[v].user = ver[v].user
  BY SameUser
<1>c. /\ \A s \in Task : s # t => (s \in Jobs(u)' <=> s \in Jobs(u)) /\ job'[s] = job[s]
      /\ t \in Jobs(u)' <=> job'[t] # NoJob
      /\ t \in Jobs(u) <=> job[t] # NoJob
  BY <1>a, <1>b DEF Jobs, Task
<1>d. (Empty(u)' <=> Empty(u)) /\ (Settled(u)' <=> Settled(u))
  BY <1>a DEF Empty, Settled, Storing
<1>1. ASSUME load' = load, row' = row, job[t].pc \notin {"measure", "record"},
             job'[t] = NoJob \/ job'[t].pc # "record"
      PROVE  Measured(u)'
  <2>1. \A s \in Jobs(u)' : job'[s].pc = "record" => s \in Jobs(u) /\ job'[s] = job[s]
    BY <1>1, <1>c DEF Jobs, NoJob
  <2>2. Idle(u)' => Idle(u)
    BY <1>1, <1>c DEF Idle, Jobs
  <2>3. QED
    BY <1>1, <1>d, <2>1, <2>2, MeasuredFrame
<1>2. ASSUME job'[t].pc = "measure", load'[u] = load[u] \/ \A s \in Jobs(u) : job[s].pc # "record",
             Empty(u) => load'[u] = 0
      PROVE  Measured(u)'
  <2>1. t \in Jobs(u)' /\ ~ Idle(u)'
    <3>1. job'[t] # NoJob
      BY <1>2 DEF NoJob
    <3>2. QED
      BY <1>c, <1>2, <3>1 DEF Idle
  <2>2. \A s \in Jobs(u)' : job'[s].pc = "record" => job'[s].value = load'[u]
    BY <1>c, <1>2 DEF Measured, Jobs
  <2>3. QED
    BY <1>d, <1>2, <2>1, <2>2 DEF Measured
<1>3. CASE Take(t)
  <2>1. load' = load /\ row' = row /\ t[2] \in {"backup", "remove"}
    BY <1>3 DEF Take, disk, Task
  <2>2. CASE job[t] = NoJob /\ Step(t, t[2])
    BY <1>1, <2>1, <2>2, JobMoves DEF NoJob
  <2>3. CASE job' = job
    <3>1. Jobs(u)' = Jobs(u) /\ (Idle(u)' <=> Idle(u))
      BY <1>c, <2>3 DEF Jobs, Idle
    <3>2. QED
      BY <1>d, <2>1, <2>3, <3>1 DEF Measured
  <2>4. QED
    BY <1>3, <2>2, <2>3 DEF Take
<1>4. CASE Backup(t)
  <2>1. job[t].pc = "backup" /\ row' = row
    BY <1>4 DEF Backup
  <2>2. CASE Finish(t) /\ load' = load
    BY <1>1, <2>1, <2>2, JobMoves
  <2>3. CASE /\ ver[t[1]].status = "incomplete" /\ Step(t, "measure") /\ Loosen(Blur(u))
             /\ \E w \in Writes(u, NodeOf(t)) : load' = [load EXCEPT ![u] = @ + w]
    <3>1. NodeOf(t) \in Node
      BY <1>a, <2>3, HasNode DEF NodeOf
    <3>2. PICK w \in Writes(u, NodeOf(t)) : load' = [load EXCEPT ![u] = @ + w]
      BY <2>3
    <3>3. w \in Nat /\ (vol[u][NodeOf(t)] = 0 => w = 0)
      BY <3>1, WritesFit
    <3>4. Empty(u) => load'[u] = 0
      BY <1>a, <3>1, <3>2, <3>3 DEF Empty, Measured
    <3>5. \A s \in Jobs(u) : job[s].pc # "record"
      BY <2>3 DEF Loosen, Blur, Tight
    <3>6. job'[t].pc = "measure"
      BY <2>3, JobMoves
    <3>7. QED
      BY <1>2, <3>4, <3>5, <3>6
  <2>4. QED
    BY <1>4, <2>2, <2>3 DEF Backup
<1>5. CASE Remove(t)
  <2>1. job[t].pc = "remove" /\ row' = row /\ load' = load
    BY <1>5 DEF Remove, disk
  <2>2. CASE Finish(t) \/ Step(t, "clean")
    BY <1>1, <2>1, <2>2, JobMoves
  <2>3. QED
    BY <1>5, <2>2 DEF Remove
<1>9. CASE Clean(t)
  <2>1. job[t].pc = "clean" /\ row' = row
    BY <1>9 DEF Clean
  <2>2. PICK freed \in 0 .. load[u] :
           /\ load' = [load EXCEPT ![u] = @ - freed]
           /\ \/ Step(t, "measure") /\ Loosen(Blur(u))
              \/ Finish(t) /\ Loosen(IF freed = 0 THEN {} ELSE {<<"use", u>>})
    <3>1. 0 \in 0 .. load[u]
      BY <1>a, ControlPlaneAssumption
    <3>2. QED
      BY <1>9, <3>1 DEF Clean
  <2>3. CASE Finish(t) /\ Loosen(IF freed = 0 THEN {} ELSE {<<"use", u>>})
    <3>1. freed = 0
      BY <2>3 DEF Loosen, Tight
    <3>2. load' = load
      BY <1>a, <2>2, <3>1
    <3>3. QED
      BY <1>1, <2>1, <2>3, <3>2, JobMoves
  <2>4. CASE Step(t, "measure") /\ Loosen(Blur(u))
    <3>1. Empty(u) => load'[u] = 0
      <4>1. load[u] = 0 => freed = 0
        OBVIOUS
      <4>2. QED
        BY <1>a, <2>2, <4>1 DEF Measured
    <3>2. \A s \in Jobs(u) : job[s].pc # "record"
      BY <2>4 DEF Loosen, Blur, Tight
    <3>3. job'[t].pc = "measure"
      BY <2>4, JobMoves
    <3>4. QED
      BY <1>2, <3>1, <3>2, <3>3
  <2>5. QED
    BY <2>2, <2>3, <2>4
<1>6. CASE Restore(t)
  <2>1. load' = load /\ row' = row /\ job' = job
    BY <1>6 DEF Restore, disk
  <2>2. Jobs(u)' = Jobs(u) /\ (Idle(u)' <=> Idle(u))
    BY <1>c, <2>1 DEF Jobs, Idle
  <2>3. QED
    BY <1>d, <2>1, <2>2 DEF Measured
<1>7. CASE Measure(t)
  <2>1. load' = load /\ row' = row
    BY <1>7 DEF Measure, disk
  <2>2. /\ row[u] # NoRow /\ Storing(u) = {}
        /\ job' = [job EXCEPT ![t] = [pc |-> "record", value |-> row[u].allowed - Available(u, NodeOf(t))]]
    BY <1>7 DEF Measure, Loosen, Tight
  <2>3. row[u] \in StorageRow /\ row[u].allowed \in Int /\ NodeOf(t) = row[u].node /\ row[u].node \in Node
    BY <1>a, <2>2 DEF StorageRow, Sizes, NodeOf
  <2>4. vol[u][NodeOf(t)] = row[u].allowed
    BY <2>2, <2>3 DEF Kept, Matches
  <2>5. row[u].allowed - Available(u, NodeOf(t)) = load[u]
    BY <1>a, <2>3, <2>4 DEF Available
  <2>6. job'[t] = [pc |-> "record", value |-> load[u]]
    BY <1>a, <2>2, <2>5
  <2>7. job'[t].pc = "record" /\ job'[t].value = load[u] /\ job'[t] # NoJob
    BY <2>6 DEF NoJob
  <2>8. ~ Idle(u)'
    BY <1>c, <2>7 DEF Idle
  <2>9. \A s \in Jobs(u)' : job'[s].pc = "record" => job'[s].value = load'[u]
    BY <1>c, <2>1, <2>7 DEF Measured, Jobs
  <2>10. QED
    BY <1>d, <2>1, <2>8, <2>9 DEF Measured
<1>8. CASE RecordUse(t)
  <2>1. load' = load /\ job'[t] = NoJob /\ job[t].pc = "record"
    BY <1>8, JobMoves DEF RecordUse, disk
  <2>2. job[t].value = load[u]
    BY <1>a, <1>c, <2>1 DEF Measured
  <2>3. row'[u] # NoRow => row'[u].used = load'[u]
    BY <1>8, <2>1, <2>2, UseOnly
  <2>4. \A s \in Jobs(u)' : job'[s].pc = "record" => job'[s].value = load'[u]
    BY <1>c, <2>1 DEF Measured, Jobs
  <2>5. QED
    BY <1>d, <2>1, <2>3, <2>4 DEF Measured
<1>10. QED
  BY <1>3, <1>4, <1>5, <1>6, <1>7, <1>8, <1>9 DEF TaskSteps

LEMMA UseQuiet ==
    ASSUME Fits, VolumeInv, UseInv, QuietSteps
    PROVE  UseInv'
<1>a. vol' = vol /\ loose \subseteq loose' /\ \A r \in Request : req[r].op \in Storers \/ req'[r].op \in Storers => req'[r] = req[r]
  BY Quiet
<1>b. \A u \in User : (Settled(u)' <=> Settled(u)) /\ (Empty(u)' <=> Empty(u))
  BY <1>a DEF Settled, Storing, Storers, Empty
<1>1. ASSUME NEW u \in User, Measured(u), load'[u] = load[u], row'[u] = row[u], Jobs(u)' = Jobs(u),
             \A t \in Jobs(u) : job'[t] = job[t]
      PROVE  Measured(u)'
  <2>1. Idle(u)' => Idle(u)
    BY <1>1 DEF Idle
  <2>2. QED
    BY <1>b, <1>1, <2>1, MeasuredFrame
<1>2. ASSUME NEW u \in User, Tight("use", u)', Tight("volume", u)'
      PROVE  Measured(u)'
  <2>1. Kept(u) /\ Measured(u)
    BY <1>a, <1>2 DEF VolumeInv, UseInv, Tight
  <2>2. ASSUME NEW t \in Task, TaskSteps(t)
        PROVE  Measured(u)'
    <3>1. CASE u = ver[t[1]].user
      BY <1>2, <2>1, <2>2, <3>1, MeasuredTask
    <3>2. CASE u # ver[t[1]].user
      <4>1. load'[u] = load[u] /\ row'[u] = row[u] /\ \A s \in Task \ {t} : job'[s] = job[s]
        BY <2>2, <3>2, Tasks, UseOnly
      <4>2. \A s \in Task : ver'[s[1]].user = ver[s[1]].user
        BY <2>2, SameUser DEF Task
      <4>3. Jobs(u)' = Jobs(u) /\ \A s \in Jobs(u) : job'[s] = job[s]
        BY <3>2, <4>1, <4>2 DEF Jobs
      <4>4. QED
        BY <1>1, <2>1, <4>1, <4>3
    <3>3. QED
      BY <3>1, <3>2
  <2>3. ASSUME NEW n \in Node, NodeDown(n)
        PROVE  Measured(u)'
    <3>1. load' = load /\ row' = row /\ ver' = ver
      BY <2>3 DEF NodeDown, disk
    <3>2. PICK dead \in SUBSET Task :
             /\ \A t \in dead : job[t] # NoJob
             /\ job' = [t \in Task |-> IF t \in dead THEN NoJob ELSE job[t]]
             /\ loose' = loose \cup {<<"use", ver[t[1]].user>> : t \in dead}
      <4>1. {t \in Task : job[t] # NoJob /\ row[ver[t[1]].user] # NoRow /\ NodeOf(t) = n} \in SUBSET Task
        OBVIOUS
      <4>2. QED
        BY <2>3, <4>1 DEF NodeDown, Loosen
    <3>3. \A t \in dead : ver[t[1]].user # u
      BY <1>2, <3>2 DEF Tight
    <3>4. Jobs(u)' = Jobs(u) /\ \A t \in Jobs(u) : job'[t] = job[t]
      BY <3>1, <3>2, <3>3 DEF Jobs
    <3>5. QED
      BY <1>1, <2>1, <3>1, <3>4
  <2>4. ASSUME load' = load, row' = row, ver' = ver, job' = job
        PROVE  Measured(u)'
    BY <1>1, <2>1, <2>4 DEF Jobs
  <2>5. ASSUME NEW r \in Request, CommitVersion(r)
        PROVE  Measured(u)'
    <3>1. load' = load /\ row' = row /\ job' = job
      BY <2>5 DEF CommitVersion, disk
    <3>2. CASE ver' = ver
      BY <2>4, <3>1, <3>2
    <3>3. CASE ver' # ver
      <4>1. PICK v \in Unused : ver' = [ver EXCEPT ![v] = [status |-> "incomplete", user |-> req[r].user]]
        BY <2>5, <3>3, Commits
      <4>2. v \in Version /\ ver[v].status = "none"
        BY <4>1 DEF Unused, NoVer
      <4>3. \A w \in Version \ {v} : ver'[w] = ver[w]
        BY <4>1 DEF Fits, TasksFit
      <4>4. \A t \in Task : t[1] \in Version /\ (t[1] = v => job[t] = NoJob)
        BY <4>2 DEF Fits, TasksFit, Task
      <4>5. Jobs(u)' = Jobs(u)
        BY <3>1, <4>3, <4>4 DEF Jobs
      <4>6. QED
        BY <1>1, <2>1, <3>1, <4>5
    <3>4. QED
      BY <3>2, <3>3
  <2>6. ASSUME NEW r \in Request, VersionRequests(r) \/ NodeRequests(r) \/ SendVersion(r)
        PROVE  Measured(u)'
    BY <2>4, <2>6 DEF VersionRequests, CreateVersion, CreateBackups, Admit, RestoreVersion, DeleteVersion,
       NodeRequests, CreateNode, DeleteNode, SendVersion, disk, work
  <2>7. ASSUME NEW n \in Node, NodeUp(n) \/ Ping(n)
        PROVE  Measured(u)'
    BY <2>4, <2>7 DEF NodeUp, Ping, disk, work
  <2>8. ASSUME NEW r \in Request, NEW w \in User, ScheduleJobs(r, w)
        PROVE  Measured(u)'
    BY <2>4, <2>8 DEF ScheduleJobs, disk, work
  <2>9. QED
    BY <2>2, <2>3, <2>5, <2>6, <2>7, <2>8 DEF QuietSteps
<1>3. QED
  BY <1>2 DEF UseInv

LEMMA UseNext ==
    ASSUME Fits, VolumeInv, UseInv, [Next]_vars
    PROVE  UseInv'
<1>1. CASE UNCHANGED vars
  BY <1>1 DEF vars, UseInv, Measured, Empty, Settled, Idle, Storing, Jobs, Tight
<1>2. QED
  BY <1>1, Kinds, UseQuiet, UseRequest, UseStep

\* The invariant of the two theorems that follow.
LEMMA UseAlways == Spec => [](Fits /\ VolumeInv /\ UseInv)
<1>1. Init => VolumeInv /\ UseInv
  BY Beginning DEF VolumeInv, Kept, UseInv, Measured, Idle
<1>2. QED
  BY <1>1, VolumeNext, UseNext, ControlPlaneFits, PTL DEF Spec

\* update_statistic: the used space of a storage is what it holds once its threads
\* are done, for any number of users, versions and requests.
THEOREM UseIsKnownAlways == Spec => []UseIsKnown
<1>1. Fits /\ VolumeInv /\ UseInv => UseIsKnown
  BY DEF UseInv, Measured, Settled, Idle, UseIsKnown, AtRest
<1>2. QED
  BY <1>1, UseAlways, PTL

\* The quota of create_version and create_backups refuses a full storage.
THEOREM QuotaIsKeptAlways == Spec => QuotaIsKept
<1>1. ASSUME Fits, VolumeInv, UseInv, [Next]_vars, NEW r \in Request,
             req[r].op = "none", req'[r].op = "backup", AtRest(req'[r].user), Jobs(req'[r].user) = {},
             Tight("use", req'[r].user), Tight("volume", req'[r].user)
      PROVE  load[req'[r].user] < vol[req'[r].user][row[req'[r].user].node]
  <2>1. PICK u \in User, volumes \in Int : Admit(r, u, volumes)
    <3>1. req'[r] # req[r]
      BY <1>1
    <3>2. Next
      BY <1>1, <3>1 DEF vars
    <3>3. ~ (\E t \in Task : TaskSteps(t)) /\ ~ \E n \in Node : NodeDown(n) \/ NodeUp(n) \/ Ping(n)
      BY <3>1, NoRequest
    <3>4. PICK s \in Request : StorageRequests(s) \/ VersionRequests(s) \/ NodeRequests(s) \/ RequestSteps(s)
      BY <3>2, <3>3 DEF Next
    <3>5. s = r
      BY <1>1, <3>1, <3>4, OneRequest
    <3>6. ~ StorageRequests(r)
      <4>1. ~ Orders(r)
        BY <1>1, Creates, Updates, Deletes DEF Orders
      <4>2. ~ \E u \in User : ScheduleJobs(r, u)
        BY <3>1 DEF ScheduleJobs
      <4>3. QED
        BY <4>1, <4>2, Requested
    <3>7. ~ RequestSteps(r)
      <4>1. ~ StorageSteps(r)
        BY <1>1, Starts DEF Storers
      <4>2. ~ CommitVersion(r) /\ ~ SendVersion(r)
        BY <1>1, Commits, Sends
      <4>3. QED
        BY <4>1, <4>2 DEF RequestSteps, StorageSteps
    <3>8. ~ NodeRequests(r)
      BY <3>1 DEF NodeRequests, CreateNode, DeleteNode
    <3>9. VersionRequests(r)
      BY <3>4, <3>5, <3>6, <3>7, <3>8
    <3>10. \E u \in User : CreateVersion(r, u) \/ CreateBackups(r, u)
      BY <3>1, <3>9 DEF VersionRequests, RestoreVersion, DeleteVersion
    <3>11. QED
      BY <3>10 DEF CreateVersion, CreateBackups
  <2>2. row[u] # NoRow /\ row[u].used < row[u].allowed /\ req'[r].user = u
    BY <1>1, <2>1, Admits
  <2>3. Matches(u) /\ row[u].used = load[u]
    BY <1>1, <2>2 DEF UseInv, VolumeInv, Kept, Measured, Settled, Idle, AtRest
  <2>4. row[u] \in StorageRow
    BY <1>1, <2>2 DEF Fits, TypeOK
  <2>5. row[u].node \in Node
    BY <2>4 DEF StorageRow
  <2>6. vol[u][row[u].node] = row[u].allowed
    BY <2>2, <2>3, <2>5 DEF Matches
  <2>7. QED
    BY <2>2, <2>3, <2>6
<1>2. Fits /\ VolumeInv /\ UseInv /\ [Next]_vars =>
        [\A r \in Request :
           LET u == req'[r].user
           IN  req[r].op = "none" /\ req'[r].op = "backup" /\ AtRest(u) /\ Jobs(u) = {}
                  /\ Tight("use", u) /\ Tight("volume", u) => load[u] < vol[u][row[u].node]]_vars
  BY <1>1
<1>3. QED
  BY <1>2, UseAlways, PTL DEF Spec, QuotaIsKept

-----------------------------------------------------------------------------
(* The sums of the nodes.                                                  *)

Querying(n) == {r \in Request : req[r].node = n /\ req[r].pc = "record"}
\* The requests of a node are the only ones for their storages, and the row by
\* which delete_storage finds the node is there.
Sole(n) ==
    \A r \in Request : req[r].node = n =>
       /\ \A s \in Storing(req[r].user) : s = r
       /\ req[r].op = "delete" /\ req[r].pc # "commit" => row[req[r].user] # NoRow
\* OvercommitIsKnown with what makes it inductive: a sum that was queried and is
\* not recorded yet is still the sum.
Summed(n) ==
    /\ \A r \in Querying(n) : req[r].value = Committed(vol, n)
    /\ Querying(n) = {} /\ node[n] # NoRow => node[n].over = Committed(vol, n)
    /\ Sole(n)
OverInv == \A n \in Node : Tight("over", n) => Summed(n)

\* A request with a node is one for a storage.
LEMMA OnNode ==
    ASSUME Fits, NEW r \in Request, req[r].node \in Node
    PROVE  req[r].op \in Storers /\ req[r].user \in User /\ r \in Storing(req[r].user)
<1>1. req[r].op \in Storers
  BY ControlPlaneAssumption DEF Fits, ReqsFit, ReqFits
<1>2. QED
  BY <1>1 DEF Fits, ReqsFit, ReqFits, Storing, Storers

LEMMA OverRequest ==
    ASSUME Fits, OverInv, NEW r \in Request, Orders(r)
    PROVE  OverInv'
<1>a. /\ row \in [User -> StorageRow \cup {NoRow}] /\ NoNode \notin Node
      /\ (\A s \in Request \ {r} : req'[s] = req[s]) /\ loose \subseteq loose'
      /\ node' = node
  BY OneRequest, ControlPlaneAssumption
     DEF Fits, TypeOK, Orders, StorageRequests, CreateStorage, UpdateStorage, DeleteStorage
<1>1. ASSUME NEW u \in User, NEW m \in Node, req[r].op = "none", vol' = vol,
             req'[r].op \in Storers, req'[r].user = u, req'[r].node = m, req'[r].pc = "call",
             loose' = loose \cup Contest(u, m), \A w \in User \ {u} : row'[w] = row[w],
             req'[r].op = "delete" => row'[u] # NoRow
      PROVE  OverInv'
  <2>1. ASSUME NEW n \in Node, Tight("over", n)'
        PROVE  Summed(n)'
    <3>1. Summed(n) /\ req[r].node # n
      <4>1. req[r].node # n
        BY <1>1, OnNode DEF Storers
      <4>2. QED
        BY <1>a, <2>1, <4>1 DEF OverInv, Tight
    <3>2. Querying(n)' = Querying(n) /\ \A q \in Querying(n) : req'[q] = req[q]
      BY <1>a, <1>1, <3>1 DEF Querying
    <3>3. ASSUME NEW q \in Request, q # r, req'[q].node = n
          PROVE  \E x \in User :
                    /\ x = req'[q].user /\ \A s \in Storing(x)' : s = q
                    /\ req'[q].op = "delete" /\ req'[q].pc # "commit" => row'[x] # NoRow
      <4>1. PICK x \in User : x = req[q].user /\ q \in Storing(x) /\ req'[q] = req[q]
        BY <1>a, <3>3, OnNode
      <4>2. x # u
        BY <1>1, <2>1, <3>3, <4>1 DEF Contest, Tight
      <4>3. Storing(x)' = Storing(x) /\ row'[x] = row[x]
        BY <1>a, <1>1, <4>2 DEF Storing
      <4>4. QED
        BY <3>1, <3>3, <4>1, <4>3 DEF Summed, Sole
    <3>4. ASSUME req'[r].node = n
          PROVE  \E x \in User :
                    /\ x = req'[r].user /\ \A s \in Storing(x)' : s = r
                    /\ req'[r].op = "delete" /\ req'[r].pc # "commit" => row'[x] # NoRow
      <4>1. Storing(u) = {}
        BY <1>1, <2>1, <3>4 DEF Contest, Tight
      <4>2. \A s \in Storing(u)' : s = r
        BY <1>a, <4>1 DEF Storing
      <4>3. QED
        BY <1>1, <4>2
    <3>5. Sole(n)'
      BY <3>3, <3>4 DEF Sole, Storing
    <3>6. QED
      BY <1>a, <1>1, <3>1, <3>2, <3>5 DEF Summed
  <2>2. QED
    BY <2>1 DEF OverInv
<1>2. ASSUME NEW u \in User, NEW s \in Sizes, CreateStorage(r, u, s)
      PROVE  OverInv'
  <2>1. PICK n \in Node :
           /\ row' = [row EXCEPT ![u] = [node |-> n, allowed |-> s, used |-> 0, deleted |-> FALSE]]
           /\ req'[r].op = "create" /\ req'[r].user = u /\ req'[r].node = n /\ req'[r].pc = "call"
           /\ loose' = loose \cup Contest(u, n)
    BY <1>2, Creates
  <2>2. req[r].op = "none" /\ vol' = vol /\ \A w \in User \ {u} : row'[w] = row[w]
    BY <1>2, <1>a, <2>1, Creates
  <2>3. QED
    BY <1>1, <2>1, <2>2 DEF Storers
<1>3. ASSUME NEW u \in User, row[u] # NoRow, row' = row, req[r].op = "none", vol' = vol,
             req'[r].op \in {"update", "delete"}, req'[r].user = u, req'[r].node = row[u].node, req'[r].pc = "call",
             loose' = loose \cup Contest(u, row[u].node)
      PROVE  OverInv'
  <2>1. row[u].node \in Node
    BY <1>a, <1>3 DEF StorageRow
  <2>2. QED
    BY <1>1, <1>3, <2>1 DEF Storers
<1>4. QED
  BY <1>2, <1>3, Updates, Deletes DEF Orders

\* The step of a storage's request leaves the others alone.
LEMMA SoleStep ==
    ASSUME Fits, NEW r \in Request, StorageSteps(r), NEW n \in Node, Sole(n)
    PROVE  Sole(n)'
<1>a. \A s \in Request \ {r} : req'[s] = req[s]
  BY OneRequest DEF StorageSteps, RequestSteps
<1>b. PICK u \in User : u = req[r].user /\ r \in Storing(u) /\ req[r].node \in Node
  BY Starts DEF Storing, Storers
<1>c. req'[r] = NoReq \/ \E pc : Continues(r, pc)
  BY Moves, OwnVolumes DEF StorageSteps
<1>d. NoReq.node = NoNode /\ NoReq.op = "none" /\ NoNode \notin Node
  BY NoReqFits, ControlPlaneAssumption
<1>e. \A x \in User : Storing(x)' \subseteq Storing(x)
  BY <1>a, <1>b, <1>c, <1>d DEF Storing, Continues
<1>1. ASSUME NEW q \in Request, q # r, req'[q].node = n
      PROVE  \E x \in User :
                /\ x = req'[q].user /\ \A s \in Storing(x)' : s = q
                /\ req'[q].op = "delete" /\ req'[q].pc # "commit" => row'[x] # NoRow
  <2>1. PICK x \in User : x = req[q].user /\ q \in Storing(x) /\ req'[q] = req[q]
    BY <1>a, <1>1, OnNode
  <2>2. \A s \in Storing(x) : s = q
    BY <1>1, <2>1 DEF Sole
  <2>3. row'[x] = row[x]
    BY <1>1, <1>b, <2>2, OwnVolumes
  <2>4. QED
    BY <1>1, <1>e, <2>1, <2>2, <2>3 DEF Sole
<1>2. ASSUME req'[r].node = n
      PROVE  \E x \in User :
                /\ x = req'[r].user /\ \A s \in Storing(x)' : s = r
                /\ req'[r].op = "delete" /\ req'[r].pc # "commit" => row'[x] # NoRow
  <2>1. PICK pc : Continues(r, pc)
    BY <1>2, <1>c, <1>d
  <2>2. req'[r].user = u /\ req'[r].op = req[r].op /\ req[r].node = n
    BY <1>2, <1>b, <2>1 DEF Continues
  <2>3. \A s \in Storing(u)' : s = r
    BY <1>b, <1>e, <2>2 DEF Sole
  <2>4. ASSUME req'[r].op = "delete", req'[r].pc # "commit"
        PROVE  row'[u] # NoRow
    <3>1. UnmapStorage(r)
      <4>1. req[r].op = "delete" /\ req'[r] # NoReq
        BY <2>2, <2>4, <1>d
      <4>2. ~ Record(r)
        BY <2>4, <4>1, Moves DEF Continues
      <4>3. QED
        BY <4>1, <4>2, Starts, Moves DEF StorageSteps
    <3>2. row' = row /\ req[r].op = "delete" /\ req[r].pc = "call"
      BY <3>1, Starts DEF UnmapStorage
    <3>3. QED
      BY <1>b, <2>2, <3>2 DEF Sole
  <2>5. QED
    BY <2>2, <2>3, <2>4
<1>3. QED
  BY <1>1, <1>2 DEF Sole, Storing

LEMMA SummedStep ==
    ASSUME Fits, NEW r \in Request, StorageSteps(r), NEW n \in Node, n = req[r].node, Summed(n), Tight("over", n)'
    PROVE  Summed(n)'
<1>a. \A s \in Request \ {r} : req'[s] = req[s]
  BY OneRequest DEF StorageSteps, RequestSteps
<1>b. Sole(n)' /\ NoReq.pc = "none"
  BY SoleStep, NoReqFits DEF Summed
<1>1. ASSUME vol' = vol, node' = node, req[r].pc # "record", req'[r].pc # "record"
      PROVE  Summed(n)'
  <2>1. Querying(n)' = Querying(n) /\ \A q \in Querying(n) : req'[q] = req[q]
    BY <1>1, <1>a DEF Querying
  <2>2. QED
    BY <1>b, <1>1, <2>1 DEF Summed
<1>2. CASE MapStorage(r) \/ UnmapStorage(r)
  <2>1. Continues(r, "record") /\ req'[r].value = Committed(vol', n)
    BY <1>2, Moves, OwnVolumes
  <2>2. Querying(n) = {}
    BY <1>2 DEF MapStorage, UnmapStorage, Overtake, Loosen, Tight, Querying
  <2>3. Querying(n)' = {r}
    BY <1>a, <2>1, <2>2 DEF Querying, Continues
  <2>4. \A q \in Querying(n)' : req'[q].value = Committed(vol', n)
    BY <2>1, <2>3
  <2>5. Querying(n)' # {}
    BY <2>3
  <2>6. QED
    BY <1>b, <2>4, <2>5 DEF Summed
<1>3. CASE MapStorageFails(r)
  <2>1. vol' = vol /\ node' = node /\ req[r].pc = "call" /\ req'[r].pc = "undo"
    BY <1>3, Starts, Moves DEF MapStorageFails, Loosen, Tight, Continues
  <2>2. QED
    BY <1>1, <2>1
<1>4. CASE GrowVolume(r)
  <2>1. node' = node /\ req[r].pc = "call" /\ req'[r].pc \in {"none", "commit"}
    BY <1>4, <1>b, Starts, Moves DEF GrowVolume, Continues
  <2>2. PICK u \in User : u = req[r].user
    BY <1>4, Starts DEF StorageSteps
  <2>3. vol' = vol \/ (ExtendVolume(u, n, req[r].size) /\ vol[u][n] = 0)
    BY <1>4, <2>2 DEF GrowVolume, Loosen, Tight
  <2>4. ASSUME ExtendVolume(u, n, req[r].size), vol[u][n] = 0
        PROVE  vol' = vol
    <3>1. vol' = [vol EXCEPT ![u][n] = 0]
      BY <2>4 DEF ExtendVolume, Extended
    <3>2. vol \in [User -> [Node -> 0 .. MaxSize]] /\ n \in Node
      BY <1>4, Starts DEF StorageSteps, Fits, TypeOK, Volumes
    <3>3. vol[u] = [vol[u] EXCEPT ![n] = 0]
      BY <2>4, <3>2
    <3>4. QED
      BY <3>1, <3>2, <3>3
  <2>5. QED
    BY <1>1, <2>1, <2>3, <2>4
<1>5. CASE UndoStorage(r) \/ CommitUpdate(r) \/ CommitDelete(r)
  <2>1. vol' = vol /\ node' = node
    BY <1>5 DEF UndoStorage, CommitUpdate, CommitDelete, disk
  <2>2. req[r].pc \in {"undo", "commit"} /\ req'[r].pc = "none"
    BY <1>5, <1>b, Starts, Moves
  <2>3. QED
    BY <1>1, <2>1, <2>2
<1>6. CASE Record(r)
  <2>1. vol' = vol /\ req[r].op \in {"create", "delete"} /\ req[r].pc = "record" /\ r \in Querying(n)
    BY <1>6, Starts DEF Record, disk, Querying
  <2>2. req[r].value = Committed(vol, n) /\ (req[r].op = "delete" => row[req[r].user] # NoRow)
    BY <2>1 DEF Summed, Sole
  <2>3. req'[r].pc # "record"
    BY <1>6, <1>b, Moves DEF Continues
  <2>4. Querying(n)' \subseteq Querying(n) /\ \A q \in Querying(n)' : req'[q] = req[q]
    BY <1>a, <2>3 DEF Querying
  <2>5. node'[n] # NoRow => node'[n].over = Committed(vol, n)
    <3>1. node \in [Node -> NodeRow \cup {NoRow}]
      BY DEF Fits, TypeOK
    <3>2. CASE node[n] = NoRow
      BY <1>6, <3>2 DEF Record
    <3>3. CASE node[n] # NoRow
      <4>1. node' = [node EXCEPT ![n].over = req[r].value]
        BY <1>6, <2>2, <3>3 DEF Record
      <4>2. node'[n] = [node[n] EXCEPT !.over = req[r].value] /\ node[n] \in NodeRow
        BY <3>1, <3>3, <4>1
      <4>3. node'[n].over = req[r].value
        BY <4>2 DEF NodeRow
      <4>4. QED
        BY <2>2, <4>3
    <3>4. QED
      BY <3>2, <3>3
  <2>6. \A q \in Querying(n)' : req'[q].value = Committed(vol', n)
    BY <2>1, <2>4 DEF Summed
  <2>7. QED
    BY <1>b, <2>1, <2>5, <2>6 DEF Summed
<1>7. CASE UnmapStorageFails(r) \/ CallFails(r)
  BY <1>7 DEF UnmapStorageFails, CallFails, Loosen, Tight
<1>8. QED
  BY <1>2, <1>3, <1>4, <1>5, <1>6, <1>7 DEF StorageSteps

LEMMA OverStep ==
    ASSUME Fits, OverInv, NEW r \in Request, StorageSteps(r)
    PROVE  OverInv'
<1>a. (\A s \in Request \ {r} : req'[s] = req[s]) /\ loose \subseteq loose'
  BY OneRequest DEF StorageSteps, RequestSteps
<1>b. PICK m \in Node : m = req[r].node
  BY Starts
<1>c. req'[r].node \notin Node \ {m}
  <2>1. req'[r] = NoReq \/ \E pc : Continues(r, pc)
    BY Moves, OwnVolumes DEF StorageSteps
  <2>2. QED
    BY <1>b, <2>1, NoReqFits, ControlPlaneAssumption DEF Continues
<1>1. ASSUME NEW n \in Node, Tight("over", n)'
      PROVE  Summed(n)'
  <2>1. Summed(n)
    BY <1>a, <1>1 DEF OverInv, Tight
  <2>2. CASE n = m
    BY <1>1, <1>b, <2>1, <2>2, SummedStep
  <2>3. CASE n # m
    <3>1. Sole(n)'
      BY <2>1, SoleStep DEF Summed
    <3>2. Committed(vol', n) = Committed(vol, n)
      <4>1. vol \in Volumes /\ vol' \in Volumes /\ \A u \in User : vol'[u][n] = vol[u][n]
        BY <1>b, <2>3, OwnVolumes DEF Fits, TypeOK
      <4>2. QED
        BY <4>1, SameColumn
    <3>3. Querying(n)' = Querying(n) /\ \A q \in Querying(n) : req'[q] = req[q]
      BY <1>a, <1>b, <1>c, <2>3 DEF Querying
    <3>4. node'[n] = node[n]
      BY <1>b, <2>3 DEF StorageSteps, MapStorage, MapStorageFails, Record, UndoStorage, GrowVolume, CommitUpdate,
         UnmapStorage, UnmapStorageFails, CommitDelete, CallFails, Fits, TypeOK
    <3>5. QED
      BY <2>1, <3>1, <3>2, <3>3, <3>4 DEF Summed
  <2>4. QED
    BY <2>2, <2>3
<1>2. QED
  BY <1>1 DEF OverInv

\* Nodes are created, marked and deleted; nothing else changes their rows but a
\* record of a sum.
LEMMA NodeRows ==
    ASSUME Fits, QuietSteps, NEW n \in Node, node'[n] # NoRow
    PROVE  \/ node[n] # NoRow /\ node'[n].over = node[n].over
           \/ /\ node'[n].over = 0
              /\ Loosen(IF Committed(vol, n) # 0 \/ \E q \in Request : req[q].node = n THEN {<<"over", n>>} ELSE {})
<1>a. node \in [Node -> NodeRow \cup {NoRow}]
  BY DEF Fits, TypeOK
<1>1. ASSUME NEW r \in Request, NEW m \in Node, CreateNode(r, m)
      PROVE  \/ node'[n] = node[n]
             \/ n = m /\ node'[n].over = 0
  <2>1. node' = [node EXCEPT ![m] = [deleted |-> FALSE, over |-> 0]]
    BY <1>1 DEF CreateNode
  <2>2. CASE n = m
    <3>1. node'[n] = [deleted |-> FALSE, over |-> 0]
      BY <1>a, <2>1, <2>2
    <3>2. QED
      BY <2>2, <3>1
  <2>3. CASE n # m
    BY <1>a, <2>1, <2>3
  <2>4. QED
    BY <2>2, <2>3
<1>2. ASSUME NEW m \in Node, NEW deleted \in BOOLEAN, node[m] # NoRow, node' = [node EXCEPT ![m].deleted = deleted]
      PROVE  node[n] # NoRow /\ node'[n].over = node[n].over
  <2>1. node[m] \in NodeRow /\ node'[m] = [node[m] EXCEPT !.deleted = deleted] /\ (n # m => node'[n] = node[n])
    BY <1>a, <1>2
  <2>2. node'[m].over = node[m].over
    BY <2>1 DEF NodeRow
  <2>3. QED
    BY <1>2, <2>1, <2>2
<1>3. ASSUME NEW r \in Request, NEW m \in Node, NEW force \in BOOLEAN, DeleteNode(r, m, force)
      PROVE  node[n] # NoRow /\ node'[n].over = node[n].over
  <2>1. node[m] # NoRow
    BY <1>3 DEF DeleteNode
  <2>2. CASE force
    <3>1. node' = [node EXCEPT ![m] = NoRow]
      BY <1>3, <2>2 DEF DeleteNode
    <3>2. QED
      BY <1>a, <3>1
  <2>3. CASE ~ force
    <3>1. node' = [node EXCEPT ![m].deleted = TRUE]
      BY <1>3, <2>3 DEF DeleteNode
    <3>2. QED
      BY <1>2, <2>1, <3>1
  <2>4. QED
    BY <2>2, <2>3
<1>4. ASSUME NEW m \in Node, Ping(m)
      PROVE  node[n] # NoRow /\ node'[n].over = node[n].over
  BY <1>2, <1>4 DEF Ping
<1>5. CASE node' = node
  BY <1>5
<1>6. \/ node' = node
      \/ \E r \in Request, m \in Node : CreateNode(r, m)
      \/ \E r \in Request, m \in Node, force \in BOOLEAN : DeleteNode(r, m, force)
      \/ \E m \in Node : Ping(m)
  <2>1. ASSUME NEW t \in Task, TaskSteps(t)
        PROVE  node' = node
    BY <2>1, Tasks
  <2>2. ASSUME NEW m \in Node, NodeDown(m) \/ NodeUp(m)
        PROVE  node' = node
    BY <2>2 DEF NodeDown, NodeUp
  <2>3. ASSUME NEW r \in Request, VersionRequests(r) \/ CommitVersion(r) \/ SendVersion(r)
        PROVE  node' = node
    BY <2>3 DEF VersionRequests, CreateVersion, CreateBackups, Admit, RestoreVersion, DeleteVersion, CommitVersion, SendVersion
  <2>4. ASSUME NEW r \in Request, NEW u \in User, ScheduleJobs(r, u)
        PROVE  node' = node
    BY <2>4 DEF ScheduleJobs
  <2>5. QED
    BY <2>1, <2>2, <2>3, <2>4 DEF QuietSteps, NodeRequests
<1>7. ASSUME NEW r \in Request, CreateNode(r, n)
      PROVE  Loosen(IF Committed(vol, n) # 0 \/ \E q \in Request : req[q].node = n THEN {<<"over", n>>} ELSE {})
  BY <1>7 DEF CreateNode
<1>8. QED
  BY <1>1, <1>3, <1>4, <1>5, <1>6, <1>7

LEMMA OverQuiet ==
    ASSUME Fits, OverInv, QuietSteps
    PROVE  OverInv'
<1>a. /\ vol' = vol /\ loose \subseteq loose' /\ NoNode \notin Node
      /\ \A u \in User : row'[u] = NoRow <=> row[u] = NoRow
      /\ \A r \in Request : req[r].node # NoNode \/ req'[r].node # NoNode => req'[r] = req[r]
      /\ \A r \in Request : req[r].op \in Storers \/ req'[r].op \in Storers => req'[r] = req[r]
  BY Quiet, ControlPlaneAssumption
<1>b. \A u \in User : Storing(u)' = Storing(u)
  BY <1>a DEF Storing, Storers
<1>1. ASSUME NEW n \in Node, Tight("over", n)'
      PROVE  Summed(n)'
  <2>1. Summed(n)
    BY <1>a, <1>1 DEF OverInv, Tight
  <2>2. Querying(n)' = Querying(n) /\ \A q \in Querying(n) : req'[q] = req[q]
    BY <1>a DEF Querying
  <2>3. ASSUME NEW q \in Request, req'[q].node = n
        PROVE  \E x \in User :
                  /\ x = req'[q].user /\ \A s \in Storing(x)' : s = q
                  /\ req'[q].op = "delete" /\ req'[q].pc # "commit" => row'[x] # NoRow
    <3>1. req'[q] = req[q]
      BY <1>a, <2>3
    <3>2. req[q].user \in User
      BY <2>3, <3>1, OnNode
    <3>3. QED
      BY <1>a, <1>b, <2>1, <2>3, <3>1, <3>2 DEF Summed, Sole
  <2>4. Sole(n)'
    BY <2>3 DEF Sole, Storing
  <2>5. ASSUME Querying(n) = {}, node'[n] # NoRow
        PROVE  node'[n].over = Committed(vol, n)
    BY <1>1, <2>1, <2>5, NodeRows DEF Summed, Loosen, Tight
  <2>6. QED
    BY <1>a, <2>1, <2>2, <2>4, <2>5 DEF Summed
<1>2. QED
  BY <1>1 DEF OverInv

\* The overcommitment by which create_storage selects nodes is the sum of their
\* volumes, for any number of users, nodes and requests.
THEOREM OvercommitIsKnownAlways == Spec => []OvercommitIsKnown
<1>1. Init => OverInv
  <2> SUFFICES ASSUME Init, NEW n \in Node
               PROVE  Summed(n)
    BY DEF OverInv
  <2>1. \A r \in Request : req[r].node # n
    BY Beginning, ControlPlaneAssumption
  <2>2. QED
    BY <2>1, Beginning DEF Summed, Sole, Querying
<1>2. Fits /\ OverInv /\ [Next]_vars => OverInv'
  <2>1. UNCHANGED vars /\ OverInv => OverInv'
    BY DEF vars, OverInv, Summed, Sole, Querying, Storing, Tight
  <2>2. QED
    BY <2>1, Kinds, OverQuiet, OverRequest, OverStep
<1>3. OverInv => OvercommitIsKnown
  BY DEF OverInv, Summed, Querying, OvercommitIsKnown
<1>4. QED
  BY <1>1, <1>2, <1>3, ControlPlaneFits, PTL DEF Spec

=============================================================================
