------------------------------ MODULE IoModules ------------------------------
(***************************************************************************)
(* The IO modules (io/file.py, io/rbd.py, io/rbdaio.py, io/iscsi.py):      *)
(* block devices and files that a backup and a deep-scrub read and that a  *)
(* restore writes, together with the loops of Benji.backup, Benji.restore  *)
(* and Benji.deep_scrub that call them.                                    *)
(*                                                                         *)
(* file and rbd hand every request to the threads of a JobExecutor; rbdaio *)
(* keeps a queue of its own and at most "simultaneous" asynchronous        *)
(* requests, whose callbacks run in a thread of librbd; iscsi does the     *)
(* request when its result is asked for.  One behaviour is one job with    *)
(* one IO object.                                                          *)
(***************************************************************************)
EXTENDS Naturals, Sequences, FiniteSets, SequencesExt, FiniteSetsExt

CONSTANTS
    Blocks,          \* bound: blocks of the version
    MaxSimultaneous, \* bound: simultaneousReads and simultaneousWrites
    MaxFaults,       \* bound: requests the device refuses
    BackupPlans,     \* what hints make of the blocks of a backup
    RestorePlans     \* what a restore finds in the version and the storage

ASSUME IoAssumption ==
    /\ Blocks \in Nat \ {0} /\ MaxSimultaneous \in Nat \ {0} /\ MaxFaults \in Nat
    /\ BackupPlans \subseteq [0..(Blocks - 1) -> {"read", "check", "keep"}]
    /\ RestorePlans \subseteq
         [0..(Blocks - 1) -> {"data", "sparse", "missing", "badmeta"}]

Idx == 0..(Blocks - 1)
End == Blocks - 1          \* the last block of the version
Beyond == Blocks           \* what lies behind the end of the version
Cell == Idx \cup {Beyond}

Kind == {"file", "rbd", "rbdaio", "iscsi"}
Rbd == {"rbd", "rbdaio"}

VARIABLES
    setup,   \* what the job was asked to do and what it finds
    pc,      \* where the calling thread is
    phase,   \* the loop of the caller it is in
    todo,    \* blocks that loop has not come to yet
    queue,   \* requests not started: futures of the executor, _read_queue,
             \* _write_queue, _outstanding_write
    flying,  \* requests a thread of the executor or librbd works on
    done,    \* requests completed and not collected
    submit,  \* rbdaio: the caller is in _submit_aio_..., called by read() or
             \* write() or in a turn of ..._get_completed(), or past it
    medium,  \* what the device or file holds
    cut,     \* the source ends inside this block, if it is not Beyond
    jobs,    \* read_jobs, write_jobs
    got,     \* results collected in this loop
    count,   \* done_read_jobs, done_write_jobs
    faults,  \* requests refused so far
    result

vars == <<setup, pc, phase, todo, queue, flying, done, submit, medium, cut,
          jobs, got, count, faults, result>>
device == <<queue, flying, done, submit, medium, cut, faults>>

kind == setup.kind
Limit == 2 * setup.sim + 1   \* the semaphore of JobExecutor
Reading == setup.task # "restore"
Pooled == kind \in {"file", "rbd"}

\* A result: the block the IO module names, the block whose data it is, and
\* whether the data is all of it.
Entry == [name : Idx, data : Idx, how : {"whole", "short", "error"}]

\* A request under way.  mine: its callback shares the local variables of the
\* call of _submit_aio_... that is running; put: its callback has queued the
\* completion and has not released the semaphore.
Request == [block : Idx, name : Idx, mine : BOOLEAN, put : BOOLEAN]

TypeOK ==
    /\ pc \in {"new", "open", "loop", "poll", "collect", "close", "end"}
    /\ phase \in {"check", "backup", "scrub", "sparse", "data"}
    /\ todo \subseteq Idx
    /\ queue \in Seq(Idx) /\ flying \subseteq Request /\ done \in Seq(Entry)
    /\ submit \in {"out", "called", "in", "ready"}
    /\ medium \in [Cell -> {"none", "zero", "old", "data"}]
    /\ cut \in Cell
    /\ jobs \in 0..Blocks /\ count \in 0..Blocks /\ faults \in 0..MaxFaults
    /\ got \subseteq Entry
    /\ result \in {"none", "ok", "refused", "failed"}

-----------------------------------------------------------------------------
(* The calling thread leaves the job.                                      *)

Fail == pc' = "close" /\ result' = "failed"

\* An exception of the sanity check passes by the io.close() of backup().
Raise ==
    /\ pc' = IF phase = "check" THEN "end" ELSE "close"
    /\ result' = "failed"

Refuse ==
    /\ pc' = "end" /\ result' = "refused"
    /\ UNCHANGED <<setup, phase, todo, jobs, got, count, device>>

\* A loop begins.
Enter(p, blocks) ==
    /\ phase' = p /\ todo' = blocks /\ pc' = "loop"
    /\ jobs' = 0 /\ got' = {} /\ count' = 0

Planned(p) == {i \in Idx : setup.plan[i] = p}

-----------------------------------------------------------------------------
(* IOFactory.get and the constructors: an unknown scheme, a URL that does  *)
(* not fit, an unknown feature or a cluster that cannot be reached.        *)

IOFactory_get == pc = "new" /\ Refuse

Constructed ==
    /\ pc' = "open"
    /\ UNCHANGED <<setup, phase, todo, jobs, got, count, result, device>>

FileIO == pc = "new" /\ kind = "file" /\ (Constructed \/ Refuse)
RbdIO == pc = "new" /\ kind = "rbd" /\ (Constructed \/ Refuse)
RbdAioIO == pc = "new" /\ kind = "rbdaio" /\ (Constructed \/ Refuse)
IscsiIO == pc = "new" /\ kind = "iscsi" /\ (Constructed \/ Refuse)

\* The first loop of the job: backup() checks blocks outside of the hints only
\* with a base version.
OpenedR ==
    /\ \/ setup.task = "scrub" /\ Enter("scrub", Idx)
       \/ /\ setup.task = "backup" /\ Planned("check") # {}
          /\ Enter("check", Planned("check"))
       \/ /\ setup.task = "backup" /\ Planned("check") = {}
          /\ Enter("backup", Planned("read"))
    /\ UNCHANGED <<setup, result, device>>

\* restore() queues its storage reads while it writes the sparse blocks.
OpenedW(m) ==
    /\ Enter("sparse", IF setup.sparse THEN {} ELSE Idx)
    /\ medium' = m
    /\ UNCHANGED <<setup, result, queue, flying, done, submit, cut, faults>>

FileOpenR == pc = "open" /\ kind = "file" /\ Reading /\ OpenedR
RbdOpenR == pc = "open" /\ kind = "rbd" /\ Reading /\ (OpenedR \/ Refuse)
RbdAioOpenR == pc = "open" /\ kind = "rbdaio" /\ Reading /\ (OpenedR \/ Refuse)

\* A new image or file reads as zeros up to the size of the version.
Fresh == [c \in Cell |-> IF c = Beyond THEN "none" ELSE "zero"]

\* image.discard over all of the image.
Discarded == [c \in Cell |-> IF medium[c] = "none" THEN "none" ELSE "zero"]

\* An existing target is not written without force, nor one that is too small.
Overwrites == setup.force /\ setup.size # "small"

FileOpenW ==
    /\ pc = "open" /\ kind = "file" /\ ~Reading
    /\ \/ setup.size = "none" /\ OpenedW(Fresh)
       \/ setup.size # "none" /\ ~Overwrites /\ Refuse
       \/ setup.size # "none" /\ Overwrites /\ OpenedW(medium)

\* Mutant: an existing image is not discarded.
RbdTarget_NoDiscard ==
    \/ setup.size = "none" /\ OpenedW(Fresh)
    \/ setup.size # "none" /\ ~Overwrites /\ Refuse
    \/ setup.size # "none" /\ Overwrites /\ OpenedW(medium)

\* What both RBD modules do with the image they find or make.
RbdTarget ==
    \/ setup.size = "none" /\ OpenedW(Fresh)
    \/ setup.size # "none" /\ ~Overwrites /\ Refuse
    \/ /\ setup.size # "none" /\ Overwrites
       /\ OpenedW(IF setup.sparse THEN Discarded ELSE medium)

RbdOpenW == pc = "open" /\ kind = "rbd" /\ ~Reading /\ (RbdTarget \/ Refuse)
RbdAioOpenW ==
    pc = "open" /\ kind = "rbdaio" /\ ~Reading /\ (RbdTarget \/ Refuse)

\* _open: connects, reads the capacity and compares the block sizes; size,
\* force and sparse play no part.
IscsiOpen ==
    /\ pc = "open" /\ kind = "iscsi"
    /\ \/ Refuse
       \/ setup.size # "none" /\ Reading /\ OpenedR
       \/ setup.size # "none" /\ ~Reading /\ OpenedW(medium)

-----------------------------------------------------------------------------
(* The device.                                                             *)

\* How a read of block i can end on a source that has shrunk to inside cut.
SourceHas(i) == IF i < cut THEN "whole" ELSE IF i = cut THEN "short" ELSE "error"

Answer(name, i, how) == [name |-> name, data |-> i, how |-> how]

\* _read of file.py and rbd.py: only an empty answer is an error.
FileRead(i) == SourceHas(i)
RbdRead(i) == SourceHas(i)

\* Mutant: the length of what was read is not compared with the block.
RbdAioRead_NoLength(i) == SourceHas(i)

\* read_get_completed of rbdaio.py compares the length, read_sync does not.
RbdAioRead(i) ==
    IF SourceHas(i) = "whole" \/ phase = "scrub" THEN SourceHas(i) ELSE "error"

\* _read of iscsi.py: whole blocks of a device that keeps its size.
IscsiRead(i) ==
    IF (setup.short /\ i = End) \/ SourceHas(i) # "whole" THEN "error" ELSE "whole"

ReadOf(i) ==
    CASE kind = "file" -> FileRead(i)
      [] kind = "rbd" -> RbdRead(i)
      [] kind = "rbdaio" -> RbdAioRead(i)
      [] kind = "iscsi" -> IscsiRead(i)

\* The block of zeros that stands for a sparse block has the full block size,
\* also where the last block of the version is shorter.
Overhang(i) == phase = "sparse" /\ setup.short /\ i = End

Written(i) ==
    [c \in Cell |-> IF c = i \/ (c = Beyond /\ Overhang(i))
                    THEN IF phase = "sparse" THEN "zero" ELSE "data"
                    ELSE medium[c]]

\* _write of file.py makes the file longer when it has to.
FileWrite(i) == TRUE
\* A write behind the end of an image fails.
RbdWrite(i) == ~(Overhang(i) /\ setup.size \in {"none", "exact"})
RbdAioWrite(i) == ~(Overhang(i) /\ setup.size \in {"none", "exact"})
IscsiWrite(i) == ~(i = End /\ (setup.short \/ setup.size = "small"))

WriteFits(i) ==
    CASE kind = "file" -> FileWrite(i)
      [] kind = "rbd" -> RbdWrite(i)
      [] kind = "rbdaio" -> RbdAioWrite(i)
      [] kind = "iscsi" -> IscsiWrite(i)

\* Request for block i, reported under name, is served: how is the result.
Serve(i, how) ==
    \/ /\ faults < MaxFaults /\ faults' = faults + 1
       /\ how = "error" /\ UNCHANGED medium
    \/ /\ UNCHANGED faults
       /\ IF Reading
          THEN how = ReadOf(i) /\ UNCHANGED medium
          ELSE IF WriteFits(i)
               THEN how = "whole" /\ medium' = Written(i)
               ELSE how = "error" /\ UNCHANGED medium

\* A file or an image that is being read gets shorter.
Shrink ==
    /\ Reading /\ kind # "iscsi" /\ cut = Beyond
    /\ pc \in {"loop", "collect"}
    /\ cut' \in Idx
    /\ UNCHANGED <<setup, pc, phase, todo, queue, flying, done, submit, medium,
                   jobs, got, count, faults, result>>

-----------------------------------------------------------------------------
(* file and rbd: the threads of the executor (module JobExecutor).         *)

\* A thread takes the oldest job; a read waits for the permit of its result.
WorkerTakes ==
    /\ Pooled /\ queue # <<>> /\ Cardinality(flying) < setup.sim
    /\ Reading => Cardinality(flying) + Len(done) < Limit
    /\ queue' = Tail(queue)
    /\ flying' = flying \cup {[block |-> Head(queue), name |-> Head(queue),
                               mine |-> FALSE, put |-> FALSE]}
    /\ UNCHANGED <<setup, pc, phase, todo, done, submit, medium, cut, jobs, got,
                   count, faults, result>>

WorkerEnds(f) ==
    /\ Pooled /\ f \in flying
    /\ \E how \in {"whole", "short", "error"} :
        /\ Serve(f.block, how)
        /\ done' = Append(done, Answer(f.block, f.block, how))
    /\ flying' = flying \ {f}
    /\ UNCHANGED <<setup, pc, phase, todo, queue, submit, cut, jobs, got, count,
                   result>>

-----------------------------------------------------------------------------
(* rbdaio: the requests of librbd and their callbacks.                     *)

Outstanding == Cardinality({f \in flying : ~f.put}) + Len(done)
Permits == setup.sim - Cardinality(flying)
Submittable == queue # <<>> /\ Outstanding < setup.sim

\* _submit_aio_... is called: a new frame, whose variables no callback shares.
NewFrame(from) ==
    submit' = from /\ flying' = {[f EXCEPT !.mine = FALSE] : f \in flying}

\* One turn of its loop: the variable the callbacks of this call read is set to
\* the block of this turn.
Submitted ==
    /\ kind = "rbdaio" /\ submit \in {"called", "in"} /\ Submittable
    /\ flying' = {IF f.mine THEN [f EXCEPT !.name = Head(queue)] ELSE f : f \in flying}
                 \cup {[block |-> Head(queue), name |-> Head(queue),
                        mine |-> TRUE, put |-> FALSE]}
    /\ queue' = Tail(queue)
    /\ UNCHANGED <<setup, pc, phase, todo, done, submit, medium, cut, jobs, got,
                   count, faults, result>>

SubmitAioReads == Reading /\ Submitted
\* A write takes a permit of _submitted_aio_writes first.
SubmitAioWrites == ~Reading /\ Permits > 0 /\ Submitted

\* The loop of _submit_aio_... ends.
AllSubmitted ==
    /\ kind = "rbdaio" /\ submit \in {"called", "in"} /\ ~Submittable
    /\ submit' = IF submit = "in" THEN "ready" ELSE "out"
    /\ UNCHANGED <<setup, pc, phase, todo, queue, flying, done, medium, cut, jobs,
                   got, count, faults, result>>

\* aio_callback: what it reports is what its variable holds now.
AioCallback(f) ==
    /\ kind = "rbdaio" /\ f \in flying /\ ~f.put
    /\ \E how \in {"whole", "short", "error"} :
        /\ Serve(f.block, how)
        /\ done' = Append(done, Answer(f.name, f.block, how))
    /\ flying' = IF Reading THEN flying \ {f}
                 ELSE (flying \ {f}) \cup {[f EXCEPT !.put = TRUE]}
    /\ UNCHANGED <<setup, pc, phase, todo, queue, submit, cut, jobs, got, count,
                   result>>

\* Mutant: the permit is not given back.
AioReleases_Never(f) ==
    kind = "rbdaio" /\ f \in flying /\ f.put /\ UNCHANGED vars

\* The callback of a write releases the semaphore after it has put.
AioReleases(f) ==
    /\ kind = "rbdaio" /\ f \in flying /\ f.put
    /\ flying' = flying \ {f}
    /\ UNCHANGED <<setup, pc, phase, todo, queue, done, submit, medium, cut, jobs,
                   got, count, faults, result>>

-----------------------------------------------------------------------------
(* The results are collected: by a poll with timeout 0 after every write,  *)
(* and at the end of a loop until nothing is left.                         *)

Collecting == pc \in {"poll", "collect"} /\ submit \in {"out", "ready"}

Finish(ok) == pc' = "close" /\ result' = IF ok THEN "ok" ELSE "failed"

\* The loop over ..._get_completed() ends.
Collected ==
    \/ /\ pc = "poll" /\ pc' = "loop"
       /\ UNCHANGED <<phase, todo, jobs, got, count, result>>
    \/ /\ pc = "collect" /\ phase = "check"
       /\ Enter("backup", Planned("read"))
       /\ UNCHANGED result
    \/ /\ pc = "collect" /\ phase = "sparse" /\ jobs = count
       /\ Enter("data", Idx \ Planned("sparse"))
       /\ UNCHANGED result
    \/ /\ pc = "collect" /\ (phase \in {"backup", "data"} \/ jobs # count)
       /\ phase # "check"
       /\ Finish(jobs = count)
       /\ UNCHANGED <<phase, todo, jobs, got, count>>

\* A result reaches the caller; an exception ends its loop.
Deliver(e) ==
    IF e.how = "error"
    THEN Raise /\ UNCHANGED <<got, count>>
    ELSE /\ got' = got \cup {e} /\ count' = count + 1
         /\ UNCHANGED <<pc, result>>

\* get_completed() of the executor, in the order of completion or, for what is
\* complete when it is called, in any.
PoolGet(k) ==
    /\ Pooled /\ Collecting /\ k \in DOMAIN done
    /\ done' = RemoveAt(done, k)
    /\ Deliver(done[k])
    /\ UNCHANGED <<setup, phase, todo, queue, flying, submit, medium, cut, jobs,
                   faults>>

\* Nothing is left, or the poll times out.
PoolEmpty ==
    /\ Pooled /\ Collecting
    /\ pc = "poll" \/ (queue = <<>> /\ flying = {} /\ done = <<>>)
    /\ Collected
    /\ UNCHANGED <<setup, device>>

\* Mutant: requests librbd still works on are forgotten.
AioIdle_NotFlying == queue = <<>> /\ done = <<>>

\* _reads_finished, _writes_finished.
AioIdle == queue = <<>> /\ Outstanding = 0

\* Mutant: what waits in the queue is submitted when nothing else is left to
\* collect.
AioTurn_Lazy ==
    /\ kind = "rbdaio" /\ Collecting /\ submit = "out" /\ ~AioIdle
    /\ IF done = <<>> THEN NewFrame("in") ELSE submit' = "ready" /\ UNCHANGED flying
    /\ UNCHANGED <<setup, pc, phase, todo, queue, done, medium, cut, jobs, got,
                   count, faults, result>>

\* read_get_completed and write_get_completed of rbdaio: a turn begins by
\* submitting what the queue holds.
AioTurn ==
    /\ kind = "rbdaio" /\ Collecting /\ submit = "out" /\ ~AioIdle
    /\ NewFrame("in")
    /\ UNCHANGED <<setup, pc, phase, todo, queue, done, medium, cut, jobs, got,
                   count, faults, result>>

\* The oldest completion is collected.
AioGot ==
    /\ kind = "rbdaio" /\ Collecting /\ submit = "ready" /\ done # <<>>
    /\ done' = Tail(done) /\ submit' = "out"
    /\ Deliver(Head(done))
    /\ UNCHANGED <<setup, phase, todo, queue, flying, medium, cut, jobs, faults>>

AioGetRead == Reading /\ AioGot
AioGetWrite == ~Reading /\ AioGot

\* The loop is over, or queue.Empty ends a poll.
AioEmpty ==
    /\ kind = "rbdaio" /\ Collecting
    /\ \/ submit = "out" /\ AioIdle
       \/ submit = "ready" /\ done = <<>> /\ pc = "poll"
    /\ Collected /\ submit' = "out"
    /\ UNCHANGED <<setup, queue, flying, done, medium, cut, faults>>

\* iscsi does the request now: the newest read, or the only write.
IscsiGet ==
    /\ kind = "iscsi" /\ Collecting /\ queue # <<>>
    /\ \E how \in {"whole", "short", "error"} :
        /\ Serve(Last(queue), how)
        /\ Deliver(Answer(Last(queue), Last(queue), how))
    /\ queue' = Front(queue)
    /\ UNCHANGED <<setup, phase, todo, flying, done, submit, cut, jobs>>

IscsiEmpty ==
    /\ kind = "iscsi" /\ Collecting /\ queue = <<>>
    /\ Collected
    /\ UNCHANGED <<setup, device>>

-----------------------------------------------------------------------------
(* The loops of backup() over read(), in the order of the blocks.          *)

Queued(i) ==
    /\ pc = "loop" /\ phase \in {"check", "backup"} /\ submit = "out"
    /\ i \in todo /\ i = Min(todo)
    /\ todo' = todo \ {i} /\ jobs' = jobs + 1 /\ queue' = Append(queue, i)
    /\ UNCHANGED <<setup, pc, phase, done, medium, cut, got, count, faults, result>>

FileQueueRead(i) == kind = "file" /\ Queued(i) /\ UNCHANGED <<flying, submit>>
RbdQueueRead(i) == kind = "rbd" /\ Queued(i) /\ UNCHANGED <<flying, submit>>
IscsiQueueRead(i) == kind = "iscsi" /\ Queued(i) /\ UNCHANGED <<flying, submit>>
RbdAioQueueRead(i) == kind = "rbdaio" /\ Queued(i) /\ NewFrame("called")

\* The blocks of the loop have been handled.
AllQueued ==
    /\ pc = "loop" /\ phase # "scrub" /\ todo = {} /\ submit = "out"
    /\ pc' = "collect"
    /\ UNCHANGED <<setup, phase, todo, jobs, got, count, result, device>>

\* deep_scrub() reads every block it has of the version from the source, too.
ReadSync(i) ==
    /\ pc = "loop" /\ phase = "scrub" /\ i \in todo
    /\ todo' = todo \ {i} /\ jobs' = jobs + 1
    /\ \E how \in {"whole", "short", "error"} :
        Serve(i, how) /\ Deliver(Answer(i, i, how))
    /\ UNCHANGED <<setup, phase, queue, flying, done, submit, cut>>

Scrubbed ==
    /\ pc = "loop" /\ phase = "scrub" /\ todo = {}
    /\ Finish(TRUE)
    /\ UNCHANGED <<setup, phase, todo, jobs, got, count, device>>

-----------------------------------------------------------------------------
(* The loops of restore() over write().                                    *)

\* write() of block i, after which the caller is at p.
Put(i, p) ==
    /\ todo' = todo \ {i} /\ jobs' = jobs + 1
    /\ queue' = Append(queue, i) /\ pc' = p
    /\ UNCHANGED <<setup, phase, done, medium, cut, got, count, faults, result>>

\* submit() of the executor blocks until it has a permit.
PoolWrite(i, p) ==
    /\ Len(queue) + Cardinality(flying) < Limit
    /\ Put(i, p) /\ UNCHANGED <<flying, submit>>

FileQueueWrite(i, p) == kind = "file" /\ PoolWrite(i, p)
RbdQueueWrite(i, p) == kind = "rbd" /\ PoolWrite(i, p)

\* write() of rbdaio never waits: what cannot be submitted stays in the queue.
RbdAioQueueWrite(i, p) == kind = "rbdaio" /\ Put(i, p) /\ NewFrame("called")

\* write() of iscsi asserts that no other write is outstanding.
IscsiQueueWrite(i, p) ==
    /\ kind = "iscsi"
    /\ IF queue = <<>>
       THEN Put(i, p) /\ UNCHANGED <<flying, submit>>
       ELSE Fail /\ UNCHANGED <<setup, phase, todo, jobs, got, count, device>>

Write(i, p) ==
    \/ FileQueueWrite(i, p)
    \/ RbdQueueWrite(i, p)
    \/ RbdAioQueueWrite(i, p)
    \/ IscsiQueueWrite(i, p)

Skip(i, p) ==
    /\ todo' = todo \ {i} /\ pc' = p
    /\ UNCHANGED <<setup, phase, jobs, got, count, result, device>>

\* A block of the version that has data is read from the storage meanwhile.
RestoreSparse(i) ==
    /\ pc = "loop" /\ phase = "sparse" /\ submit = "out"
    /\ i \in todo /\ i = Min(todo)
    /\ IF setup.plan[i] = "sparse" THEN Write(i, "poll") ELSE Skip(i, "poll")

\* A block comes from the storage, in any order.  One that cannot be read is
\* not written; one with wrong metadata is, but its completion is not polled.
RestoreData(i) ==
    /\ pc = "loop" /\ phase = "data" /\ submit = "out" /\ i \in todo
    /\ CASE setup.plan[i] = "missing" -> Skip(i, "loop")
         [] setup.plan[i] = "badmeta" -> Write(i, "loop")
         [] OTHER -> Write(i, "poll")

-----------------------------------------------------------------------------
(* close()                                                                 *)

Closed ==
    /\ pc' = "end"
    /\ UNCHANGED <<setup, phase, todo, jobs, got, count, result>>

\* shutdown() of the executor cancels what no thread has taken ...
PoolCancel ==
    /\ pc = "close" /\ Pooled /\ queue # <<>>
    /\ queue' = <<>>
    /\ UNCHANGED <<setup, pc, phase, todo, flying, done, submit, medium, cut, jobs,
                   got, count, faults, result>>

\* Mutant: shutdown() does not wait.
FileClose_NoWait ==
    /\ pc = "close" /\ kind = "file" /\ queue = <<>>
    /\ Closed /\ UNCHANGED device

\* ... and waits for the threads.
FileClose ==
    /\ pc = "close" /\ kind = "file" /\ queue = <<>> /\ flying = {}
    /\ Closed /\ UNCHANGED device

RbdClose ==
    /\ pc = "close" /\ kind = "rbd" /\ queue = <<>> /\ flying = {}
    /\ Closed /\ UNCHANGED device

\* Closing an image waits for its requests.
RbdAioClose ==
    /\ pc = "close" /\ kind = "rbdaio" /\ flying = {}
    /\ Closed /\ UNCHANGED device

IscsiClose ==
    /\ pc = "close" /\ kind = "iscsi"
    /\ Closed /\ queue' = <<>>
    /\ UNCHANGED <<flying, done, submit, medium, cut, faults>>

-----------------------------------------------------------------------------

\* A short last block makes no difference to a read but on iscsi, and force none
\* to a target that does not exist.
Setups ==
    {s \in [kind : Kind, task : {"backup"}, sim : 1..MaxSimultaneous, force : {FALSE},
            sparse : {FALSE}, size : {"exact"}, short : BOOLEAN, plan : BackupPlans]
           \cup
           [kind : Kind, task : {"scrub"}, sim : {1}, force : {FALSE},
            sparse : {FALSE}, size : {"exact"}, short : BOOLEAN,
            plan : {[i \in Idx |-> "read"]}]
           \cup
           [kind : Kind, task : {"restore"}, sim : 1..MaxSimultaneous,
            force : BOOLEAN, sparse : BOOLEAN, plan : RestorePlans,
            size : {"none", "small", "exact", "large"}, short : BOOLEAN] :
        /\ s.short => s.kind = "iscsi" \/ s.task = "restore"
        /\ s.force => s.size # "none"}

Found(s) ==
    [c \in Cell |->
        IF \/ s.size = "none" \/ (c = End /\ s.size = "small")
           \/ (c = Beyond /\ s.size # "large")
        THEN "none" ELSE "old"]

Init ==
    /\ setup \in Setups
    /\ pc = "new" /\ phase = "check" /\ todo = {}
    /\ queue = <<>> /\ flying = {} /\ done = <<>> /\ submit = "out"
    /\ medium = Found(setup) /\ cut = Beyond
    /\ jobs = 0 /\ got = {} /\ count = 0 /\ faults = 0
    /\ result = "none"

Next ==
    \/ IOFactory_get
    \/ FileIO \/ RbdIO \/ RbdAioIO \/ IscsiIO
    \/ FileOpenR \/ RbdOpenR \/ RbdAioOpenR \/ IscsiOpen
    \/ FileOpenW \/ RbdOpenW \/ RbdAioOpenW
    \/ \E i \in Idx : FileQueueRead(i) \/ RbdQueueRead(i)
                       \/ IscsiQueueRead(i) \/ RbdAioQueueRead(i)
    \/ AllQueued \/ Scrubbed
    \/ \E i \in Idx : ReadSync(i)
    \/ \E i \in Idx : RestoreSparse(i)
    \/ \E i \in Idx : RestoreData(i)
    \/ WorkerTakes
    \/ \E f \in flying : WorkerEnds(f)
    \/ SubmitAioReads \/ SubmitAioWrites \/ AllSubmitted
    \/ \E f \in flying : AioCallback(f)
    \/ \E f \in flying : AioReleases(f)
    \/ \E k \in DOMAIN done : PoolGet(k)
    \/ PoolEmpty \/ AioTurn \/ AioGetRead \/ AioGetWrite \/ AioEmpty
    \/ IscsiGet \/ IscsiEmpty
    \/ PoolCancel \/ FileClose \/ RbdClose \/ RbdAioClose \/ IscsiClose
    \/ Shrink

\* The caller, the threads of the executor and those of librbd go on while they
\* can; every step but Shrink brings the job nearer to its end.
Spec == Init /\ [][Next]_vars /\ WF_vars(Next)

-----------------------------------------------------------------------------

\* The data the backup or the deep-scrub is given for a block is the data of
\* that block, all of it unless the source has become shorter and the module
\* is file or rbd or the read was a read_sync (io/rbdaio.py _submit_aio_reads shares the variable block
\* between the callbacks of one call; read_get_completed checks the length);
\* and a backup that ends well was given every block it asked for, once.
ReadsAreOwn ==
    /\ TypeOK
    /\ Reading => \A e \in got :
        /\ e.name = e.data
        /\ e.how = "short" => (Pooled \/ phase = "scrub") /\ e.data = cut
    /\ result = "ok" /\ setup.task = "backup" =>
        {e.data : e \in got} = Planned("read") /\ count = Cardinality(got)

\* The target before the first write: a new one, a discarded one or an old one.
Opened ==
    IF setup.size = "none" THEN Fresh
    ELSE [c \in Cell |->
            IF Found(setup)[c] = "old" /\ setup.sparse /\ kind \in Rbd
            THEN "zero" ELSE Found(setup)[c]]

\* What a restore leaves on its target: the data of the version, zeros for its
\* sparse blocks or, with sparse, what open_w left there.
Expected ==
    [c \in Cell |->
        IF c \in Planned("data") \cup Planned("badmeta") THEN "data"
        ELSE IF ~setup.sparse
                /\ \/ c \in Planned("sparse")
                   \/ c = Beyond /\ setup.short /\ End \in Planned("sparse")
             THEN "zero" ELSE Opened[c]]

\* A restore that ends well has left on its target what it promises, however
\* its writes were ordered (Benji.restore, open_w and write of every module); a
\* target too small for the version is not touched by file, rbd and rbdaio (the
\* comparison of sizes in open_w).
RestoredIsVersion ==
    /\ result = "ok" /\ setup.task = "restore" =>
          /\ medium = Expected
          /\ queue = <<>> /\ Outstanding = 0
    /\ setup.size = "small" /\ kind # "iscsi" => medium = Found(setup)

\* Without a fault of the device and without a source that shrinks, a job fails
\* only where a module cannot do what it is asked for: iscsi with a short last
\* block, a device too small or, after a block with wrong metadata, a second
\* write; rbd with a short sparse block at the end of the image.
FailsForCause ==
    result = "failed" =>
        \/ faults > 0 \/ cut # Beyond
        \/ kind = "iscsi" /\ \/ setup.short \/ setup.size = "small"
                              \/ Planned("badmeta") # {}
        \/ /\ kind \in Rbd /\ setup.short /\ setup.plan[End] = "sparse"
           /\ ~setup.sparse /\ setup.size \in {"none", "exact"}

\* After close() no request changes the target any more: threads and callbacks
\* have ended.
NothingAfterClose == [][pc = "end" => medium' = medium]_vars

\* Every backup, deep-scrub and restore ends, whatever fails: no permit of a
\* semaphore is lost and no thread waits for one that does not come.
JobEnds == <>(pc = "end")
=============================================================================
