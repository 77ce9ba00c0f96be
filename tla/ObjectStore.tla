----------------------------- MODULE ObjectStore -----------------------------
(***************************************************************************)
(* What the storage layer promises the rest of Benji: a map from the uids  *)
(* of blocks and versions to contents, used by concurrent calls.           *)
(*                                                                         *)
(* A call does not take effect at one instant.  The content of a key       *)
(* changes only while a call that writes or removes it runs; what a read   *)
(* returns is a content its key had while the read ran, or one an earlier  *)
(* read returned: a regular register with removal and failing calls.       *)
(*                                                                         *)
(* Nothing is promised of the outcome of a call for a version that another *)
(* call for that version overlapped: the lock of the version is there to   *)
(* keep them apart.                                                        *)
(***************************************************************************)
EXTENDS Naturals

CONSTANTS
    Block,     \* uids of blocks: written once
    Version,   \* uids of versions: their metadata backup may be overwritten
    Client,    \* threads of Benji processes
    Content,   \* what is stored
    None,      \* no content: a read would fail now
    Garbled,   \* a read would return what nobody wrote
    Unreadable \* keys of a storage whose objects cannot be read

VARIABLES
    content,   \* what a read of a key would return now
    job,       \* the call of a client, or the outcome of its last call
    seen,      \* the contents the key of a call had since it began
    known,     \* the contents earlier reads of a key returned
    contested  \* calls for a version that another call for it overlapped

avars == <<content, job, seen, known, contested>>

Key == Block \cup Version

Resting(r) == [op |-> "rest", key |-> None, arg |-> None, bad |-> FALSE, res |-> r]

ObjInit ==
    /\ content = [k \in Key |-> None]
    /\ job = [c \in Client |-> Resting("new")]
    /\ seen = [c \in Client |-> {}]
    /\ known = [k \in Key |-> {}]
    /\ contested = {}

Busy(c, k) == job[c].op # "rest" /\ job[c].key = k

\* The calls that overlap another one for the same version now.
Crowd ==
    {c \in Client : job[c].op # "rest" /\ job[c].key \in Version
                      /\ \E d \in Client \ {c} : Busy(d, job[c].key)}

Start(c) ==
    /\ job[c].op = "rest"
    /\ \E k \in Key, op \in {"read", "write", "remove"}, a \in Content \cup {None} :
          /\ job'[c] = [op |-> op, key |-> k, arg |-> a, bad |-> FALSE, res |-> "none"]
          /\ (a = None) = (op # "write")
          /\ job' = [job EXCEPT ![c] = job'[c]]
          /\ seen' = [seen EXCEPT ![c] = {content[k]}]
    /\ contested' = contested \cup Crowd'
    /\ UNCHANGED <<content, known>>

\* A step of a call that writes or removes: its key gets what it writes, or
\* loses its content; overwriting may garble a version, never a block.
Change(c) ==
    LET k == job[c].key IN
    /\ job[c].op \in {"write", "remove"}
    /\ \E v \in {None, job[c].arg}
                \cup (IF k \in Version /\ job[c].op = "write" THEN {Garbled} ELSE {}) :
          /\ content' = [content EXCEPT ![k] = v]
          /\ seen' = [d \in Client |-> IF Busy(d, k) THEN seen[d] \cup {v} ELSE seen[d]]
    /\ \E b \in BOOLEAN : job' = [job EXCEPT ![c].bad = b \/ @]
    /\ UNCHANGED <<known, contested>>

\* The storage reports an error to a call.
Trouble(c) ==
    /\ job[c].op # "rest"
    /\ job' = [job EXCEPT ![c].bad = TRUE]
    /\ UNCHANGED <<content, seen, known, contested>>

\* How a call may end that nothing overlapped but calls for other keys or for
\* its block.  A read returns a content it could see or one an earlier read
\* returned, and fails only when its key was unreadable at some instant or the
\* storage reported an error.  A write succeeds only when what it wrote could be
\* read at some instant, a removal only when nothing could.  A write may always
\* fail: the version exists.
Allowed(c, r) ==
    LET j == job[c] IN
    \/ r = "died"
    \/ c \in contested
    \/ /\ j.op = "read"
       /\ \/ r \in (seen[c] \cup known[j.key]) \ {None}
          \/ r = "failed" /\ (j.bad \/ j.key \in Unreadable \/ None \in seen[c])
    \/ /\ j.op = "write"
       /\ r = "failed" \/ (r = "done" /\ j.arg \in seen[c])
    \/ /\ j.op = "remove"
       /\ (r = "failed" /\ j.bad) \/ (r \in {"done", "missing"} /\ None \in seen[c])

Finish(c) ==
    /\ job[c].op # "rest"
    /\ \E r \in Content \cup {Garbled, "failed", "done", "missing", "died"} :
          /\ Allowed(c, r)
          /\ job' = [job EXCEPT ![c] = Resting(r)]
          /\ known' = [known EXCEPT ![job[c].key] =
                IF r \in Content \cup {Garbled} THEN @ \cup {r} ELSE @]
    /\ seen' = [seen EXCEPT ![c] = {}]
    /\ contested' = contested \ {c}
    /\ UNCHANGED content

ObjNext == \E c \in Client : Start(c) \/ Change(c) \/ Trouble(c) \/ Finish(c)

ObjSpec == ObjInit /\ [][ObjNext]_avars

=============================================================================
