--------------------------- MODULE StorageObjects ---------------------------
(***************************************************************************)
(* The storage layer: a block or the metadata backup of a version is kept  *)
(* as two objects, the data and "<key>.meta" (class StorageBase), in a     *)
(* directory, a B2 bucket or an S3 bucket, through a chain of transforms.  *)
(*                                                                         *)
(* Every operation on one object is a step of the thread that makes it;    *)
(* between two steps other threads and processes work on the same key.     *)
(* A bucket keeps one version of an object per name.                       *)
(***************************************************************************)
EXTENDS Integers, Sequences, FiniteSets

CONSTANTS
    Block, Version, Client, Content, None, Garbled, Unreadable,
    Module,     \* the storage module of a key: "file", "b2" or "s3"
    Chain,      \* activeTransforms: a sequence of "zstd" and "aes"
    Weight,     \* length of a content
    Small,      \* contents zstd makes shorter
    Attempts,   \* writeObjectAttempts and readObjectAttempts of b2
    CheckWrites,\* keys of storages with consistencyCheckWrites
    MaxCalls,   \* bound: calls of a behaviour
    MaxFaults   \* bound: errors of the storage, deaths, overridden locks

Key == Block \cup Version
Part == {"data", "meta"}

\* What is stored: the content under layers of transforms, and the metadata.
Layers == Seq([name : {"zstd", "aes"}, id : Nat])
DataObject == [text : Content \cup {Garbled}, id : Nat, layers : Layers, len : Nat]
MetaObject ==
    [size : Nat, object_size : Nat, checksum : Content \cup {Garbled}, transforms : Layers, id : Nat]

\* None and the outcomes of calls are no contents, keys or objects.
Outcomes == {"none", "new", "failed", "done", "missing", "died"}

ASSUME StorageAssumption ==
    /\ Block \cap Version = {}
    /\ Module \in [Key -> {"file", "b2", "s3"}]
    /\ Unreadable = {k \in Key : Module[k] = "s3"}
    /\ Chain \in Seq({"zstd", "aes"})
    /\ Weight \in [Content -> Nat \ {0, 1}] /\ Small \subseteq Content
    /\ Attempts \in Nat \ {0} /\ CheckWrites \subseteq Key
    /\ MaxCalls \in Nat /\ MaxFaults \in Nat
    /\ None \notin Content /\ Garbled \notin Content /\ None # Garbled
    /\ None \notin Key /\ None \notin DataObject /\ None \notin MetaObject
    /\ Outcomes \cap (Content \cup {Garbled}) = {}

VARIABLES
    object,      \* the two objects of a key
    cache,       \* diskcache of ReadCacheStorageBase
    job,         \* the call a client is in, or the outcome of its last one
    call,        \* where it is in that call
    calls,       \* number of calls so far, the id of the newest
    faults,      \* number of errors so far
    born,        \* blocks whose uid was used: a uid is used for one write
    named,       \* blocks with a row: the backup saw their write end
    seen, known, contested, \* history, as in ObjectStore
    marred       \* history: keys a call left behind when it died, could not
                 \* clean up or worked without the lock

vars == <<object, cache, job, call, calls, faults, born, named, seen, known, contested, marred>>

-----------------------------------------------------------------------------
(* Transforms.  Data remembers its layers; aes draws a new envelope key and *)
(* iv for every call, for which the id of the call stands.                  *)

\* zstd compresses when that makes the data shorter, which it does not for
\* encrypted data; otherwise it returns None and _encapsulate skips it.
Zstd(d, id) ==
    IF d.text \in Small /\ d.layers = <<>>
    THEN [d EXCEPT !.layers = Append(@, [name |-> "zstd", id |-> id]), !.len = @ - 1]
    ELSE d

Aes(d, id) == [d EXCEPT !.layers = Append(@, [name |-> "aes", id |-> id])]

Encapsulate(c, id) ==
    LET plain == [text |-> c, id |-> id, layers |-> <<>>, len |-> Weight[c]]
        f[i \in 0 .. Len(Chain)] ==
            IF i = 0 THEN plain
            ELSE IF Chain[i] = "zstd" THEN Zstd(f[i - 1], id) ELSE Aes(f[i - 1], id)
    IN  f[Len(Chain)]

Outermost(d, t) == d.text # Garbled /\ d.layers # <<>> /\ d.layers[Len(d.layers)] = t
Peeled(d) == [d EXCEPT !.layers = SubSeq(@, 1, Len(@) - 1)]

\* zstd fails on what is not its output ...
UnZstd(d, t) == IF Outermost(d, t) THEN Peeled(d) ELSE None

\* ... while aes decrypts with whatever key it is given and verifies nothing.
UnAes(d, t) ==
    IF Outermost(d, t) THEN Peeled(d) ELSE [d EXCEPT !.text = Garbled, !.layers = <<>>]

Decapsulate(d, transforms) ==
    LET n == Len(transforms)
        f[i \in 0 .. n] ==
            LET t == transforms[n - i + 1] IN
            IF i = 0 THEN d
            ELSE IF f[i - 1] = None THEN None
            ELSE IF t.name = "zstd" THEN UnZstd(f[i - 1], t) ELSE UnAes(f[i - 1], t)
    IN  f[n]

\* _build_metadata; the checksum and the HMAC stand for what they are made of.
BuildMetadata(c, d) ==
    [size |-> Weight[c], object_size |-> d.len, checksum |-> c,
     transforms |-> d.layers, id |-> d.id]

\* A metadata object cut short: no JSON, or one with a wrong digest.
Torn == [size |-> 0, object_size |-> 0, checksum |-> Garbled, transforms |-> <<>>, id |-> 0]

\* _decode_metadata accepts it.
DecodeMetadata(m, length) == m # Torn /\ m.object_size = length

\* What _read and read_version make of two objects.  Data and metadata of two
\* different writes that pass every check are Garbled.
Decode(k, d, m) ==
    IF d = None \/ m = None THEN None
    ELSE IF ~ DecodeMetadata(m, d.len) THEN None
    ELSE LET p == Decapsulate(d, m.transforms) IN
         IF p = None THEN None
         ELSE LET whole == p.text # Garbled /\ d.id = m.id
                  length == IF p.text = Garbled THEN d.len ELSE Weight[p.text]
              IN  IF k \in Version /\ length # m.size THEN None
                  ELSE IF whole THEN p.text ELSE Garbled

Readable(k) == Decode(k, object[k].data, object[k].meta)

-----------------------------------------------------------------------------
(* Steps.                                                                  *)

Resting(r) == [op |-> "rest", key |-> None, arg |-> None, bad |-> FALSE, res |-> r]
Idle == [id |-> 0, mode |-> {}, pc |-> "none", part |-> "data", got |-> None, try |-> 0]

Init ==
    /\ object = [k \in Key |-> [p \in Part |-> None]]
    /\ cache = [k \in Block |-> [p \in Part |-> None]]
    /\ job = [c \in Client |-> Resting("new")]
    /\ call = [c \in Client |-> Idle]
    /\ calls = 0 /\ faults = 0
    /\ born = {} /\ named = {} /\ marred = {}
    /\ seen = [c \in Client |-> {}]
    /\ known = [k \in Key |-> {}]
    /\ contested = {}

At(c, pc) == job[c].op # "rest" /\ call[c].pc = pc
\* Storage._read_object of s3 calls get() of the bucket, which has no such
\* method: it raises AttributeError whatever it is asked for.
S3(c) == Module[job[c].key] = "s3"
Held(c) == object[job[c].key][call[c].part]

\* The history variables follow the step.
Record ==
    /\ seen' = [c \in Client |->
          IF job'[c].op = "rest" THEN {}
          ELSE LET k == job'[c].key
               IN  seen[c] \cup {Decode(k, object'[k].data, object'[k].meta)}]
    /\ known' = [k \in Key |-> known[k] \cup
          {job'[c].res : c \in {d \in Client :
              job[d].key = k /\ job'[d].res \in Content \cup {Garbled}}}]
    /\ contested' = {c \in Client : job'[c].op # "rest" /\
          \/ c \in contested
          \/ /\ job'[c].key \in Version
             /\ \E d \in Client \ {c} : job'[d].op # "rest" /\ job'[d].key = job'[c].key}

Store(c, v) == object' = [object EXCEPT ![job[c].key][call[c].part] = v]

Return(c, r) ==
    /\ job' = [job EXCEPT ![c] = Resting(r)]
    /\ call' = [call EXCEPT ![c] = Idle]
Keeping(c, pc, part, v) ==
    /\ call' = [call EXCEPT ![c] = [@ EXCEPT !.pc = pc, !.part = part, !.try = 0, !.got = v]]
    /\ UNCHANGED job
Goto(c, pc, part) == Keeping(c, pc, part, call[c].got)
\* An exception of the storage, handled at pc.
Except(c, pc, part) ==
    /\ call' = [call EXCEPT ![c] = [@ EXCEPT !.pc = pc, !.part = part, !.try = 0]]
    /\ job' = [job EXCEPT ![c].bad = TRUE]
TryAgain(c) ==
    /\ call' = [call EXCEPT ![c].try = @ + 1]
    /\ job' = [job EXCEPT ![c].bad = TRUE]

NoFault == UNCHANGED faults
Fault == faults < MaxFaults /\ faults' = faults + 1
Mar(c, m) == marred' = IF m THEN marred \cup {job[c].key} ELSE marred

Enter(c, op, k, a, mode, pc) ==
    /\ job[c].op = "rest" /\ job[c].res # "died"
    /\ calls < MaxCalls /\ calls' = calls + 1
    /\ job' = [job EXCEPT ![c] =
          [op |-> op, key |-> k, arg |-> a, bad |-> FALSE, res |-> "none"]]
    /\ call' = [call EXCEPT ![c] = [Idle EXCEPT !.id = calls + 1, !.mode = mode, !.pc = pc]]
    /\ UNCHANGED <<object, cache>>

\* The operations on a version hold its lock; an override, or one made while a
\* dead process still appears to hold it, is a fault.
Locked(k) == \E c \in Client : job[c].op # "rest" /\ job[c].key = k
LockVersion(k) ==
    IF Locked(k) THEN Fault /\ marred' = marred \cup {k} ELSE NoFault /\ UNCHANGED marred

-----------------------------------------------------------------------------
(* Calls.                                                                  *)

\* write_block, write_block_async: _write with the uid of a new block.
WriteBlock(c, k, a) ==
    /\ k \notin born /\ born' = born \cup {k}
    /\ Enter(c, "write", k, a, {}, "put")
    /\ NoFault /\ UNCHANGED marred

\* write_version: without overwrite it looks for the data object first.
WriteVersion(c, k, a, overwrite) ==
    /\ LockVersion(k)
    /\ Enter(c, "write", k, a, {}, IF overwrite THEN "put" ELSE "probe")
    /\ UNCHANGED born

\* read_block, read_block_async of blocks a row names.  The caches are those of b2 and s3; deep-scrub does not look there.
ReadBlock(c, k, mode) ==
    /\ k \in named
    /\ Enter(c, "read", k, None, mode,
             IF Module[k] # "file" /\ "nocache" \notin mode THEN "cache" ELSE "get")
    /\ NoFault /\ UNCHANGED <<born, marred>>

ReadVersion(c, k) ==
    /\ LockVersion(k)
    /\ Enter(c, "read", k, None, {}, "get")
    /\ UNCHANGED born

RmBlock(c, k) ==
    /\ k \in named
    /\ Enter(c, "remove", k, None, {}, "look")
    /\ NoFault /\ UNCHANGED <<born, marred>>

RmVersion(c, k) ==
    /\ LockVersion(k)
    /\ Enter(c, "remove", k, None, {}, "look")
    /\ UNCHANGED born

\* The mode of a read: metadata_only, and use_read_cache(False).
Modes == SUBSET {"meta", "nocache"}

Begin(c) ==
    /\ \/ \E k \in Block :
             \/ \E a \in Content : WriteBlock(c, k, a)
             \/ \E mode \in Modes : ReadBlock(c, k, mode)
             \/ RmBlock(c, k)
       \/ \E k \in Version :
             \/ \E a \in Content, o \in BOOLEAN : WriteVersion(c, k, a, o)
             \/ ReadVersion(c, k)
             \/ RmVersion(c, k)
    /\ UNCHANGED named /\ Record

-----------------------------------------------------------------------------
(* Writing.                                                                *)

\* The object a write puts, and a prefix of it that a crash or an error leaves.
Payload(c) ==
    LET d == Encapsulate(job[c].arg, call[c].id)
    IN  IF call[c].part = "data" THEN d ELSE BuildMetadata(job[c].arg, d)
Prefixes(c) ==
    IF call[c].part = "meta" THEN {Torn}
    ELSE {[Payload(c) EXCEPT !.text = Garbled, !.len = n] : n \in 0 .. Payload(c).len - 1}

\* What follows the object that was just written.
Written(c) ==
    IF call[c].part = "data" THEN Goto(c, "put", "meta")
    ELSE IF job[c].key \in CheckWrites THEN Goto(c, "check", "data") ELSE Goto(c, "end", "data")

\* The loops over range(writeObjectAttempts) and range(readObjectAttempts) of b2.
Retried(c) == Module[job[c].key] = "b2" /\ call[c].try + 1 < Attempts

\* write_version without overwrite: any data object that is there, whole or not,
\* refuses the write.  s3 raises on every read.
Probe(c) ==
    /\ At(c, "probe")
    /\ \/ /\ NoFault
          /\ IF Held(c) = None /\ ~ S3(c) THEN Goto(c, "put", "data") ELSE Return(c, "failed")
       \/ Fault /\ Except(c, "raise", "data")
    /\ UNCHANGED <<object, cache, calls, born, named, marred>> /\ Record

\* Storage._write_object of file: opening truncates an existing object, which
\* is filled afterwards.
FileWriteObject(c) ==
    /\ At(c, "put") /\ Module[job[c].key] = "file"
    /\ \E v \in Prefixes(c) : Store(c, v)
    /\ Goto(c, "fill", call[c].part)
    /\ UNCHANGED <<cache, calls, faults, born, named, marred>> /\ Record

FillObject(c) ==
    /\ At(c, "fill")
    /\ Store(c, Payload(c)) /\ Written(c)
    /\ UNCHANGED <<cache, calls, faults, born, named, marred>> /\ Record

\* Storage._write_object of s3 and of b2: a bucket replaces an object at once.
BucketWriteObject(c) ==
    /\ At(c, "put") /\ Module[job[c].key] # "file"
    /\ Store(c, Payload(c)) /\ Written(c)
    /\ UNCHANGED <<cache, calls, faults, born, named, marred>> /\ Record

\* Mutant: the objects of a write that failed are left.
WriteObjectFails_Leaves(c) ==
    /\ At(c, "put") \/ At(c, "fill")
    /\ Fault
    /\ \/ UNCHANGED object
       \/ At(c, "put") /\ Module[job[c].key] # "file" /\ Store(c, Payload(c))
    /\ IF Retried(c) THEN TryAgain(c) ELSE Except(c, "raise", "data")
    /\ UNCHANGED <<cache, calls, born, named, marred>> /\ Record

\* An error: nothing happened, or the answer of the bucket was lost.  b2 tries
\* again a limited number of times; then the two objects are removed.
WriteObjectFails(c) ==
    /\ At(c, "put") \/ At(c, "fill")
    /\ Fault
    /\ \/ UNCHANGED object
       \/ At(c, "put") /\ Module[job[c].key] # "file" /\ Store(c, Payload(c))
    /\ IF Retried(c)
         THEN TryAgain(c)
         ELSE Except(c, "look", "data")
    /\ UNCHANGED <<cache, calls, born, named, marred>> /\ Record

\* _check_write: reads the data back, then the metadata.  A difference or an
\* error leaves the objects as they are.
CheckWrite(c) ==
    LET d == Encapsulate(job[c].arg, call[c].id) IN
    /\ At(c, "check")
    /\ \/ /\ call[c].part = "data" /\ Held(c) # None /\ ~ S3(c) /\ NoFault
          /\ Keeping(c, "check", "meta", Held(c))
       \/ /\ call[c].part = "meta" /\ Held(c) # None /\ NoFault
          /\ IF DecodeMetadata(Held(c), call[c].got.len) /\ call[c].got = d
               THEN Goto(c, "end", "data") ELSE Return(c, "failed")
       \/ /\ Held(c) = None \/ S3(c)
          /\ NoFault
          /\ Return(c, "failed")
       \/ Fault /\ Except(c, "raise", "data")
    /\ UNCHANGED <<object, cache, calls, born, named, marred>> /\ Record

-----------------------------------------------------------------------------
(* Removing, by a call that removes or by the cleanup of a failed write.    *)

\* What follows a removal that found the object, did not find it, or raised.
\* _write leaves the metadata when the data is missing and the rest when a
\* removal fails; _rm_block removes the metadata in any case.
Removed(c, found) ==
    IF job[c].op = "write"
    THEN /\ IF found /\ call[c].part = "data" THEN Goto(c, "look", "meta") ELSE Goto(c, "raise", "data")
         /\ UNCHANGED marred
    ELSE /\ IF call[c].part = "data" THEN Keeping(c, "look", "meta", IF found THEN "found" ELSE None)
            ELSE Goto(c, "end", "data")
         /\ UNCHANGED marred

\* _rm_object: every module looks for the object first.
LookObject(c) ==
    /\ At(c, "look")
    /\ IF Held(c) = None THEN Removed(c, FALSE)
       ELSE /\ call' = [call EXCEPT ![c].pc = "delete", ![c].try = Held(c).id]
            /\ UNCHANGED <<job, marred>>
    /\ UNCHANGED <<object, cache, calls, faults, born, named>> /\ Record

Deletes(c, gone, found) ==
    /\ IF gone THEN Store(c, None) ELSE UNCHANGED object
    /\ Removed(c, found)
    /\ UNCHANGED <<cache, calls, faults, born, named>> /\ Record

\* Then it deletes it.  unlink() fails when the file has gone since, ...
FileRmObject(c) == At(c, "delete") /\ Module[job[c].key] = "file" /\ Deletes(c, TRUE, Held(c) # None)

\* ... delete() of s3 never does, ...
S3RmObject(c) == At(c, "delete") /\ Module[job[c].key] = "s3" /\ Deletes(c, TRUE, TRUE)

\* ... and b2 deletes the very version it has found.
B2RmObject(c) ==
    /\ At(c, "delete") /\ Module[job[c].key] = "b2"
    /\ Deletes(c, Held(c) # None /\ Held(c).id = call[c].try, Held(c) # None)

RmObjectFails(c) ==
    /\ At(c, "look") \/ At(c, "delete")
    /\ Fault
    /\ IF job[c].op = "remove" /\ call[c].part = "data"
         THEN Except(c, "look", "meta")
         ELSE Except(c, "raise", "data")
    /\ marred' = marred \cup {job[c].key}
    /\ UNCHANGED <<object, cache, calls, born, named>> /\ Record

-----------------------------------------------------------------------------
(* Reading.                                                                *)

\* ReadCacheStorageBase._read: the cache answers, or the storage is asked.
ReadCache(c) ==
    LET e == cache[job[c].key] IN
    /\ At(c, "cache")
    /\ IF e["meta"] # None /\ "meta" \in call[c].mode THEN Return(c, e["meta"].checksum)
       ELSE IF e["meta"] # None /\ e["data"] # None THEN Return(c, e["data"])
       ELSE Goto(c, "get", "data")
    /\ UNCHANGED <<object, cache, calls, faults, born, named, marred>> /\ Record

\* _read, read_version: the data object, or only its length.  s3 can tell the
\* length and raises on everything else.
ReadData(c) ==
    /\ At(c, "get") /\ call[c].part = "data"
    /\ IF Held(c) = None \/ (S3(c) /\ "meta" \notin call[c].mode)
         THEN Return(c, "failed")
         ELSE Keeping(c, "get", "meta", Held(c))
    /\ UNCHANGED <<object, cache, calls, faults, born, named, marred>> /\ Record

\* Mutant: data without a metadata object is returned.
Answer_WithoutMetadata(c) ==
    IF S3(c) THEN None
    ELSE IF Held(c) = None THEN call[c].got.text
    ELSE IF "meta" \in call[c].mode
         THEN IF DecodeMetadata(Held(c), call[c].got.len) THEN Held(c).checksum ELSE None
         ELSE Decode(job[c].key, call[c].got, Held(c))

\* The content, or the checksum in the metadata when only that was read.
Answer(c) ==
    IF Held(c) = None \/ S3(c) THEN None
    ELSE IF "meta" \in call[c].mode
         THEN IF DecodeMetadata(Held(c), call[c].got.len) THEN Held(c).checksum ELSE None
         ELSE Decode(job[c].key, call[c].got, Held(c))

\* ... then the metadata object, the checks and the transforms; a block that
\* was read is put in the cache.
ReadMeta(c) ==
    LET k == job[c].key
        a == Answer(c)
    IN
    /\ At(c, "get") /\ call[c].part = "meta"
    /\ Return(c, IF a = None THEN "failed" ELSE a)
    /\ cache' = IF a # None /\ k \in Block /\ Module[k] # "file"
                  THEN [cache EXCEPT ![k] = [meta |-> Held(c),
                          data |-> IF "meta" \in call[c].mode THEN @["data"] ELSE a]]
                  ELSE cache
    /\ UNCHANGED <<object, calls, faults, born, named, marred>> /\ Record

ReadObjectFails(c) ==
    /\ At(c, "get") /\ Fault
    /\ IF Retried(c) THEN TryAgain(c)
                     ELSE Except(c, "raise", "data")
    /\ UNCHANGED <<object, cache, calls, born, named, marred>> /\ Record

\* The call returns: a block that was written is named by a row from now on.
\* A removal reports an error, or that the data object was missing.
End(c) ==
    LET j == job[c] IN
    /\ At(c, "end")
    /\ IF j.op = "write" THEN Return(c, "done")
       ELSE Return(c, IF j.bad THEN "failed" ELSE IF call[c].got = None THEN "missing" ELSE "done")
    /\ named' = IF j.op = "write" THEN named \cup ({j.key} \cap Block) ELSE named
    /\ UNCHANGED <<object, cache, calls, faults, born, marred>> /\ Record

\* The exception leaves the call.
Raise(c) ==
    /\ At(c, "raise") /\ Return(c, "failed")
    /\ UNCHANGED <<object, cache, calls, faults, born, named, marred>> /\ Record

\* diskcache drops an entry.
Evict(k) ==
    /\ \E p \in Part : cache[k][p] # None /\ cache' = [cache EXCEPT ![k][p] = None]
    /\ UNCHANGED <<object, job, call, calls, faults, born, named, seen, known, contested, marred>>

\* The process dies.
Die(c) ==
    /\ job[c].op # "rest" /\ Fault
    /\ Return(c, "died") /\ marred' = marred \cup {job[c].key}
    /\ UNCHANGED <<object, cache, calls, born, named>> /\ Record

Step(c) ==
    \/ Probe(c) \/ FileWriteObject(c) \/ FillObject(c) \/ BucketWriteObject(c)
    \/ CheckWrite(c)
    \/ LookObject(c) \/ FileRmObject(c) \/ S3RmObject(c) \/ B2RmObject(c)
    \/ ReadCache(c) \/ ReadData(c) \/ ReadMeta(c) \/ End(c) \/ Raise(c)
Fails(c) == WriteObjectFails(c) \/ RmObjectFails(c) \/ ReadObjectFails(c)

Next ==
    \/ \E c \in Client : Begin(c) \/ Step(c) \/ Fails(c) \/ Die(c)
    \/ \E k \in Block : Evict(k)

Spec == Init /\ [][Next]_vars

-----------------------------------------------------------------------------
(* Properties.                                                             *)

TypeOK ==
    /\ \A k \in Key : /\ object[k]["data"] \in DataObject \cup {None}
                      /\ object[k]["meta"] \in MetaObject \cup {None}
    /\ \A c \in Client :
          /\ job[c].op \in {"rest", "read", "write", "remove"}
          /\ job[c].key \in Key \cup {None} /\ call[c].part \in Part
          /\ call[c].try \in Nat /\ job[c].bad \in BOOLEAN
    /\ calls \in 0 .. MaxCalls /\ faults \in 0 .. MaxFaults
    /\ born \subseteq Block /\ marred \subseteq Key

\* The storage layer is a regular store: StorageBase.write_*, read_* and rm_*
\* keep the promises of ObjectStore although each works on two objects.
Abstract ==
    INSTANCE ObjectStore WITH content <- [k \in Key |-> Readable(k)]

IsRegularStore == Abstract!ObjSpec

\* When no call works on a key, its data and its metadata object are both there
\* or both gone, unless a process died over it, the cleanup or a removal failed,
\* or the lock of the version was overridden (base.py _write, _rm_block).
Paired(k) == (object[k]["data"] = None) = (object[k]["meta"] = None)
NoHalfObjects == TypeOK /\ \A k \in Key : Locked(k) \/ Paired(k) \/ k \in marred

=============================================================================
