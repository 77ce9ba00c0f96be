--------------------------- MODULE IoModulesProofs ---------------------------
(***************************************************************************)
(* Proofs about IoModules, for any number of blocks, of simultaneous       *)
(* requests and of faults, and whatever hints, versions and storages make  *)
(* of the blocks.                                                          *)
(***************************************************************************)
EXTENDS IoModules, SequenceTheorems, FiniteSetTheorems, TLAPS
-----------------------------------------------------------------------------
(* The inductive invariant.                                                *)

\* The job has opened its device: before, and if it is refused, nothing is
\* queued and nothing written.
Begun == pc \notin {"new", "open"} /\ result # "refused"

\* The calling thread is in a loop.
Looping == pc \in {"loop", "poll", "collect"}

\* The blocks a loop asks its device for, and those it has asked for.
Asks ==
    CASE phase = "check" -> Planned("check")
      [] phase = "backup" -> Planned("read")
      [] phase = "scrub" -> Idx
      [] phase = "sparse" -> IF setup.sparse THEN {} ELSE Planned("sparse")
      [] phase = "data" -> Planned("data") \cup Planned("badmeta")

Asked == Asks \ todo

\* No element of s occurs twice, and no two answers of s are about one block.
Once(s) == \A a, b \in DOMAIN s : s[a] = s[b] => a = b
Apart(s) == \A a, b \in DOMAIN s : s[a].data = s[b].data => a = b
Datas(A) == {e.data : e \in A}

\* Where a block that was asked for is.
Open == {f \in flying : ~f.put}
Waiting == Range(queue)
InFlight == {f.block : f \in Open}
Completed == Datas(Range(done))
Delivered == Datas(got)

\* The calling thread and the loop it is in fit what the job is.
Control ==
    /\ setup \in Setups
    /\ Looping => result = "none"
    /\ pc \in {"new", "open"} => result = "none"
    /\ pc \in {"close", "end"} => result # "none"
    /\ pc = "close" => result # "refused"
    /\ pc = "poll" => ~Reading
    /\ pc = "collect" => todo = {}
    /\ Begun => (phase = "scrub" <=> setup.task = "scrub")
                /\ (phase \in {"check", "backup"} <=> setup.task = "backup")
    /\ setup.size = "small" /\ kind # "iscsi" => ~Begun
    /\ ~Begun => queue = <<>> /\ flying = {} /\ done = <<>> /\ got = {} /\ count = 0
                 /\ jobs = 0 /\ todo = {}
    /\ phase \in {"check", "backup"} => todo \subseteq Asks
    /\ phase = "sparse" /\ setup.sparse => todo = {}
    /\ phase = "data" => todo \cap Planned("sparse") = {}
    /\ kind = "iscsi" \/ phase = "scrub" => flying = {} /\ done = <<>>
    /\ phase = "scrub" => queue = <<>> /\ submit = "out"
    /\ submit # "out" => kind = "rbdaio" /\ Looping
    /\ submit \in {"in", "ready"} => pc # "loop"
    /\ Reading \/ Pooled => \A f \in flying : ~f.put
    /\ pc = "end" /\ ~Reading => flying = {} /\ (Pooled => queue = <<>>)
    /\ kind = "iscsi" /\ ~Reading /\ pc = "loop" /\ queue # <<>> =>
          Planned("badmeta") # {}

\* No two requests of F are for one block.
Lone(F) == \A f, g \in F : f.block = g.block => f = g

\* A block is in one place, and while the loop goes on none is lost.
Places ==
    /\ Once(queue) /\ Apart(done) /\ Lone(Open)
    /\ \A d, e \in got : d.data = e.data => d = e
    /\ Waiting \cap InFlight = {} /\ Waiting \cap Completed = {}
    /\ Waiting \cap Delivered = {} /\ InFlight \cap Completed = {}
    /\ InFlight \cap Delivered = {} /\ Completed \cap Delivered = {}
    /\ Waiting \cup InFlight \cup Completed \cup Delivered \subseteq Asked
    /\ Looping => Asked \subseteq Waiting \cup InFlight \cup Completed \cup Delivered

\* The counters of the loops count blocks.
Counts ==
    /\ IsFiniteSet(flying)
    /\ Begun => jobs = Cardinality(Asked)
    /\ count = Cardinality(got)

\* rbdaio: at most one request is submitted in a call of _submit_aio_reads, so
\* that no callback finds the block of another in the variable they share.
Full == queue = <<>> \/ Outstanding >= setup.sim
Nearly == queue = <<>> \/ Outstanding >= setup.sim - 1
NoneMine == \A f \in flying : ~f.mine

Frames ==
    kind = "rbdaio" /\ Reading /\ Looping =>
        /\ submit = "called" => Full \/ (NoneMine /\ Len(queue) = 1)
        /\ submit = "in" => Full \/ (NoneMine /\ Nearly)
        /\ submit = "ready" => Full
        /\ submit = "out" => IF pc = "loop" THEN Full ELSE Nearly

\* What the device has answered is about the block that was asked for, and an
\* answer that is too short is about the block the source ends in.
Answers ==
    /\ Reading => /\ \A f \in flying : f.name = f.block
                  /\ \A e \in Range(done) \cup got : e.name = e.data
    /\ \A e \in Range(done) \cup got : e.how = "short" =>
          Reading /\ (Pooled \/ phase = "scrub") /\ e.data = cut
    /\ \A e \in got : e.how # "error"

\* Why a request may fail.
Cause ==
    \/ faults > 0 \/ cut # Beyond
    \/ kind = "iscsi" /\ \/ setup.short \/ setup.size = "small"
                          \/ Planned("badmeta") # {}
    \/ /\ kind \in Rbd /\ setup.short /\ setup.plan[End] = "sparse"
       /\ ~setup.sparse /\ setup.size \in {"none", "exact"}

Causes ==
    /\ result = "failed" => Cause
    /\ (\E e \in Range(done) : e.how = "error") => Cause

\* What a restore has written in its current loop, and what it has left on the
\* target so far.
Wrote == Datas({e \in Range(done) \cup got : e.how = "whole"})

Zeroed(c) ==
    ~setup.sparse /\ \/ c \in Planned("sparse")
                     \/ c = Beyond /\ setup.short /\ End \in Planned("sparse")

SoFar ==
    IF phase = "sparse"
    THEN [c \in Cell |-> IF c \in Wrote \/ (c = Beyond /\ setup.short /\ End \in Wrote)
                         THEN "zero" ELSE Opened[c]]
    ELSE [c \in Cell |-> IF c \in Wrote THEN "data"
                         ELSE IF Zeroed(c) THEN "zero" ELSE Opened[c]]

Media ==
    /\ ~Begun => medium = Found(setup)
    /\ ~Reading /\ Looping => medium = SoFar

\* A job that has ended well has nothing left to do.
Endings ==
    result = "ok" =>
        /\ queue = <<>> /\ Open = {} /\ done = <<>> /\ submit = "out"
        /\ setup.task = "backup" => Delivered = Planned("read")
        /\ setup.task = "restore" => medium = Expected

IInv ==
    /\ TypeOK /\ Control /\ Places /\ Counts /\ Frames /\ Answers /\ Causes
    /\ Media /\ Endings

-----------------------------------------------------------------------------
(* Sequences.                                                              *)

\* A sequence that gets one more element at its end.
LEMMA Appended ==
    ASSUME NEW S, NEW s \in Seq(S), NEW x \in S
    PROVE  /\ Append(s, x) \in Seq(S)
           /\ Len(Append(s, x)) = Len(s) + 1
           /\ Append(s, x) # <<>>
           /\ Range(Append(s, x)) = Range(s) \cup {x}
           /\ \A a \in DOMAIN Append(s, x) :
                 \/ a \in DOMAIN s /\ Append(s, x)[a] = s[a]
                 \/ a = Len(s) + 1 /\ Append(s, x)[a] = x
           /\ Append(s, x)[Len(s) + 1] = x /\ Len(s) + 1 \in DOMAIN Append(s, x)
<1>1. /\ Append(s, x) \in Seq(S) /\ Len(Append(s, x)) = Len(s) + 1
      /\ Len(s) \in Nat /\ DOMAIN s = 1..Len(s) /\ Append(s, x)[Len(s) + 1] = x
      /\ DOMAIN Append(s, x) = 1..(Len(s) + 1)
      /\ \A a \in 1..Len(s) : Append(s, x)[a] = s[a]
  OBVIOUS
<1>2. Append(s, x) # <<>>
  BY <1>1
<1>3. \A a \in DOMAIN Append(s, x) :
          \/ a \in DOMAIN s /\ Append(s, x)[a] = s[a]
          \/ a = Len(s) + 1 /\ Append(s, x)[a] = x
  BY <1>1
<1>4. \A a \in DOMAIN s : a \in DOMAIN Append(s, x) /\ Append(s, x)[a] = s[a]
  BY <1>1
<1>5. Len(s) + 1 \in DOMAIN Append(s, x)
  BY <1>1
<1>6. Range(Append(s, x)) = Range(s) \cup {x}
  BY <1>1, <1>3, <1>4, <1>5, Zenon DEF Range
<1> QED
  BY <1>1, <1>2, <1>3, <1>5, <1>6

\* A sequence t that has lost element k of s.
Lost(s, k, t) ==
    /\ Len(t) = Len(s) - 1
    /\ \A j \in 1..Len(t) : t[j] = s[IF j < k THEN j ELSE j + 1]

LEMMA Remaining ==
    ASSUME NEW S, NEW s \in Seq(S), NEW k \in DOMAIN s, NEW t \in Seq(S), Lost(s, k, t)
    PROVE  /\ \A a, b \in DOMAIN t : \E c, d \in DOMAIN s :
                 t[a] = s[c] /\ t[b] = s[d] /\ c # k /\ d # k /\ (c = d => a = b)
           /\ \A c \in DOMAIN s : c = k \/ s[c] \in Range(t)
           /\ Range(t) \subseteq Range(s)
           /\ s[k] \in Range(s)
<1> DEFINE I(j) == IF j < k THEN j ELSE j + 1
<1>1. /\ Len(s) \in Nat /\ DOMAIN s = 1..Len(s) /\ Len(t) \in Nat
      /\ DOMAIN t = 1..Len(t) /\ Len(t) = Len(s) - 1 /\ k \in Int
  BY DEF Lost
<1>2. ASSUME NEW a \in DOMAIN t PROVE I(a) \in DOMAIN s /\ I(a) # k /\ t[a] = s[I(a)]
  BY <1>1, <1>2 DEF Lost
<1>3. ASSUME NEW a \in DOMAIN t, NEW b \in DOMAIN t, I(a) = I(b) PROVE a = b
  BY <1>1, <1>3
<1>4. ASSUME NEW c \in DOMAIN s, c # k PROVE \E j \in DOMAIN t : I(j) = c
  <2>1. CASE c < k
    <3>1. c \in DOMAIN t /\ I(c) = c
      BY <1>1, <2>1
    <3> QED
      BY <3>1
  <2>2. CASE c > k
    <3>1. c - 1 \in DOMAIN t /\ I(c - 1) = c
      BY <1>1, <2>2
    <3> QED
      BY <3>1
  <2> QED
    BY <1>1, <1>4, <2>1, <2>2
<1> HIDE DEF I
<1>5. \A a, b \in DOMAIN t : \E c, d \in DOMAIN s :
          t[a] = s[c] /\ t[b] = s[d] /\ c # k /\ d # k /\ (c = d => a = b)
  <2> SUFFICES ASSUME NEW a \in DOMAIN t, NEW b \in DOMAIN t
               PROVE  \E c, d \in DOMAIN s :
                         t[a] = s[c] /\ t[b] = s[d] /\ c # k /\ d # k /\ (c = d => a = b)
    OBVIOUS
  <2>1. /\ I(a) \in DOMAIN s /\ I(a) # k /\ t[a] = s[I(a)]
        /\ I(b) \in DOMAIN s /\ I(b) # k /\ t[b] = s[I(b)]
        /\ I(a) = I(b) => a = b
    BY <1>2, <1>3
  <2> QED
    BY <2>1, Zenon
<1>6. ASSUME NEW c \in DOMAIN s, c # k PROVE s[c] \in Range(t)
  <2>1. PICK j \in DOMAIN t : I(j) = c
    BY <1>4, <1>6
  <2>2. t[j] = s[c]
    BY <1>2, <2>1
  <2> QED
    BY <2>2 DEF Range
<1>7. Range(t) \subseteq Range(s) /\ s[k] \in Range(s)
  BY <1>2 DEF Range
<1> QED
  BY <1>5, <1>6, <1>7, Zenon

LEMMA TailLoses ==
    ASSUME NEW S, NEW s \in Seq(S), s # <<>>
    PROVE  /\ Tail(s) \in Seq(S) /\ Head(s) = s[1] /\ 1 \in DOMAIN s
           /\ Head(s) \in S /\ Lost(s, 1, Tail(s))
<1>1. /\ Tail(s) \in Seq(S) /\ Len(Tail(s)) = Len(s) - 1 /\ Head(s) = s[1]
      /\ Len(s) \in Nat /\ Len(s) > 0 /\ DOMAIN s = 1..Len(s)
      /\ \A j \in 1..(Len(s) - 1) : Tail(s)[j] = s[j + 1]
  OBVIOUS
<1> QED
  BY <1>1 DEF Lost

LEMMA FrontLoses ==
    ASSUME NEW S, NEW s \in Seq(S), s # <<>>
    PROVE  /\ Front(s) \in Seq(S) /\ Len(s) \in DOMAIN s
           /\ Last(s) = s[Len(s)] /\ Last(s) \in S /\ Lost(s, Len(s), Front(s))
<1>1. Len(s) \in Nat /\ Len(s) > 0 /\ DOMAIN s = 1..Len(s)
      /\ \A j \in 1..Len(s) : s[j] \in S
  OBVIOUS
<1>2. /\ SubSeq(s, 1, Len(s) - 1) \in Seq(S)
      /\ Len(SubSeq(s, 1, Len(s) - 1)) = Len(s) - 1
      /\ \A j \in 1..(Len(s) - 1) : SubSeq(s, 1, Len(s) - 1)[j] = s[j]
  BY <1>1
<1> QED
  BY <1>1, <1>2 DEF Front, Last, Lost

LEMMA RemoveAtLoses ==
    ASSUME NEW S, NEW s \in Seq(S), NEW k \in DOMAIN s
    PROVE  RemoveAt(s, k) \in Seq(S) /\ s[k] \in S /\ Lost(s, k, RemoveAt(s, k))
<1> DEFINE u == SubSeq(s, 1, k - 1)
           v == SubSeq(s, k + 1, Len(s))
<1>1. /\ Len(s) \in Nat /\ DOMAIN s = 1..Len(s) /\ k \in 1..Len(s)
      /\ \A j \in 1..Len(s) : s[j] \in S
  OBVIOUS
<1>2. u \in Seq(S) /\ Len(u) = k - 1 /\ \A j \in 1..(k - 1) : u[j] = s[j]
  <2>1. k - 1 \in Int /\ \A j \in 1..(k - 1) : s[j] \in S
    BY <1>1
  <2>2. /\ SubSeq(s, 1, k - 1) \in Seq(S)
        /\ Len(SubSeq(s, 1, k - 1)) = IF 1 <= k - 1 THEN k - 1 - 1 + 1 ELSE 0
        /\ \A j \in 1..(k - 1 - 1 + 1) : SubSeq(s, 1, k - 1)[j] = s[1 + j - 1]
    BY ONLY <2>1, SubSeqProperties
  <2>3. \A j \in 1..(k - 1) : 1 + j - 1 = j
    BY <1>1
  <2>4. 1..(k - 1 - 1 + 1) = 1..(k - 1) /\ k - 1 - 1 + 1 = k - 1
    BY <1>1
  <2>5. ~(1 <= k - 1) => k - 1 = 0
    BY <1>1
  <2> QED
    BY <2>2, <2>3, <2>4, <2>5
<1>3. v \in Seq(S) /\ Len(v) = Len(s) - k /\ \A j \in 1..(Len(s) - k) : v[j] = s[k + j]
  <2>1. k + 1 \in Int /\ Len(s) \in Int /\ \A j \in (k + 1)..Len(s) : s[j] \in S
    BY <1>1
  <2>2. /\ SubSeq(s, k + 1, Len(s)) \in Seq(S)
        /\ Len(SubSeq(s, k + 1, Len(s)))
              = IF k + 1 <= Len(s) THEN Len(s) - (k + 1) + 1 ELSE 0
        /\ \A j \in 1..(Len(s) - (k + 1) + 1) :
              SubSeq(s, k + 1, Len(s))[j] = s[(k + 1) + j - 1]
    BY ONLY <2>1, SubSeqProperties
  <2>3. \A j \in 1..(Len(s) - k) : (k + 1) + j - 1 = k + j
    BY <1>1
  <2>4. 1..(Len(s) - (k + 1) + 1) = 1..(Len(s) - k) /\ Len(s) - (k + 1) + 1 = Len(s) - k
    BY <1>1
  <2>5. ~(k + 1 <= Len(s)) => Len(s) - k = 0
    BY <1>1
  <2> QED
    BY <2>2, <2>3, <2>4, <2>5
<1>7. k - 1 \in Nat /\ Len(s) - k \in Nat /\ (k - 1) + (Len(s) - k) = Len(s) - 1
  BY <1>1
<1> HIDE DEF u, v
<1>4. /\ u \o v \in Seq(S) /\ Len(u \o v) = Len(s) - 1
      /\ \A j \in 1..(Len(s) - 1) :
            (u \o v)[j] = IF j <= k - 1 THEN u[j] ELSE v[j - (k - 1)]
  <2>1. /\ u \o v \in Seq(S) /\ Len(u \o v) = Len(u) + Len(v)
        /\ \A j \in 1..(Len(u) + Len(v)) :
              (u \o v)[j] = IF j <= Len(u) THEN u[j] ELSE v[j - Len(u)]
    BY <1>2, <1>3, ConcatProperties
  <2> QED
    BY <1>2, <1>3, <1>7, <2>1
<1>5. ASSUME NEW j \in 1..(Len(s) - 1) PROVE (u \o v)[j] = s[IF j < k THEN j ELSE j + 1]
  <2>1. CASE j <= k - 1
    BY <1>1, <1>2, <1>4, <2>1
  <2>2. CASE j > k - 1
    <3>1. j - (k - 1) \in 1..(Len(s) - k) /\ k + (j - (k - 1)) = j + 1 /\ ~(j < k)
      BY <1>1, <2>2
    <3>2. (u \o v)[j] = v[j - (k - 1)]
      BY <1>1, <1>4, <2>2
    <3> QED
      BY <1>3, <3>1, <3>2
  <2> QED
    <3>1. j <= k - 1 \/ j > k - 1
      BY <1>1
    <3> QED
      BY <2>1, <2>2, <3>1
<1>6. RemoveAt(s, k) = u \o v
  BY DEF RemoveAt, u, v
<1> QED
  BY <1>1, <1>4, <1>5, <1>6 DEF Lost

-----------------------------------------------------------------------------
(* Queues of blocks, sequences of answers and sets of requests.            *)

LEMMA QueueGrows ==
    ASSUME NEW s \in Seq(Idx), Once(s), NEW i \in Idx, i \notin Range(s)
    PROVE  Once(Append(s, i))
<1>1. \A a \in DOMAIN s : s[a] # i
  BY DEF Range
<1>2. Once(Append(s, i))
  <2> DEFINE u == Append(s, i)
  <2>1. \A a \in DOMAIN u : (a \in DOMAIN s /\ u[a] = s[a]) \/ (a = Len(s) + 1 /\ u[a] = i)
    BY Appended
  <2> HIDE DEF u
  <2>2. Once(u)
    BY <1>1, <2>1 DEF Once
  <2> QED
    BY <2>2 DEF u
<1> QED
  BY <1>2

LEMMA QueueShrinks ==
    ASSUME NEW s \in Seq(Idx), Once(s), NEW k \in DOMAIN s, NEW t \in Seq(Idx),
           Lost(s, k, t)
    PROVE  Once(t) /\ Range(t) = Range(s) \ {s[k]}
<1>1. /\ \A a, b \in DOMAIN t : \E c, d \in DOMAIN s :
            t[a] = s[c] /\ t[b] = s[d] /\ c # k /\ d # k /\ (c = d => a = b)
      /\ \A c \in DOMAIN s : c = k \/ s[c] \in Range(t)
  BY Remaining
<1>2. Once(t)
  <2> SUFFICES ASSUME NEW a \in DOMAIN t, NEW b \in DOMAIN t, t[a] = t[b] PROVE a = b
    BY DEF Once
  <2>1. PICK c \in DOMAIN s, d \in DOMAIN s :
                t[a] = s[c] /\ t[b] = s[d] /\ c # k /\ d # k /\ (c = d => a = b)
    BY <1>1, Zenon
  <2> QED
    BY <2>1 DEF Once
<1>3. \A a \in DOMAIN t : \E c \in DOMAIN s : t[a] = s[c] /\ c # k
  BY <1>1, Zenon
<1>4. Range(t) \subseteq Range(s) \ {s[k]}
  <2> SUFFICES ASSUME NEW a \in DOMAIN t PROVE t[a] \in Range(s) \ {s[k]}
    BY DEF Range
  <2>1. PICK c \in DOMAIN s : t[a] = s[c] /\ c # k
    BY <1>3
  <2> QED
    BY <2>1 DEF Once, Range
<1>5. Range(s) \ {s[k]} \subseteq Range(t)
  BY <1>1, Zenon DEF Range
<1> QED
  BY <1>2, <1>4, <1>5

LEMMA AnswersGrow ==
    ASSUME NEW s \in Seq(Entry), Apart(s), NEW e \in Entry, e.data \notin Datas(Range(s))
    PROVE  Apart(Append(s, e)) /\ Datas(Range(Append(s, e))) = Datas(Range(s)) \cup {e.data}
<1>1. \A a \in DOMAIN s : s[a].data # e.data
  BY DEF Range, Datas
<1>2. Apart(Append(s, e))
  <2> DEFINE u == Append(s, e)
  <2>1. \A a \in DOMAIN u : (a \in DOMAIN s /\ u[a] = s[a]) \/ (a = Len(s) + 1 /\ u[a] = e)
    BY Appended
  <2> HIDE DEF u
  <2>2. Apart(u)
    BY <1>1, <2>1 DEF Apart
  <2> QED
    BY <2>2 DEF u
<1>3. Range(Append(s, e)) = Range(s) \cup {e}
  BY Appended
<1> QED
  BY <1>2, <1>3 DEF Datas

LEMMA AnswersShrink ==
    ASSUME NEW s \in Seq(Entry), Apart(s), NEW k \in DOMAIN s, NEW t \in Seq(Entry),
           Lost(s, k, t)
    PROVE  /\ Apart(t) /\ Datas(Range(t)) = Datas(Range(s)) \ {s[k].data}
           /\ Range(s) = Range(t) \cup {s[k]}
<1>1. /\ \A a, b \in DOMAIN t : \E c, d \in DOMAIN s :
            t[a] = s[c] /\ t[b] = s[d] /\ c # k /\ d # k /\ (c = d => a = b)
      /\ \A c \in DOMAIN s : c = k \/ s[c] \in Range(t)
      /\ Range(t) \subseteq Range(s) /\ s[k] \in Range(s)
  BY Remaining
<1>2. Apart(t)
  <2> SUFFICES ASSUME NEW a \in DOMAIN t, NEW b \in DOMAIN t, t[a].data = t[b].data
               PROVE a = b
    BY DEF Apart
  <2>1. PICK c \in DOMAIN s, d \in DOMAIN s :
                t[a] = s[c] /\ t[b] = s[d] /\ c # k /\ d # k /\ (c = d => a = b)
    BY <1>1, Zenon
  <2> QED
    BY <2>1 DEF Apart
<1>3. \A a \in DOMAIN t : \E c \in DOMAIN s : t[a] = s[c] /\ c # k
  BY <1>1, Zenon
<1>4. \A e \in Range(t) : e.data # s[k].data
  <2> SUFFICES ASSUME NEW a \in DOMAIN t PROVE t[a].data # s[k].data
    BY DEF Range
  <2>1. PICK c \in DOMAIN s : t[a] = s[c] /\ c # k
    BY <1>3
  <2> QED
    BY <2>1 DEF Apart
<1>5. Range(s) = Range(t) \cup {s[k]}
  <2>1. \A c \in DOMAIN s : s[c] = s[k] \/ s[c] \in Range(t)
    BY <1>1
  <2>2. Range(s) \subseteq Range(t) \cup {s[k]}
    BY <2>1, Zenon DEF Range
  <2> QED
    BY <1>1, <2>2
<1>6. Datas(Range(t)) = Datas(Range(s)) \ {s[k].data}
  BY <1>4, <1>5 DEF Datas
<1> QED
  BY <1>2, <1>5, <1>6

\* Requests.
LEMMA NewRequest ==
    ASSUME NEW i \in Idx, NEW b \in BOOLEAN
    PROVE  LET r == [block |-> i, name |-> i, mine |-> b, put |-> FALSE]
           IN  r \in Request /\ r.block = i /\ r.name = i /\ r.mine = b /\ r.put = FALSE
BY DEF Request

LEMMA ChangedRequest ==
    ASSUME NEW f \in Request, NEW i \in Idx
    PROVE  /\ LET r == [f EXCEPT !.mine = FALSE]
              IN  r \in Request /\ r.block = f.block /\ r.name = f.name /\ r.mine = FALSE
                  /\ r.put = f.put
           /\ LET r == [f EXCEPT !.put = TRUE]
              IN  r \in Request /\ r.block = f.block /\ r.name = f.name /\ r.mine = f.mine
                  /\ r.put = TRUE
           /\ LET r == [f EXCEPT !.name = i]
              IN  r \in Request /\ r.block = f.block /\ r.name = i /\ r.mine = f.mine
                  /\ r.put = f.put
BY DEF Request

LEMMA NewAnswer ==
    ASSUME NEW n \in Idx, NEW i \in Idx, NEW how \in {"whole", "short", "error"}
    PROVE  /\ Answer(n, i, how) \in Entry
           /\ Answer(n, i, how).name = n /\ Answer(n, i, how).data = i
           /\ Answer(n, i, how).how = how
BY DEF Answer, Entry

-----------------------------------------------------------------------------
(* What does not change, and what is finite.                               *)

LEMMA SetupTypes ==
    ASSUME Control
    PROVE  /\ kind \in Kind /\ setup.sim \in Nat \ {0}
           /\ setup.task \in {"backup", "scrub", "restore"}
           /\ setup.sparse \in BOOLEAN /\ setup.short \in BOOLEAN
           /\ setup.size \in {"none", "small", "exact", "large"}
           /\ Reading => setup.size = "exact"
           /\ setup.task = "restore" =>
                 setup.plan \in [Idx -> {"data", "sparse", "missing", "badmeta"}]
<1> USE DEF Setups, Kind, Reading, kind
<1>1. setup \in Setups
  BY DEF Control
<1>2. MaxSimultaneous \in Nat \ {0}
      /\ RestorePlans \subseteq [Idx -> {"data", "sparse", "missing", "badmeta"}]
  BY IoAssumption DEF Idx
<1>3. CASE setup \in [kind : Kind, task : {"backup"}, sim : 1..MaxSimultaneous,
                      force : {FALSE}, sparse : {FALSE}, size : {"exact"},
                      short : BOOLEAN, plan : BackupPlans]
  <2>1. /\ setup.kind \in Kind /\ setup.task = "backup" /\ setup.size = "exact"
        /\ setup.sparse \in {FALSE} /\ setup.short \in BOOLEAN
        /\ setup.sim \in 1..MaxSimultaneous
    BY <1>3
  <2>2. setup.sparse \in BOOLEAN
    BY <2>1, Zenon
  <2>3. setup.sim \in Nat \ {0}
    BY <1>2, <2>1
  <2> QED
    BY <2>1, <2>2, <2>3
<1>4. CASE setup \in [kind : Kind, task : {"scrub"}, sim : {1}, force : {FALSE},
                      sparse : {FALSE}, size : {"exact"}, short : BOOLEAN,
                      plan : {[i \in Idx |-> "read"]}]
  <2>1. /\ setup.kind \in Kind /\ setup.task = "scrub" /\ setup.size = "exact"
        /\ setup.sparse \in {FALSE} /\ setup.short \in BOOLEAN /\ setup.sim = 1
    BY <1>4
  <2>2. setup.sparse \in BOOLEAN
    BY <2>1, Zenon
  <2> QED
    BY <2>1, <2>2
<1>5. CASE setup \in [kind : Kind, task : {"restore"}, sim : 1..MaxSimultaneous,
                      force : BOOLEAN, sparse : BOOLEAN, plan : RestorePlans,
                      size : {"none", "small", "exact", "large"}, short : BOOLEAN]
  BY <1>2, <1>5
<1> QED
  BY <1>1, <1>3, <1>4, <1>5

LEMMA Constant ==
    ASSUME setup' = setup
    PROVE  /\ kind' = kind /\ Pooled' = Pooled /\ Reading' = Reading
           /\ Planned("read")' = Planned("read") /\ Planned("check")' = Planned("check")
           /\ Planned("sparse")' = Planned("sparse") /\ Planned("data")' = Planned("data")
           /\ Planned("badmeta")' = Planned("badmeta")
           /\ Opened' = Opened /\ Expected' = Expected
BY DEF kind, Pooled, Reading, Planned, Opened, Expected

LEMMA IndexFinite ==
    /\ Idx \subseteq Nat /\ IsFiniteSet(Idx) /\ Cardinality(Idx) = Blocks
    /\ End \in Idx /\ Beyond \notin Idx /\ Blocks \in Nat \ {0} /\ MaxFaults \in Nat
    /\ \A i \in Idx : i < Beyond
<1>1. Blocks \in Nat \ {0} /\ MaxFaults \in Nat
  BY IoAssumption
<1>2. IsFiniteSet(0..(Blocks - 1))
      /\ Cardinality(0..(Blocks - 1))
            = IF 0 > Blocks - 1 THEN 0 ELSE (Blocks - 1) - 0 + 1
  BY <1>1, FS_Interval
<1>3. Cardinality(0..(Blocks - 1)) = Blocks
  BY <1>1, <1>2
<1> QED
  BY <1>1, <1>2, <1>3 DEF Idx, End, Beyond

LEMMA AsksTypes ==
    ASSUME TypeOK PROVE Asks \subseteq Idx
BY DEF Asks, Planned, TypeOK

LEMMA SubsetFinite ==
    ASSUME NEW A \in SUBSET Idx
    PROVE  IsFiniteSet(A) /\ Cardinality(A) \in 0..Blocks
<1>1. IsFiniteSet(A) /\ Cardinality(A) <= Blocks
  BY IndexFinite, FS_Subset
<1> QED
  BY <1>1, FS_CardinalityType, IndexFinite

LEMMA OneMore ==
    ASSUME NEW A \in SUBSET Idx, NEW B \in SUBSET Idx, NEW i \in Idx \ A, B = A \cup {i}
    PROVE  Cardinality(B) = Cardinality(A) + 1
BY SubsetFinite, FS_AddElement

\* A set of results, no two of which are about one block.
LEMMA GotFinite ==
    ASSUME NEW G, NEW D \in SUBSET Idx, D = Datas(G),
           \A d, e \in G : d.data = e.data => d = e
    PROVE  IsFiniteSet(G) /\ Cardinality(G) = Cardinality(D)
<1> DEFINE g == [e \in G |-> e.data]
<1>1. g \in [G -> D]
  BY DEF Datas
<1>2. g \in Injection(G, D)
  BY <1>1 DEF Injection, IsInjective
<1>3. \A d \in D : \E e \in G : g[e] = d
  BY DEF Datas
<1>4. g \in Surjection(G, D)
  BY <1>1, <1>3 DEF Surjection
<1>5. IsFiniteSet(D)
  BY SubsetFinite
<1> HIDE DEF g
<1> QED
  BY <1>2, <1>4, <1>5, FS_Injection

\* The image of a finite set.
LEMMA ImageFinite ==
    ASSUME NEW S, IsFiniteSet(S), NEW T, NEW g \in [S -> T],
           \A t \in T : \E x \in S : g[x] = t
    PROVE  /\ IsFiniteSet(T)
           /\ (\A x, y \in S : g[x] = g[y] => x = y) => Cardinality(T) = Cardinality(S)
<1>1. g \in Surjection(S, T)
  BY DEF Surjection
<1>2. (\A x, y \in S : g[x] = g[y] => x = y) => g \in Injection(S, T)
  BY DEF Injection, IsInjective
<1> QED
  BY <1>1, <1>2, FS_Surjection

-----------------------------------------------------------------------------
(* Changes of the set of requests.                                         *)

\* A new call of _submit_aio_...: no callback shares its variables.
LEMMA Reframed ==
    ASSUME flying \subseteq Request, IsFiniteSet(flying),
           flying' = {[f EXCEPT !.mine = FALSE] : f \in flying}
    PROVE  /\ flying' \subseteq Request /\ IsFiniteSet(flying')
           /\ InFlight' = InFlight /\ (Lone(Open) => Lone(Open'))
           /\ NoneMine'
           /\ (\A f \in flying : ~f.put) => \A f \in flying' : ~f.put
           /\ (\A f \in flying : f.name = f.block) => \A f \in flying' : f.name = f.block
           /\ flying = {} => flying' = {}
           /\ Open = {} => Open' = {}
           /\ Lone(Open) => Cardinality(Open') = Cardinality(Open)
<1> DEFINE X(f) == [f EXCEPT !.mine = FALSE]
<1>1. \A f \in flying : /\ X(f) \in Request /\ X(f).block = f.block /\ X(f).name = f.name
                        /\ X(f).mine = FALSE /\ X(f).put = f.put
  <2> SUFFICES ASSUME NEW f \in flying
               PROVE  /\ X(f) \in Request /\ X(f).block = f.block /\ X(f).name = f.name
                      /\ X(f).mine = FALSE /\ X(f).put = f.put
    OBVIOUS
  <2> QED
    BY IndexFinite, ChangedRequest
<1>2. flying' = {X(f) : f \in flying}
  OBVIOUS
<1> HIDE DEF X
<1>3. flying' \subseteq Request /\ NoneMine' /\ (flying = {} => flying' = {})
      /\ ((\A f \in flying : ~f.put) => \A f \in flying' : ~f.put)
      /\ ((\A f \in flying : f.name = f.block) => \A f \in flying' : f.name = f.block)
  BY <1>1, <1>2 DEF NoneMine
<1>4. IsFiniteSet(flying')
  <2> DEFINE g == [f \in flying |-> X(f)]
  <2>1. g \in [flying -> flying'] /\ \A t \in flying' : \E f \in flying : g[f] = t
    BY <1>2
  <2> HIDE DEF g
  <2> QED
    BY <2>1, ImageFinite
<1>5. Open' = {X(f) : f \in Open}
  BY <1>1, <1>2 DEF Open
<1>6. InFlight' = InFlight
  BY <1>1, <1>5 DEF InFlight, Open
<1>7. ASSUME Lone(Open) PROVE Lone(Open')
  BY <1>1, <1>5, <1>7 DEF Lone, Open
<1>8. ASSUME Lone(Open) PROVE Cardinality(Open') = Cardinality(Open)
  <2> DEFINE g == [f \in Open |-> X(f)]
  <2>1. g \in [Open -> Open'] /\ \A t \in Open' : \E f \in Open : g[f] = t
    BY <1>5
  <2>2. \A f, h \in Open : g[f] = g[h] => f = h
    BY <1>1, <1>8 DEF Lone, Open
  <2>3. IsFiniteSet(Open)
    BY FS_Subset DEF Open
  <2> HIDE DEF g
  <2> QED
    BY <2>1, <2>2, <2>3, ImageFinite
<1> QED
  BY <1>3, <1>4, <1>5, <1>6, <1>7, <1>8

\* One more request for a block nobody works on.
LEMMA RequestAdded ==
    ASSUME flying \subseteq Request, IsFiniteSet(flying), Lone(Open),
           NEW i \in Idx, i \notin InFlight, NEW b \in BOOLEAN,
           flying' = flying \cup {[block |-> i, name |-> i, mine |-> b, put |-> FALSE]}
    PROVE  /\ flying' \subseteq Request /\ IsFiniteSet(flying')
           /\ InFlight' = InFlight \cup {i} /\ Lone(Open')
           /\ (\A f \in flying : ~f.put) => \A f \in flying' : ~f.put
           /\ (\A f \in flying : f.name = f.block) => \A f \in flying' : f.name = f.block
           /\ Cardinality(Open') = Cardinality(Open) + 1
<1> DEFINE r == [block |-> i, name |-> i, mine |-> b, put |-> FALSE]
<1>1. r \in Request /\ r.block = i /\ r.name = i /\ ~r.put
  BY NewRequest
<1>2. flying' = flying \cup {r}
  OBVIOUS
<1> HIDE DEF r
<1>3. Open' = Open \cup {r}
  BY <1>1, <1>2 DEF Open
<1>4. r \notin Open /\ \A f \in Open : f.block # i
  BY <1>1 DEF InFlight
<1>5. IsFiniteSet(flying')
  BY <1>2, FS_AddElement
<1>6. Cardinality(Open') = Cardinality(Open) + 1
  <2>1. IsFiniteSet(Open)
    BY FS_Subset DEF Open
  <2> QED
    BY <1>3, <1>4, <2>1, FS_AddElement
<1>7. InFlight' = InFlight \cup {i}
  BY <1>1, <1>3 DEF InFlight
<1>8. Lone(Open')
  BY <1>1, <1>3, <1>4 DEF Lone
<1>9. flying' \subseteq Request
  BY <1>1, <1>2
<1>10. (\A f \in flying : ~f.put) => \A f \in flying' : ~f.put
  BY <1>1, <1>2
<1>11. (\A f \in flying : f.name = f.block) => \A f \in flying' : f.name = f.block
  BY <1>1, <1>2
<1> QED
  BY <1>5, <1>6, <1>7, <1>8, <1>9, <1>10, <1>11

\* The same where the callbacks of the call now find the block in the variable
\* they share.
LEMMA RequestRenames ==
    ASSUME flying \subseteq Request, IsFiniteSet(flying), Lone(Open),
           NEW i \in Idx, i \notin InFlight,
           flying' = {IF f.mine THEN [f EXCEPT !.name = i] ELSE f : f \in flying}
                     \cup {[block |-> i, name |-> i, mine |-> TRUE, put |-> FALSE]}
    PROVE  /\ flying' \subseteq Request /\ IsFiniteSet(flying')
           /\ InFlight' = InFlight \cup {i} /\ Lone(Open')
           /\ (\A f \in flying : ~f.put) => \A f \in flying' : ~f.put
<1> DEFINE X(f) == IF f.mine THEN [f EXCEPT !.name = i] ELSE f
           r == [block |-> i, name |-> i, mine |-> TRUE, put |-> FALSE]
           F == {X(f) : f \in flying}
<1>1. r \in Request /\ r.block = i /\ ~r.put
  BY NewRequest
<1>2. \A f \in flying : X(f) \in Request /\ X(f).block = f.block /\ X(f).put = f.put
  <2> SUFFICES ASSUME NEW f \in flying
               PROVE  X(f) \in Request /\ X(f).block = f.block /\ X(f).put = f.put
    OBVIOUS
  <2>1. CASE f.mine
    <3>1. X(f) = [f EXCEPT !.name = i]
      BY <2>1
    <3>2. f \in Request
      OBVIOUS
    <3>3. LET c == [f EXCEPT !.name = i]
          IN  c \in Request /\ c.block = f.block /\ c.put = f.put
      BY <3>2, ChangedRequest
    <3> HIDE DEF X
    <3> QED
      BY <3>1, <3>3
  <2>2. CASE ~f.mine
    BY <2>2
  <2> QED
    BY <2>1, <2>2
<1>3. flying' = F \cup {r}
  OBVIOUS
<1> HIDE DEF X, r
<1>4. IsFiniteSet(F)
  <2> DEFINE g == [f \in flying |-> X(f)]
  <2>1. g \in [flying -> F] /\ \A t \in F : \E f \in flying : g[f] = t
    OBVIOUS
  <2> HIDE DEF g
  <2> QED
    BY <2>1, ImageFinite
<1>5. F \subseteq Request
  BY <1>2
<1>6. Open' = {X(f) : f \in Open} \cup {r}
  BY <1>1, <1>2, <1>3 DEF Open
<1>7. InFlight' = InFlight \cup {i}
  BY <1>1, <1>2, <1>6 DEF InFlight, Open
<1>8. Lone(Open')
  BY <1>1, <1>2, <1>6 DEF Lone, Open, InFlight
<1>9. (\A f \in flying : ~f.put) => \A f \in flying' : ~f.put
  BY <1>1, <1>2, <1>3
<1>10. IsFiniteSet(flying')
  <2> HIDE DEF F
  <2> QED
    BY <1>3, <1>4, FS_AddElement
<1> QED
  BY <1>1, <1>3, <1>5, <1>7, <1>8, <1>9, <1>10

\* A request is completed: it is gone, or its callback has put.
LEMMA RequestEnds ==
    ASSUME flying \subseteq Request, IsFiniteSet(flying), Lone(Open), NEW f \in Open,
           \/ flying' = flying \ {f}
           \/ flying' = (flying \ {f}) \cup {[f EXCEPT !.put = TRUE]}
    PROVE  /\ flying' \subseteq Request /\ IsFiniteSet(flying')
           /\ InFlight' = InFlight \ {f.block} /\ f.block \in InFlight /\ Lone(Open')
           /\ Open' = Open \ {f}
           /\ Cardinality(Open') = Cardinality(Open) - 1
<1> DEFINE r == [f EXCEPT !.put = TRUE]
<1>1. f \in flying /\ ~f.put
  BY DEF Open
<1>2. r \in Request /\ r.put = TRUE
  BY <1>1, IndexFinite, ChangedRequest
<1>3. flying' = flying \ {f} \/ flying' = (flying \ {f}) \cup {r}
  OBVIOUS
<1> HIDE DEF r
<1>4. IsFiniteSet(flying \ {f}) /\ IsFiniteSet((flying \ {f}) \cup {r})
  BY FS_RemoveElement, FS_AddElement
<1>5. Open' = Open \ {f}
  BY <1>2, <1>3 DEF Open
<1>6. InFlight' = InFlight \ {f.block} /\ f.block \in InFlight /\ Lone(Open')
  BY <1>5 DEF InFlight, Lone
<1>7. Cardinality(Open \ {f}) = Cardinality(Open) - 1
  <2>1. IsFiniteSet(Open)
    BY FS_Subset DEF Open
  <2> QED
    BY <2>1, FS_RemoveElement
<1> QED
  BY <1>1, <1>2, <1>3, <1>4, <1>5, <1>6, <1>7

-----------------------------------------------------------------------------
(* Steps of the calling thread that leave requests and blocks alone.       *)

LEMMA AskedKept ==
    ASSUME setup' = setup, phase' = phase, todo' = todo
    PROVE  Asks' = Asks /\ Asked' = Asked
<1>1. Asks' = Asks
  BY Constant DEF Asks
<1> QED
  BY <1>1 DEF Asked

\* Requests, answers, results and the loop stay: the calling thread has moved.
LEMMA Moved ==
    ASSUME IInv, UNCHANGED <<setup, phase, todo, jobs, got, count, queue, flying, done,
                             medium, cut>>,
           Looping' => Looping, Begun' => Begun
    PROVE  /\ Places' /\ Counts' /\ Answers' /\ Open' = Open /\ Delivered' = Delivered
           /\ Outstanding' = Outstanding
           /\ (~Begun' => medium = Found(setup)) => Media'
<1> USE Constant, AskedKept DEF IInv
<1>1. Open' = Open
  BY DEF Open
<1>2. Waiting' = Waiting /\ InFlight' = InFlight /\ Completed' = Completed
      /\ Delivered' = Delivered
  BY <1>1 DEF Waiting, InFlight, Completed, Delivered
<1>3. Places'
  BY <1>1, <1>2 DEF Places
<1>4. Counts'
  BY DEF Counts
<1>5. Answers'
  BY DEF Answers
<1>6. ASSUME ~Begun' => medium = Found(setup) PROVE Media'
  <2>1. Wrote' = Wrote
    BY DEF Wrote
  <2>2. SoFar' = SoFar
    BY <2>1 DEF SoFar, Zeroed
  <2> QED
    BY <1>6, <2>2 DEF Media
<1>7. Outstanding' = Outstanding
  BY DEF Outstanding
<1> QED
  BY <1>1, <1>2, <1>3, <1>4, <1>5, <1>6, <1>7

\* The constructors, and a device that cannot be had.
LEMMA EarlyStep ==
    ASSUME IInv,
           \/ IOFactory_get \/ FileIO \/ RbdIO \/ RbdAioIO \/ IscsiIO
           \/ pc = "open" /\ Refuse
    PROVE  IInv'
<1> USE DEF IInv
<1>1. /\ pc \in {"new", "open"}
      /\ \/ pc' = "open" /\ result' = result
         \/ pc' = "end" /\ result' = "refused"
      /\ UNCHANGED <<setup, phase, todo, jobs, got, count, queue, flying, done, submit,
                     medium, cut, faults>>
  BY DEF IOFactory_get, FileIO, RbdIO, RbdAioIO, IscsiIO, Constructed, Refuse, device
<1>2. ~Looping /\ ~Looping' /\ ~Begun /\ ~Begun' /\ result' \in {"none", "refused"}
  BY <1>1 DEF Looping, Begun, Control
<1>3. TypeOK'
  BY <1>1, <1>2 DEF TypeOK
<1>4. Control'
  BY <1>1, <1>2, Constant DEF Control, Asks
<1>5. Places' /\ Counts' /\ Answers' /\ Media'
  BY <1>1, <1>2, Moved DEF Media
<1>6. Frames' /\ Causes' /\ Endings'
  <2>1. done = <<>>
    BY <1>2 DEF Control
  <2>2. Range(done') = {}
    BY <1>1, <2>1 DEF Range
  <2> QED
    BY <1>2, <2>2 DEF Frames, Causes, Endings
<1> QED
  BY <1>3, <1>4, <1>5, <1>6

-----------------------------------------------------------------------------
(* A loop begins.                                                          *)

LEMMA EmptyRange == Range(<<>>) = {}
BY DEF Range

\* Nothing is under way when a loop begins, and nothing is asked for yet.
LEMMA Entered ==
    ASSUME IInv, setup' = setup, cut' = cut, faults' = faults, result' = "none",
           queue = <<>>, queue' = <<>>, done = <<>>, done' = <<>>, flying' = flying,
           Open = {}, submit' = "out",
           NEW p, NEW blocks, Enter(p, blocks), Asks' \subseteq blocks
    PROVE  Places' /\ Counts' /\ Answers' /\ Frames' /\ Causes' /\ Endings' /\ Wrote' = {}
<1> USE DEF IInv, Enter
<1>1. /\ Range(done') = {} /\ Range(queue') = {} /\ got' = {} /\ Open' = {}
      /\ Asked' = {}
  BY EmptyRange DEF Open, Asked
<1>2. Waiting' = {} /\ InFlight' = {} /\ Completed' = {} /\ Delivered' = {}
  BY <1>1 DEF Waiting, InFlight, Completed, Delivered, Datas
<1>3. Once(queue') /\ Apart(done') /\ Lone(Open')
  BY <1>1 DEF Once, Apart, Lone
<1>4. Places'
  BY <1>1, <1>2, <1>3 DEF Places
<1>5. Cardinality({}) = 0
  BY FS_EmptySet
<1>6. Counts'
  BY <1>1, <1>5 DEF Counts
<1>7. Answers'
  BY <1>1, Constant DEF Answers
<1>8. Frames'
  BY DEF Frames, Full
<1>9. Causes'
  BY <1>1 DEF Causes
<1>10. Endings'
  BY DEF Endings
<1>11. Wrote' = {}
  BY <1>1 DEF Wrote, Datas
<1> QED
  BY <1>4, <1>6, <1>7, <1>8, <1>9, <1>10, <1>11

\* The source is opened.
LEMMA OpenReadStep ==
    ASSUME IInv, pc = "open", Reading, OpenedR
    PROVE  IInv'
<1> USE DEF IInv
<1>1. /\ ~Begun /\ result = "none" /\ result' = "none" /\ submit = "out" /\ submit' = "out"
      /\ queue = <<>> /\ flying = {} /\ done = <<>> /\ todo = {}
      /\ setup.task \in {"backup", "scrub"}
      /\ UNCHANGED <<setup, queue, flying, done, submit, medium, cut, faults>>
  BY SetupTypes DEF OpenedR, device, Control, Begun, Looping, Reading
<1>2. PICK p \in {"check", "backup", "scrub"}, blocks \in SUBSET Idx :
         /\ Enter(p, blocks) /\ (p = "scrub" <=> setup.task = "scrub")
         /\ blocks = CASE p = "scrub" -> Idx [] p = "check" -> Planned("check")
                       [] p = "backup" -> Planned("read")
  <2>1. Planned("check") \in SUBSET Idx /\ Planned("read") \in SUBSET Idx
    BY DEF Planned
  <2>2. CASE setup.task = "scrub"
    <3>1. Enter("scrub", Idx)
      BY <2>2 DEF OpenedR
    <3>2. Idx = CASE "scrub" = "scrub" -> Idx [] "scrub" = "check" -> Planned("check")
                  [] "scrub" = "backup" -> Planned("read")
      OBVIOUS
    <3>3. Idx \in SUBSET Idx
      OBVIOUS
    <3> QED
      BY <2>2, <3>1, <3>2, <3>3, Zenon
  <2>3. CASE setup.task # "scrub" /\ Planned("check") # {}
    BY <2>1, <2>3 DEF OpenedR
  <2>4. CASE setup.task # "scrub" /\ Planned("check") = {}
    BY <2>1, <2>4 DEF OpenedR
  <2> QED
    BY <2>2, <2>3, <2>4
<1>3. Asks' = blocks /\ phase' = p /\ todo' = blocks /\ pc' = "loop" /\ jobs' = 0
      /\ got' = {} /\ count' = 0
  BY <1>1, <1>2, Constant DEF Enter, Asks
<1>4. Open = {}
  BY <1>1 DEF Open
<1>5. Places' /\ Counts' /\ Answers' /\ Frames' /\ Causes' /\ Endings'
  BY <1>1, <1>2, <1>3, <1>4, Entered
<1>6. TypeOK'
  BY <1>1, <1>3, IndexFinite DEF TypeOK
<1>7. Control'
  <2>1. Looping' /\ Begun'
    BY <1>1, <1>3 DEF Looping, Begun
  <2>2. setup.size # "small"
    BY <1>1, SetupTypes
  <2> QED
    BY <1>1, <1>2, <1>3, <2>1, <2>2, Constant DEF Control, Reading
<1>8. Media'
  BY <1>1, <1>3, Constant DEF Media, Begun
<1> QED
  BY <1>5, <1>6, <1>7, <1>8

\* What the target holds when it is opened has the right type.
LEMMA OpenedTypes ==
    ASSUME Control
    PROVE  Opened \in [Cell -> {"none", "zero", "old", "data"}]
BY DEF Opened, Fresh, Found

\* The target is opened: new, discarded or as it was found.
LEMMA OpenWriteStep ==
    ASSUME IInv, pc = "open", ~Reading, NEW m, OpenedW(m), m = Opened,
           kind # "iscsi" => setup.size # "small"
    PROVE  IInv'
<1> USE DEF IInv
<1> DEFINE blocks == IF setup.sparse THEN {} ELSE Idx
<1>1. /\ ~Begun /\ result = "none" /\ result' = "none" /\ submit = "out" /\ submit' = "out"
      /\ queue = <<>> /\ flying = {} /\ done = <<>> /\ todo = {}
      /\ setup.task = "restore"
      /\ UNCHANGED <<setup, queue, flying, done, submit, cut, faults>> /\ medium' = m
  BY SetupTypes DEF OpenedW, Control, Begun, Looping, Reading
<1>2. Enter("sparse", blocks) /\ blocks \in SUBSET Idx
  BY DEF OpenedW
<1>3. /\ Asks' \subseteq blocks /\ phase' = "sparse" /\ todo' = blocks /\ pc' = "loop"
      /\ jobs' = 0 /\ got' = {} /\ count' = 0
  BY <1>1, <1>2 DEF Enter, Asks, Planned
<1> HIDE DEF blocks
<1>4. Open = {}
  BY <1>1 DEF Open
<1>5. Places' /\ Counts' /\ Answers' /\ Frames' /\ Causes' /\ Endings' /\ Wrote' = {}
  BY <1>1, <1>2, <1>3, <1>4, Entered
<1>6. TypeOK'
  BY <1>1, <1>2, <1>3, IndexFinite, OpenedTypes DEF TypeOK
<1>7. Control'
  <2>1. Looping' /\ Begun'
    BY <1>1, <1>3 DEF Looping, Begun
  <2>2. setup.sparse => todo' = {}
    BY <1>3 DEF blocks
  <2> QED
    BY <1>1, <1>2, <1>3, <2>1, <2>2, Constant DEF Control, Reading
<1>8. Media'
  <2>1. \A c \in Cell : c \notin Wrote' /\ End \notin Wrote'
    BY <1>5
  <2>2. SoFar' = [c \in Cell |-> Opened[c]]
    BY <1>1, <1>3, <2>1, Constant DEF SoFar
  <2>3. [c \in Cell |-> Opened[c]] = Opened
    BY DEF Opened, Fresh
  <2> QED
    BY <1>1, <1>3, <2>2, <2>3 DEF Media, Begun
<1> QED
  BY <1>5, <1>6, <1>7, <1>8

LEMMA OpenStep ==
    ASSUME IInv,
           \/ FileOpenR \/ RbdOpenR \/ RbdAioOpenR \/ IscsiOpen
           \/ FileOpenW \/ RbdOpenW \/ RbdAioOpenW
    PROVE  IInv'
<1>1. CASE pc = "open" /\ Refuse
  BY <1>1, EarlyStep
<1>2. CASE pc = "open" /\ Reading /\ OpenedR
  BY <1>2, OpenReadStep
<1>3. CASE FileOpenW \/ RbdOpenW \/ RbdAioOpenW \/ (IscsiOpen /\ ~Reading)
  <2>1. /\ pc = "open" /\ ~Reading
        /\ medium = Found(setup) /\ setup.size \in {"none", "small", "exact", "large"}
        /\ setup.sparse \in BOOLEAN
    BY <1>3, SetupTypes
       DEF FileOpenW, RbdOpenW, RbdAioOpenW, IscsiOpen, IInv, Media, Begun
  <2>2. kind = "file" \/ kind \in Rbd \/ kind = "iscsi"
    BY <1>3 DEF FileOpenW, RbdOpenW, RbdAioOpenW, IscsiOpen, Rbd
  <2>3. ASSUME NEW m, OpenedW(m), m = Opened, kind # "iscsi" => setup.size # "small"
        PROVE  IInv'
    BY <2>1, <2>3, OpenWriteStep
  <2>4. ASSUME setup.size = "none" PROVE Fresh = Opened
    BY <2>4 DEF Opened
  <2>5. ASSUME setup.size # "none", kind \notin Rbd \/ ~setup.sparse PROVE medium = Opened
    BY <2>1, <2>5 DEF Opened, Found
  <2>6. ASSUME setup.size # "none", kind \in Rbd, setup.sparse PROVE Discarded = Opened
    BY <2>1, <2>6 DEF Opened, Found, Discarded
  <2>7. CASE FileOpenW
    BY <1>1, <2>1, <2>3, <2>4, <2>5, <2>7 DEF FileOpenW, Overwrites, Rbd
  <2>8. CASE RbdOpenW \/ RbdAioOpenW
    BY <1>1, <2>1, <2>3, <2>4, <2>5, <2>6, <2>8
       DEF RbdOpenW, RbdAioOpenW, RbdTarget, Overwrites, Rbd
  <2>9. CASE IscsiOpen
    BY <1>1, <2>1, <2>3, <2>5, <2>9 DEF IscsiOpen, Rbd
  <2> QED
    BY <1>3, <2>7, <2>8, <2>9
<1>4. CASE FileOpenR \/ RbdOpenR \/ RbdAioOpenR
  BY <1>1, <1>2, <1>4 DEF FileOpenR, RbdOpenR, RbdAioOpenR
<1>5. CASE IscsiOpen /\ Reading
  <2>1. pc = "open" /\ (Refuse \/ OpenedR)
    BY <1>5 DEF IscsiOpen
  <2> QED
    BY <1>1, <1>2, <1>5, <2>1
<1> QED
  BY <1>3, <1>4, <1>5

-----------------------------------------------------------------------------
(* The device serves a request.                                            *)

\* A read is answered with less than the block only where the source ends; an
\* error has a cause; and a write changes its block alone.
LEMMA Served ==
    ASSUME TypeOK, Control, NEW i \in Asks, NEW how, Serve(i, how),
           setup' = setup, cut' = cut
    PROVE  /\ faults' \in 0..MaxFaults
           /\ medium' \in [Cell -> {"none", "zero", "old", "data"}]
           /\ Cause => Cause'
           /\ how = "error" => Cause' /\ medium' = medium
           /\ Reading => /\ medium' = medium
                         /\ how = "short" => (Pooled \/ phase = "scrub") /\ cut = i
           /\ ~Reading => /\ how # "short"
                          /\ how = "whole" => medium' = Written(i)
<1>1. i \in Idx /\ i < Beyond
  BY AsksTypes, IndexFinite
<1>2. faults' \in 0..MaxFaults /\ (faults > 0 => faults' > 0)
  BY IndexFinite DEF Serve, TypeOK
<1>3. Cause => Cause'
  BY <1>2, Constant DEF Cause
<1>4. i \in Nat /\ cut \in Nat /\ (~(i < cut) => cut # Beyond)
  BY <1>1, IndexFinite DEF TypeOK, Cell, Beyond
<1>5. kind \in Kind
  BY SetupTypes
<1>6. CASE faults < MaxFaults /\ faults' = faults + 1 /\ how = "error" /\ medium' = medium
  BY <1>2, <1>3, <1>6 DEF Cause, TypeOK
<1>7. CASE Reading /\ faults' = faults /\ how = ReadOf(i) /\ medium' = medium
  <2>1. how = "short" => (Pooled \/ phase = "scrub") /\ cut = i
    BY <1>5, <1>7, Zenon DEF ReadOf, FileRead, RbdRead, RbdAioRead, IscsiRead, SourceHas,
                      Kind, Pooled
  <2>2. how = "error" => ~(i < cut) \/ (kind = "iscsi" /\ setup.short)
    BY <1>5, <1>7, Zenon DEF ReadOf, FileRead, RbdRead, RbdAioRead, IscsiRead, SourceHas, Kind
  <2>3. how = "error" => Cause'
    BY <1>4, <2>2, Constant DEF Cause
  <2> QED
    BY <1>2, <1>3, <1>7, <2>1, <2>3 DEF TypeOK
<1>8. CASE ~Reading /\ faults' = faults /\ WriteFits(i) /\ how = "whole" /\ medium' = Written(i)
  <2>1. medium' \in [Cell -> {"none", "zero", "old", "data"}]
    BY <1>8 DEF Written, TypeOK
  <2> QED
    BY <1>2, <1>3, <1>8, <2>1
<1>9. CASE ~Reading /\ faults' = faults /\ ~WriteFits(i) /\ how = "error" /\ medium' = medium
  <2>1. CASE kind = "iscsi"
    <3>1. Cause'
      BY <1>9, <2>1, Constant DEF WriteFits, IscsiWrite, Cause
    <3> QED
      BY <1>2, <1>3, <1>9, <3>1 DEF TypeOK
  <2>2. CASE kind \in Rbd
    <3>1. Overhang(i) /\ setup.size \in {"none", "exact"}
      BY <1>9, <2>2 DEF WriteFits, RbdWrite, RbdAioWrite, Rbd
    <3>2. phase = "sparse" /\ setup.short /\ i = End
      BY <3>1 DEF Overhang
    <3>3. setup.plan[End] = "sparse" /\ ~setup.sparse
      BY <1>1, <3>2 DEF Asks, Planned
    <3> QED
      BY <1>2, <1>3, <1>9, <2>2, <3>1, <3>2, <3>3 DEF Cause, TypeOK
  <2>3. CASE kind = "file"
    BY <1>9, <2>3 DEF WriteFits, FileWrite
  <2> QED
    BY <1>2, <1>3, <1>5, <1>9, <2>1, <2>2, <2>3 DEF Kind, Rbd, TypeOK
<1> QED
  BY <1>6, <1>7, <1>8, <1>9 DEF Serve

\* The target of a restore, when a block has been written.
LEMMA Wrought ==
    ASSUME TypeOK, Control, NEW i \in Asks, ~Reading, Begun,
           setup' = setup, phase' = phase,
           medium = SoFar, Wrote' = Wrote \cup {i}, medium' = Written(i)
    PROVE  medium' = SoFar'
<1>1. i \in Idx /\ Beyond \notin Idx /\ End \in Idx
  BY AsksTypes, IndexFinite
<1>2. phase \in {"sparse", "data"}
  BY SetupTypes DEF Control, TypeOK, Reading
<1>3. CASE phase = "sparse"
  BY <1>1, <1>3, Constant DEF SoFar, Written, Overhang
<1>4. CASE phase = "data"
  BY <1>1, <1>4, Constant DEF SoFar, Written, Overhang, Zeroed
<1> QED
  BY <1>2, <1>3, <1>4

LEMMA SoFarKept ==
    ASSUME setup' = setup, phase' = phase, Wrote' = Wrote
    PROVE  SoFar' = SoFar
BY Constant DEF SoFar, Zeroed

-----------------------------------------------------------------------------
(* Requests are completed.                                                 *)

\* A request in flight is answered.
LEMMA Arrival ==
    ASSUME IInv, NEW f \in Open, NEW n \in Idx, NEW how \in {"whole", "short", "error"},
           Serve(f.block, how), Reading => n = f.block,
           done' = Append(done, Answer(n, f.block, how)),
           \/ flying' = flying \ {f}
           \/ ~Reading /\ flying' = (flying \ {f}) \cup {[f EXCEPT !.put = TRUE]},
           UNCHANGED <<setup, pc, phase, todo, queue, submit, cut, jobs, got, count, result>>
    PROVE  /\ TypeOK' /\ Places' /\ Counts' /\ Answers' /\ Causes' /\ Media' /\ Endings'
           /\ Begun /\ Open' = Open \ {f} /\ flying # {} /\ Len(done') = Len(done) + 1
           /\ Cardinality(Open') = Cardinality(Open) - 1
<1> USE DEF IInv
<1> DEFINE e == Answer(n, f.block, how)
<1>1. flying \subseteq Request /\ IsFiniteSet(flying) /\ Lone(Open)
  BY DEF TypeOK, Counts, Places
<1>2. f \in flying /\ f \in Request /\ f.block \in Idx /\ flying # {}
  BY <1>1 DEF Open, Request
<1>3. /\ flying' \subseteq Request /\ IsFiniteSet(flying')
      /\ InFlight' = InFlight \ {f.block} /\ f.block \in InFlight /\ Lone(Open')
      /\ Open' = Open \ {f} /\ Cardinality(Open') = Cardinality(Open) - 1
  BY <1>1, RequestEnds
<1>4. e \in Entry /\ e.name = n /\ e.data = f.block /\ e.how = how
  BY <1>2, NewAnswer
<1>5. done' = Append(done, e)
  OBVIOUS
<1> HIDE DEF e
<1>6. f.block \in Asks /\ f.block \notin Completed /\ Begun
  BY <1>2, <1>3 DEF Places, Control, Asked
<1>7. Apart(done') /\ Completed' = Completed \cup {f.block}
  BY <1>4, <1>5, <1>6, AnswersGrow DEF Completed, TypeOK, Places
<1>8. Range(done') = Range(done) \cup {e} /\ done' \in Seq(Entry) /\ Len(done') = Len(done) + 1
  BY <1>4, <1>5, Appended DEF TypeOK
<1>9. /\ faults' \in 0..MaxFaults
      /\ medium' \in [Cell -> {"none", "zero", "old", "data"}]
      /\ Cause => Cause'
      /\ how = "error" => Cause' /\ medium' = medium
      /\ Reading => /\ medium' = medium
                    /\ how = "short" => (Pooled \/ phase = "scrub") /\ cut = f.block
      /\ ~Reading => /\ how # "short"
                     /\ how = "whole" => medium' = Written(f.block)
  BY <1>6, Served
<1>10. Asked' = Asked /\ Waiting' = Waiting /\ Delivered' = Delivered /\ Looping' = Looping
  BY AskedKept DEF Waiting, Delivered, Looping
<1>11. Places'
  <2>1. Once(queue')
    BY DEF Places
  <2>2. \A x, y \in got' : x.data = y.data => x = y
    BY DEF Places
  <2>3. /\ Waiting' \cap InFlight' = {} /\ Waiting' \cap Completed' = {}
        /\ Waiting' \cap Delivered' = {} /\ InFlight' \cap Completed' = {}
        /\ InFlight' \cap Delivered' = {} /\ Completed' \cap Delivered' = {}
        /\ Waiting' \cup InFlight' \cup Completed' \cup Delivered' \subseteq Asked'
        /\ Looping' => Asked' \subseteq Waiting' \cup InFlight' \cup Completed' \cup Delivered'
    BY <1>3, <1>7, <1>10 DEF Places
  <2> QED
    BY <1>3, <1>7, <2>1, <2>2, <2>3 DEF Places
<1>12. Counts'
  BY <1>3, <1>10 DEF Counts, Begun
<1>13. Answers'
  BY <1>2, <1>4, <1>8, <1>9, Constant DEF Answers
<1>14. Causes'
  BY <1>4, <1>8, <1>9 DEF Causes
<1>15. Media'
  <2>1. ASSUME ~Reading, Looping PROVE medium' = SoFar'
    <3>1. medium = SoFar
      BY <2>1 DEF Media
    <3>2. CASE how = "error"
      <4>1. Wrote' = Wrote
        BY <1>4, <1>8, <3>2 DEF Wrote, Datas
      <4> QED
        BY <1>9, <3>1, <3>2, <4>1, SoFarKept
    <3>3. CASE how = "whole"
      <4>1. Wrote' = Wrote \cup {f.block}
        BY <1>4, <1>8, <3>3 DEF Wrote, Datas
      <4> QED
        BY <1>6, <1>9, <2>1, <3>1, <3>3, <4>1, Wrought
    <3> QED
      BY <1>9, <2>1, <3>2, <3>3
  <2> QED
    BY <1>6, <1>10, <2>1, Constant DEF Media, Begun
<1>16. Endings'
  BY <1>6, <1>3 DEF Endings
<1>17. TypeOK'
  BY <1>3, <1>8, <1>9 DEF TypeOK
<1> QED
  BY <1>2, <1>3, <1>6, <1>8, <1>17, <1>11, <1>12, <1>13, <1>14, <1>15, <1>16

LEMMA OutstandingIs ==
    ASSUME IInv
    PROVE  /\ Outstanding = Cardinality(Open) + Len(done)
           /\ Cardinality(Open) \in Nat /\ Len(done) \in Nat /\ Outstanding \in Nat
           /\ setup.sim \in Nat \ {0}
           /\ Outstanding = 0 => Open = {} /\ done = <<>>
<1>1. IsFiniteSet(Open)
  BY FS_Subset DEF Open, IInv, Counts
<1>2. Cardinality(Open) \in Nat /\ (Cardinality(Open) = 0 => Open = {})
  BY <1>1, FS_CardinalityType, FS_EmptySet
<1>3. Len(done) \in Nat /\ (Len(done) = 0 => done = <<>>)
  BY EmptySeq DEF IInv, TypeOK
<1>4. Outstanding = Cardinality(Open) + Len(done)
  BY DEF Outstanding, Open
<1>5. setup.sim \in Nat \ {0}
  BY SetupTypes DEF IInv
<1> QED
  BY <1>2, <1>3, <1>4, <1>5

\* The oldest waiting block is given to a thread or to librbd.
LEMMA Departure ==
    ASSUME IInv, queue # <<>>, queue' = Tail(queue),
           UNCHANGED <<setup, pc, phase, todo, done, medium, cut, jobs, got, count, faults,
                       result>>,
           InFlight' = InFlight \cup {Head(queue)}, Lone(Open'), IsFiniteSet(flying'),
           Reading => \A f \in flying' : f.name = f.block
    PROVE  /\ Places' /\ Counts' /\ Answers' /\ Causes' /\ Media' /\ Endings'
           /\ queue' \in Seq(Idx) /\ Begun
<1> USE DEF IInv
<1>1. /\ queue' \in Seq(Idx) /\ 1 \in DOMAIN queue /\ Head(queue) = queue[1]
      /\ Lost(queue, 1, queue')
  BY TailLoses DEF TypeOK
<1>2. Once(queue') /\ Waiting' = Waiting \ {Head(queue)}
  BY <1>1, QueueShrinks DEF Waiting, TypeOK, Places
<1>3. Head(queue) \in Waiting
  BY <1>1 DEF Waiting, Range
<1>4. Begun
  BY DEF Control
<1>5. /\ Asked' = Asked /\ Completed' = Completed /\ Delivered' = Delivered
      /\ Looping' = Looping /\ Begun' = Begun
  BY AskedKept DEF Completed, Delivered, Looping, Begun
<1>6. Places'
  <2>1. Apart(done') /\ \A x, y \in got' : x.data = y.data => x = y
    BY DEF Places
  <2>2. /\ Waiting' \cap InFlight' = {} /\ Waiting' \cap Completed' = {}
        /\ Waiting' \cap Delivered' = {} /\ InFlight' \cap Completed' = {}
        /\ InFlight' \cap Delivered' = {} /\ Completed' \cap Delivered' = {}
        /\ Waiting' \cup InFlight' \cup Completed' \cup Delivered' \subseteq Asked'
        /\ Looping' => Asked' \subseteq Waiting' \cup InFlight' \cup Completed' \cup Delivered'
    BY <1>2, <1>3, <1>5 DEF Places
  <2> QED
    BY <1>2, <2>1, <2>2 DEF Places
<1>7. Counts'
  BY <1>5 DEF Counts
<1>8. Answers'
  BY Constant DEF Answers
<1>9. Causes'
  BY Constant DEF Causes, Cause
<1>10. Media'
  <2>1. Wrote' = Wrote
    BY DEF Wrote
  <2> QED
    BY <1>4, <1>5, <2>1, SoFarKept, Constant DEF Media
<1>11. Endings'
  BY DEF Endings
<1> QED
  BY <1>1, <1>4, <1>6, <1>7, <1>8, <1>9, <1>10, <1>11

\* The threads of the executor.
LEMMA WorkerStep ==
    ASSUME IInv, WorkerTakes \/ \E f \in flying : WorkerEnds(f)
    PROVE  IInv'
<1> USE DEF IInv
<1>1. CASE WorkerTakes
  <2>1. /\ Pooled /\ queue # <<>> /\ queue' = Tail(queue)
        /\ flying' = flying \cup {[block |-> Head(queue), name |-> Head(queue),
                                   mine |-> FALSE, put |-> FALSE]}
        /\ UNCHANGED <<setup, pc, phase, todo, done, submit, medium, cut, jobs, got, count,
                       faults, result>>
    BY <1>1 DEF WorkerTakes
  <2>2. Head(queue) \in Idx /\ Head(queue) \in Waiting
    <3>1. 1 \in DOMAIN queue /\ Head(queue) = queue[1] /\ Head(queue) \in Idx
      BY <2>1, TailLoses DEF TypeOK
    <3> QED
      BY <3>1 DEF Waiting, Range
  <2>3. Head(queue) \notin InFlight
    BY <2>2 DEF Places
  <2>4. /\ flying' \subseteq Request /\ IsFiniteSet(flying')
        /\ InFlight' = InFlight \cup {Head(queue)} /\ Lone(Open')
        /\ (\A f \in flying : ~f.put) => \A f \in flying' : ~f.put
        /\ (\A f \in flying : f.name = f.block) => \A f \in flying' : f.name = f.block
    BY <2>1, <2>2, <2>3, RequestAdded DEF TypeOK, Places, Counts
  <2>5. Reading => \A f \in flying' : f.name = f.block
    BY <2>4 DEF Answers
  <2>6. /\ Places' /\ Counts' /\ Answers' /\ Causes' /\ Media' /\ Endings'
        /\ queue' \in Seq(Idx) /\ Begun
    BY <2>1, <2>4, <2>5, Departure
  <2>7. TypeOK'
    BY <2>1, <2>4, <2>6 DEF TypeOK
  <2>8. kind # "iscsi" /\ kind # "rbdaio" /\ phase # "scrub" /\ (pc = "end" => Reading)
    BY <2>1 DEF Pooled, Control
  <2>9. Control'
    BY <2>1, <2>4, <2>6, <2>8, Constant, AskedKept DEF Control, Begun, Looping, Pooled, Reading
  <2>10. Frames'
    BY <2>1, <2>8, Constant DEF Frames
  <2> QED
    BY <2>6, <2>7, <2>9, <2>10
<1>2. ASSUME NEW f \in flying, WorkerEnds(f) PROVE IInv'
  <2>1. f \in Open /\ kind # "iscsi" /\ kind # "rbdaio" /\ phase # "scrub"
        /\ (pc = "end" => Reading)
    BY <1>2 DEF WorkerEnds, Open, Control, Pooled
  <2>2. f.block \in Idx
    BY DEF TypeOK, Request
  <2>3. PICK how \in {"whole", "short", "error"} :
           Serve(f.block, how) /\ done' = Append(done, Answer(f.block, f.block, how))
    BY <1>2 DEF WorkerEnds
  <2>4. /\ flying' = flying \ {f}
        /\ UNCHANGED <<setup, pc, phase, todo, queue, submit, cut, jobs, got, count, result>>
    BY <1>2 DEF WorkerEnds
  <2>5. /\ TypeOK' /\ Places' /\ Counts' /\ Answers' /\ Causes' /\ Media' /\ Endings' /\ Begun
    BY <2>1, <2>2, <2>3, <2>4, Arrival
  <2>6. Control'
    BY <2>1, <2>4, <2>5, Constant, AskedKept DEF Control, Begun, Looping, Pooled, Reading
  <2>7. Frames'
    BY <2>1, <2>4, Constant DEF Frames
  <2> QED
    BY <2>5, <2>6, <2>7
<1> QED
  BY <1>1, <1>2

\* rbdaio hands a request to librbd.  The call of _submit_aio_reads has not done
\* so before: what it would overwrite in the variable of the callbacks is its own.
LEMMA SubmittedStep ==
    ASSUME IInv, Submitted PROVE IInv'
<1> USE DEF IInv
<1>1. /\ kind = "rbdaio" /\ submit \in {"called", "in"} /\ queue # <<>>
      /\ Outstanding < setup.sim /\ queue' = Tail(queue)
      /\ flying' = {IF f.mine THEN [f EXCEPT !.name = Head(queue)] ELSE f : f \in flying}
                   \cup {[block |-> Head(queue), name |-> Head(queue),
                          mine |-> TRUE, put |-> FALSE]}
      /\ UNCHANGED <<setup, pc, phase, todo, done, submit, medium, cut, jobs, got, count,
                     faults, result>>
  BY DEF Submitted, Submittable
<1>2. Head(queue) \in Idx /\ Head(queue) \in Waiting
  <2>1. 1 \in DOMAIN queue /\ Head(queue) = queue[1] /\ Head(queue) \in Idx
    BY <1>1, TailLoses DEF TypeOK
  <2> QED
    BY <2>1 DEF Waiting, Range
<1>3. Head(queue) \notin InFlight
  BY <1>2 DEF Places
<1>4. Looping /\ phase # "scrub" /\ pc \notin {"end", "close"}
  BY <1>1 DEF Control, Looping
<1>5. flying \subseteq Request /\ IsFiniteSet(flying) /\ Lone(Open)
  BY DEF TypeOK, Counts, Places
<1>6. /\ flying' \subseteq Request /\ IsFiniteSet(flying')
      /\ InFlight' = InFlight \cup {Head(queue)} /\ Lone(Open')
      /\ (\A f \in flying : ~f.put) => \A f \in flying' : ~f.put
  BY <1>1, <1>2, <1>3, <1>5, RequestRenames
<1>7. ASSUME Reading
      PROVE  /\ \A f \in flying' : f.name = f.block
             /\ Outstanding' = Outstanding + 1
             /\ Outstanding + 1 >= setup.sim \/ Len(queue) = 1
  <2>1. ~Full
    BY <1>1, OutstandingIs DEF Full
  <2>2. NoneMine /\ ((submit = "called" /\ Len(queue) = 1) \/ (submit = "in" /\ Nearly))
    BY <1>1, <1>4, <1>7, <2>1 DEF Frames
  <2>3. {IF f.mine THEN [f EXCEPT !.name = Head(queue)] ELSE f : f \in flying} = flying
    BY <2>2 DEF NoneMine
  <2>4. flying' = flying \cup {[block |-> Head(queue), name |-> Head(queue),
                                mine |-> TRUE, put |-> FALSE]}
    BY <1>1, <2>3
  <2>5. /\ (\A f \in flying : f.name = f.block) => \A f \in flying' : f.name = f.block
        /\ Cardinality(Open') = Cardinality(Open) + 1
    BY <1>2, <1>3, <1>5, <2>4, RequestAdded
  <2>6. Outstanding' = Cardinality(Open') + Len(done')
    BY DEF Outstanding, Open
  <2>7. Outstanding' = Outstanding + 1
    BY <1>1, <2>5, <2>6, OutstandingIs
  <2>8. Outstanding + 1 >= setup.sim \/ Len(queue) = 1
    BY <1>1, <2>2, OutstandingIs DEF Nearly
  <2> QED
    BY <1>7, <2>5, <2>7, <2>8 DEF Answers
<1>8. /\ Places' /\ Counts' /\ Answers' /\ Causes' /\ Media' /\ Endings'
      /\ queue' \in Seq(Idx) /\ Begun
  BY <1>1, <1>6, <1>7, Departure
<1>9. TypeOK'
  BY <1>1, <1>6, <1>8 DEF TypeOK
<1>10. Control'
  BY <1>1, <1>4, <1>6, <1>8, Constant, AskedKept DEF Control, Begun, Looping, Pooled, Reading
<1>11. Frames'
  <2>1. ASSUME Reading PROVE Full'
    <3>1. Len(queue) = 1 => queue' = <<>>
      BY <1>1 DEF TypeOK
    <3> QED
      BY <1>1, <1>7, <2>1, <3>1, OutstandingIs DEF Full
  <2> QED
    BY <1>1, <2>1, Constant DEF Frames
<1> QED
  BY <1>8, <1>9, <1>10, <1>11

\* The loop of _submit_aio_... ends, a callback runs or returns.
LEMMA AioStep ==
    ASSUME IInv,
           AllSubmitted \/ (\E f \in flying : AioCallback(f)) \/ \E f \in flying : AioReleases(f)
    PROVE  IInv'
<1> USE DEF IInv
<1>1. CASE AllSubmitted
  <2>1. /\ kind = "rbdaio" /\ submit \in {"called", "in"} /\ ~Submittable
        /\ submit' = (IF submit = "in" THEN "ready" ELSE "out")
        /\ UNCHANGED <<setup, pc, phase, todo, queue, flying, done, medium, cut, jobs, got,
                       count, faults, result>>
    BY <1>1 DEF AllSubmitted
  <2>2. Looping' = Looping /\ Begun' = Begun /\ Looping /\ Begun /\ result = "none"
    BY <2>1 DEF Looping, Begun, Control
  <2>3. /\ Places' /\ Counts' /\ Answers' /\ Media' /\ Outstanding' = Outstanding
    BY <2>1, <2>2, Moved DEF Media
  <2>4. TypeOK'
    BY <2>1 DEF TypeOK
  <2>5. Control'
    BY <2>1, <2>2, Constant, AskedKept DEF Control, Pooled, Reading
  <2>6. Causes' /\ Endings'
    BY <2>1, <2>2, Constant DEF Causes, Cause, Endings
  <2>7. Frames'
    <3>1. Full' /\ Nearly'
      BY <2>1, <2>3, OutstandingIs DEF Full, Nearly, Submittable
    <3> QED
      BY <2>1, <3>1 DEF Frames
  <2> QED
    BY <2>3, <2>4, <2>5, <2>6, <2>7
<1>2. ASSUME NEW f \in flying, AioCallback(f) PROVE IInv'
  <2>1. f \in Open /\ kind = "rbdaio"
    BY <1>2 DEF AioCallback, Open
  <2>2. f.block \in Idx /\ f.name \in Idx
    BY DEF TypeOK, Request
  <2>3. PICK how \in {"whole", "short", "error"} :
           Serve(f.block, how) /\ done' = Append(done, Answer(f.name, f.block, how))
    BY <1>2 DEF AioCallback
  <2>4. /\ \/ flying' = flying \ {f}
           \/ ~Reading /\ flying' = (flying \ {f}) \cup {[f EXCEPT !.put = TRUE]}
        /\ Reading => flying' = flying \ {f}
        /\ UNCHANGED <<setup, pc, phase, todo, queue, submit, cut, jobs, got, count, result>>
    BY <1>2 DEF AioCallback
  <2>5. Reading => f.name = f.block
    BY DEF Answers
  <2>6. /\ TypeOK' /\ Places' /\ Counts' /\ Answers' /\ Causes' /\ Media' /\ Endings' /\ Begun
        /\ Open' = Open \ {f} /\ flying # {} /\ Len(done') = Len(done) + 1
        /\ Cardinality(Open') = Cardinality(Open) - 1
    BY <2>1, <2>2, <2>3, <2>4, <2>5, Arrival
  <2>7. phase # "scrub" /\ (pc = "end" => Reading)
    BY <2>6 DEF Control
  <2>8. Control'
    BY <2>1, <2>4, <2>6, <2>7, Constant, AskedKept
       DEF Control, Begun, Looping, Pooled, Reading
  <2>9. Frames'
    <3>1. Outstanding' = Cardinality(Open') + Len(done')
      BY DEF Outstanding, Open
    <3>2. Outstanding' = Outstanding
      BY <2>6, <3>1, OutstandingIs
    <3>3. Full' = Full /\ Nearly' = Nearly
      BY <2>4, <3>2 DEF Full, Nearly
    <3>4. Reading /\ NoneMine => NoneMine'
      BY <2>4 DEF NoneMine
    <3>5. Looping' = Looping
      BY <2>4 DEF Looping
    <3> QED
      BY <2>4, <3>3, <3>4, <3>5, Constant DEF Frames
  <2> QED
    BY <2>6, <2>8, <2>9
<1>3. ASSUME NEW f \in flying, AioReleases(f) PROVE IInv'
  <2>1. /\ kind = "rbdaio" /\ f.put /\ flying' = flying \ {f}
        /\ UNCHANGED <<setup, pc, phase, todo, queue, done, submit, medium, cut, jobs, got,
                       count, faults, result>>
    BY <1>3 DEF AioReleases
  <2>2. Open' = Open
    BY <2>1 DEF Open
  <2>3. ~Reading /\ Begun /\ pc # "end"
    BY <2>1 DEF Control
  <2>4. /\ Waiting' = Waiting /\ InFlight' = InFlight /\ Completed' = Completed
        /\ Delivered' = Delivered /\ Asked' = Asked /\ Looping' = Looping /\ Begun' = Begun
    BY <2>1, <2>2, AskedKept DEF Waiting, InFlight, Completed, Delivered, Looping, Begun
  <2>5. Places'
    BY <2>1, <2>2, <2>4 DEF Places
  <2>6. Counts'
    BY <2>1, <2>4, FS_RemoveElement DEF Counts
  <2>7. Answers' /\ Causes'
    BY <2>1, <2>3, Constant DEF Answers, Causes, Cause
  <2>8. Media'
    <3>1. Wrote' = Wrote
      BY <2>1 DEF Wrote
    <3> QED
      BY <2>1, <2>3, <2>4, <3>1, SoFarKept, Constant DEF Media
  <2>9. Endings'
    BY <2>1, <2>2, <2>4, Constant DEF Endings
  <2>10. Frames'
    BY <2>1, <2>3, Constant DEF Frames
  <2>11. TypeOK'
    BY <2>1 DEF TypeOK
  <2>12. Control'
    BY <2>1, <2>3, <2>4, Constant, AskedKept DEF Control, Pooled, Reading
  <2> QED
    BY <2>5, <2>6, <2>7, <2>8, <2>9, <2>10, <2>11, <2>12
<1> QED
  BY <1>1, <1>2, <1>3

-----------------------------------------------------------------------------
(* Results reach the caller.                                               *)

LEMMA GotGrows ==
    ASSUME TypeOK, Places, Counts, NEW e \in Entry, e.data \notin Delivered,
           got' = got \cup {e}
    PROVE  /\ got' \subseteq Entry /\ Delivered' = Delivered \cup {e.data}
           /\ \A x, y \in got' : x.data = y.data => x = y
           /\ Cardinality(got') = count + 1 /\ count + 1 \in 0..Blocks
<1>1. \A x \in got : x.data # e.data
  BY DEF Delivered, Datas
<1>2. \A x, y \in got' : x.data = y.data => x = y
  BY <1>1 DEF Places
<1>3. Delivered' = Delivered \cup {e.data}
  BY DEF Delivered, Datas
<1>4. got' \subseteq Entry /\ Delivered \in SUBSET Idx /\ Delivered' \in SUBSET Idx
  BY DEF TypeOK, Delivered, Datas, Entry
<1>5. IsFiniteSet(got)
  BY <1>4, GotFinite DEF Delivered, Places
<1>6. Cardinality(got') = count + 1
  BY <1>1, <1>5, FS_AddElement DEF Counts
<1>7. Cardinality(got') = Cardinality(Delivered')
  BY <1>2, <1>4, GotFinite DEF Delivered
<1>8. Cardinality(Delivered') \in 0..Blocks
  BY <1>4, SubsetFinite
<1> QED
  BY <1>2, <1>3, <1>4, <1>6, <1>7, <1>8

\* What a result does to the calling thread.
LEMMA DeliverCases ==
    ASSUME NEW e, Deliver(e), TypeOK, Control, Looping
    PROVE  /\ result = "none"
           /\ \/ /\ e.how = "error" /\ UNCHANGED <<got, count>> /\ result' = "failed"
                 /\ ~Looping' /\ pc' \in {"close", "end"} /\ (pc' = "end" => phase = "check")
              \/ e.how # "error" /\ got' = got \cup {e} /\ count' = count + 1
                 /\ UNCHANGED <<pc, result>> /\ Looping'
           /\ (Begun /\ Begun')
BY DEF Deliver, Raise, Looping, Control, Begun

\* A completion is collected.
LEMMA Collection ==
    ASSUME IInv, Looping, NEW k \in DOMAIN done, done' \in Seq(Entry), Lost(done, k, done'),
           Deliver(done[k]),
           UNCHANGED <<setup, phase, todo, queue, flying, medium, cut, jobs, faults>>
    PROVE  /\ Places' /\ Counts' /\ Answers' /\ Causes' /\ Media' /\ Endings'
           /\ got' \subseteq Entry /\ count' \in 0..Blocks
<1> USE DEF IInv
<1> DEFINE e == done[k]
<1>1. e \in Entry /\ e \in Range(done)
  BY DEF TypeOK, Range
<1>2. /\ Apart(done') /\ Completed' = Completed \ {e.data}
      /\ Range(done) = Range(done') \cup {e}
  BY AnswersShrink DEF TypeOK, Places, Completed
<1>3. Deliver(e)
  OBVIOUS
<1> HIDE DEF e
<1>4. /\ result = "none" /\ Begun /\ Begun'
      /\ \/ /\ e.how = "error" /\ UNCHANGED <<got, count>> /\ result' = "failed"
            /\ ~Looping'
         \/ e.how # "error" /\ got' = got \cup {e} /\ count' = count + 1
            /\ result' = result /\ Looping'
  BY <1>3, DeliverCases
<1>5. e.data \in Completed /\ e.data \notin Delivered
  BY <1>1 DEF Completed, Datas, Places
<1>6. Open' = Open /\ Waiting' = Waiting /\ InFlight' = InFlight /\ Asked' = Asked
  BY AskedKept DEF Open, Waiting, InFlight
<1>7. CASE e.how = "error" /\ got' = got /\ count' = count /\ result' = "failed" /\ ~Looping'
  <2>1. Delivered' = Delivered
    BY <1>7 DEF Delivered
  <2>2. Places'
    BY <1>2, <1>5, <1>6, <1>7, <2>1 DEF Places
  <2>3. Counts'
    BY <1>4, <1>6, <1>7 DEF Counts
  <2>4. Answers'
    BY <1>2, <1>7, Constant DEF Answers
  <2>5. Causes'
    BY <1>1, <1>2, <1>7, Constant DEF Causes, Cause
  <2>6. Media' /\ Endings'
    BY <1>4, <1>7 DEF Media, Endings
  <2> QED
    BY <1>7, <2>2, <2>3, <2>4, <2>5, <2>6 DEF TypeOK
<1>8. CASE e.how # "error" /\ got' = got \cup {e} /\ count' = count + 1
           /\ result' = result /\ Looping'
  <2>1. /\ got' \subseteq Entry /\ Delivered' = Delivered \cup {e.data}
        /\ \A x, y \in got' : x.data = y.data => x = y
        /\ Cardinality(got') = count + 1 /\ count + 1 \in 0..Blocks
    BY <1>1, <1>5, <1>8, GotGrows
  <2>2. Places'
    BY <1>2, <1>5, <1>6, <1>8, <2>1 DEF Places
  <2>3. Counts'
    BY <1>4, <1>6, <1>8, <2>1 DEF Counts
  <2>4. Range(done') \cup got' = Range(done) \cup got
    BY <1>2, <1>8
  <2>5. Answers'
    BY <1>8, <2>4, Constant DEF Answers
  <2>6. Causes'
    BY <1>2, <1>4, <1>8, Constant DEF Causes, Cause
  <2>7. Wrote' = Wrote
    BY <2>4 DEF Wrote
  <2>8. Media' /\ Endings'
    BY <1>4, <1>8, <2>7, SoFarKept, Constant DEF Media, Endings
  <2> QED
    BY <1>8, <2>1, <2>2, <2>3, <2>5, <2>6, <2>8
<1> QED
  BY <1>4, <1>7, <1>8

\* get_completed() of the executor, read_get_completed() and
\* write_get_completed() of rbdaio hand over a result.
LEMMA CollectStep ==
    ASSUME IInv, (\E k \in DOMAIN done : PoolGet(k)) \/ AioGot
    PROVE  IInv'
<1> USE DEF IInv
<1>1. ASSUME NEW k \in DOMAIN done, PoolGet(k) PROVE IInv'
  <2>1. /\ Pooled /\ Looping /\ submit = "out" /\ submit' = "out"
        /\ done' = RemoveAt(done, k) /\ Deliver(done[k])
        /\ UNCHANGED <<setup, phase, todo, queue, flying, medium, cut, jobs, faults>>
    BY <1>1 DEF PoolGet, Collecting, Looping, Control, Pooled
  <2>2. done' \in Seq(Entry) /\ Lost(done, k, done')
    BY <2>1, RemoveAtLoses DEF TypeOK
  <2>3. /\ Places' /\ Counts' /\ Answers' /\ Causes' /\ Media' /\ Endings'
        /\ got' \subseteq Entry /\ count' \in 0..Blocks
    BY <2>1, <2>2, Collection
  <2>4. /\ result = "none" /\ Begun /\ Begun'
        /\ \/ /\ result' = "failed" /\ ~Looping' /\ pc' \in {"close", "end"}
              /\ (pc' = "end" => phase = "check")
           \/ UNCHANGED <<pc, result>> /\ Looping'
    BY <2>1, DeliverCases
  <2>5. TypeOK'
    BY <2>1, <2>2, <2>3, <2>4 DEF TypeOK
  <2>6. phase = "check" => Reading
    BY <2>4 DEF Control, Reading
  <2>7. kind # "iscsi" /\ kind # "rbdaio" /\ phase # "scrub"
    BY <2>1, EmptySeq DEF Pooled, Control
  <2>8. Control'
    BY <2>1, <2>4, <2>6, <2>7, Constant, AskedKept DEF Control, Looping, Pooled, Reading
  <2>9. Frames'
    BY <2>1, <2>7, Constant DEF Frames
  <2> QED
    BY <2>3, <2>5, <2>8, <2>9
<1>2. CASE AioGot
  <2>1. /\ kind = "rbdaio" /\ Looping /\ submit = "ready" /\ submit' = "out" /\ done # <<>>
        /\ done' = Tail(done) /\ Deliver(Head(done)) /\ pc \in {"poll", "collect"}
        /\ UNCHANGED <<setup, phase, todo, queue, flying, medium, cut, jobs, faults>>
    BY <1>2 DEF AioGot, Collecting, Looping, Control
  <2>2. done' \in Seq(Entry) /\ Lost(done, 1, done') /\ 1 \in DOMAIN done
        /\ Head(done) = done[1]
    BY <2>1, TailLoses DEF TypeOK
  <2>3. /\ Places' /\ Counts' /\ Answers' /\ Causes' /\ Media' /\ Endings'
        /\ got' \subseteq Entry /\ count' \in 0..Blocks
    BY <2>1, <2>2, Collection
  <2>4. /\ result = "none" /\ Begun /\ Begun'
        /\ \/ /\ result' = "failed" /\ ~Looping' /\ pc' \in {"close", "end"}
              /\ (pc' = "end" => phase = "check")
           \/ UNCHANGED <<pc, result>> /\ Looping'
    BY <2>1, DeliverCases
  <2>5. TypeOK'
    BY <2>1, <2>2, <2>3, <2>4 DEF TypeOK
  <2>6. phase = "check" => Reading
    BY <2>4 DEF Control, Reading
  <2>7. kind # "iscsi" /\ phase # "scrub"
    BY <2>1 DEF Control
  <2>8. Control'
    BY <2>1, <2>4, <2>6, <2>7, Constant, AskedKept DEF Control, Looping, Pooled, Reading
  <2>9. Frames'
    <3>1. ASSUME Reading PROVE Nearly'
      <4>1. Full
        BY <2>1, <3>1 DEF Frames
      <4>2. Open' = Open /\ Len(done') = Len(done) - 1
        BY <2>1, <2>2 DEF Open, Lost
      <4>3. Outstanding' = Cardinality(Open') + Len(done')
        BY DEF Outstanding, Open
      <4>4. Outstanding' = Outstanding - 1
        BY <4>2, <4>3, OutstandingIs
      <4> QED
        BY <2>1, <4>1, <4>4, OutstandingIs DEF Full, Nearly
    <3> QED
      BY <2>1, <2>4, <3>1, Constant DEF Frames
  <2> QED
    BY <2>3, <2>5, <2>8, <2>9
<1> QED
  BY <1>1, <1>2

\* A turn of ..._get_completed() of rbdaio begins.
LEMMA TurnStep ==
    ASSUME IInv, AioTurn PROVE IInv'
<1> USE DEF IInv
<1>1. /\ kind = "rbdaio" /\ pc \in {"poll", "collect"} /\ submit = "out" /\ submit' = "in"
      /\ flying' = {[f EXCEPT !.mine = FALSE] : f \in flying}
      /\ UNCHANGED <<setup, pc, phase, todo, queue, done, medium, cut, jobs, got, count,
                     faults, result>>
      /\ ~AioIdle
  BY DEF AioTurn, Collecting, NewFrame
<1>2. /\ flying' \subseteq Request /\ IsFiniteSet(flying')
      /\ InFlight' = InFlight /\ Lone(Open') /\ NoneMine'
      /\ (\A f \in flying : ~f.put) => \A f \in flying' : ~f.put
      /\ (\A f \in flying : f.name = f.block) => \A f \in flying' : f.name = f.block
      /\ flying = {} => flying' = {}
      /\ Cardinality(Open') = Cardinality(Open)
  BY <1>1, Reframed DEF TypeOK, Counts, Places
<1>3. Looping /\ Looping' /\ Begun /\ Begun' /\ result = "none" /\ phase # "scrub"
  <2>1. Looping /\ Looping' /\ Begun /\ Begun' /\ result = "none"
    BY <1>1 DEF Looping, Begun, Control
  <2>2. phase = "scrub" => queue = <<>> /\ Open = {} /\ done = <<>>
    BY DEF Control, Open
  <2>3. Cardinality({}) = 0 /\ Len(<<>>) = 0
    BY FS_EmptySet
  <2>4. phase = "scrub" => AioIdle
    BY <2>2, <2>3, OutstandingIs DEF AioIdle
  <2> QED
    BY <1>1, <2>1, <2>4
<1>4. /\ Waiting' = Waiting /\ Completed' = Completed /\ Delivered' = Delivered
      /\ Asked' = Asked
  BY <1>1, AskedKept DEF Waiting, Completed, Delivered
<1>5. Places'
  BY <1>1, <1>2, <1>3, <1>4 DEF Places
<1>6. Counts'
  BY <1>1, <1>2, <1>3, <1>4 DEF Counts
<1>7. Answers'
  BY <1>1, <1>2, Constant DEF Answers
<1>8. Causes' /\ Endings'
  BY <1>1, <1>3, Constant DEF Causes, Cause, Endings
<1>9. Media'
  <2>1. Wrote' = Wrote
    BY <1>1 DEF Wrote
  <2> QED
    BY <1>1, <1>3, <2>1, SoFarKept, Constant DEF Media
<1>10. TypeOK'
  BY <1>1, <1>2 DEF TypeOK
<1>11. Control'
  BY <1>1, <1>2, <1>3, Constant, AskedKept DEF Control, Pooled, Reading
<1>12. Frames'
  <2>1. Outstanding' = Cardinality(Open') + Len(done')
    BY DEF Outstanding, Open
  <2>2. Outstanding' = Outstanding
    BY <1>1, <1>2, <2>1, OutstandingIs
  <2>3. ASSUME Reading PROVE Nearly
    BY <1>1, <1>3, <2>3 DEF Frames
  <2>4. Nearly' = Nearly
    BY <1>1, <2>2 DEF Nearly
  <2> QED
    BY <1>1, <1>2, <2>3, <2>4, Constant DEF Frames
<1> QED
  BY <1>5, <1>6, <1>7, <1>8, <1>9, <1>10, <1>11, <1>12

-----------------------------------------------------------------------------
(* A loop ends.                                                            *)

\* Nothing is under way and no result has been an error: every block that was
\* asked for has been delivered.
LEMMA AllDelivered ==
    ASSUME IInv, Looping, queue = <<>>, Open = {}, done = <<>>
    PROVE  /\ Begun /\ Delivered = Asked /\ jobs = count
           /\ ~Reading => Wrote = Asked
<1> USE DEF IInv
<1>1. Begun /\ result = "none"
  BY DEF Begun, Looping, Control
<1>2. Waiting = {} /\ InFlight = {} /\ Completed = {} /\ Range(done) = {}
  BY EmptyRange DEF Waiting, InFlight, Completed, Datas
<1>3. Delivered = Asked
  BY <1>2 DEF Places
<1>4. Delivered \in SUBSET Idx
  BY DEF TypeOK, Delivered, Datas, Entry
<1>5. Cardinality(got) = Cardinality(Delivered)
  BY <1>4, GotFinite DEF Delivered, Places
<1>6. jobs = count
  BY <1>1, <1>3, <1>5 DEF Counts
<1>7. ASSUME ~Reading PROVE Wrote = Asked
  <2>1. \A e \in got : e.how = "whole"
    BY <1>7 DEF Answers, TypeOK, Entry
  <2>2. {e \in Range(done) \cup got : e.how = "whole"} = got
    BY <1>2, <2>1
  <2> QED
    BY <1>3, <2>2 DEF Wrote, Delivered
<1> QED
  BY <1>1, <1>3, <1>6, <1>7

\* The calling thread has seen all results, or a poll has seen none.
LEMMA CollectedStep ==
    ASSUME IInv, pc \in {"poll", "collect"}, Collected, submit' = "out",
           kind = "rbdaio" \/ submit = "out",
           pc = "collect" => queue = <<>> /\ Open = {} /\ done = <<>>,
           pc = "poll" /\ kind = "iscsi" => queue = <<>>,
           UNCHANGED <<setup, queue, flying, done, medium, cut, faults>>
    PROVE  IInv'
<1> USE DEF IInv
<1>1. Looping /\ Begun /\ result = "none"
  BY DEF Looping, Begun, Control
<1>2. CASE pc = "poll" /\ pc' = "loop" /\ UNCHANGED <<phase, todo, jobs, got, count, result>>
  <2>1. ~Reading /\ phase # "scrub" /\ Looping' /\ Begun'
    BY <1>1, <1>2, SetupTypes DEF Control, Looping, Begun, Reading
  <2>2. /\ Places' /\ Counts' /\ Answers' /\ Media'
    BY <1>1, <1>2, <2>1, Moved
  <2>3. TypeOK'
    BY <1>2 DEF TypeOK
  <2>4. Control'
    BY <1>1, <1>2, <2>1, Constant, AskedKept DEF Control, Pooled, Reading
  <2>5. Frames' /\ Causes' /\ Endings'
    BY <1>1, <1>2, <2>1, Constant DEF Frames, Causes, Cause, Endings
  <2> QED
    BY <2>2, <2>3, <2>4, <2>5
<1>3. ASSUME pc = "collect"
      PROVE  /\ Delivered = Asked /\ jobs = count /\ Asked = Asks
             /\ (~Reading => Wrote = Asked) /\ todo = {}
  <2>1. Delivered = Asked /\ jobs = count /\ (~Reading => Wrote = Asked)
    BY <1>1, <1>3, AllDelivered
  <2>2. todo = {}
    BY <1>3 DEF Control
  <2> QED
    BY <2>1, <2>2 DEF Asked
<1>4. CASE pc = "collect" /\ phase = "check" /\ Enter("backup", Planned("read"))
           /\ UNCHANGED result
  <2>1. setup.task = "backup" /\ Reading
    BY <1>1, <1>4 DEF Control, Reading
  <2>2. Asks' = Planned("read")
    BY <1>4, Constant DEF Asks, Enter
  <2>3. Places' /\ Counts' /\ Answers' /\ Frames' /\ Causes' /\ Endings'
    BY <1>1, <1>4, <2>2, Entered
  <2>4. Looping' /\ Begun' /\ phase' = "backup" /\ todo' = Planned("read") /\ pc' = "loop"
        /\ jobs' = 0 /\ got' = {} /\ count' = 0
    BY <1>1, <1>4 DEF Enter, Looping, Begun
  <2>5. TypeOK'
    BY <1>1, <1>4, <2>4, IndexFinite DEF TypeOK, Planned
  <2>6. Control'
    BY <1>1, <1>4, <2>1, <2>2, <2>4, Constant DEF Control, Pooled, Reading
  <2>7. Media'
    BY <2>1, <2>4, Constant DEF Media
  <2> QED
    BY <2>3, <2>5, <2>6, <2>7
<1>5. CASE pc = "collect" /\ phase = "sparse" /\ Enter("data", Idx \ Planned("sparse"))
           /\ UNCHANGED result
  <2>1. setup.task = "restore" /\ ~Reading
    BY <1>1, <1>5, SetupTypes DEF Control, Reading
  <2>2. Asks' \subseteq Idx \ Planned("sparse")
    BY <1>5 DEF Asks, Enter, Planned
  <2>3. Places' /\ Counts' /\ Answers' /\ Frames' /\ Causes' /\ Endings' /\ Wrote' = {}
    BY <1>1, <1>5, <2>2, Entered
  <2>4. Looping' /\ Begun' /\ phase' = "data" /\ todo' = Idx \ Planned("sparse")
        /\ pc' = "loop" /\ jobs' = 0 /\ got' = {} /\ count' = 0
    BY <1>1, <1>5 DEF Enter, Looping, Begun
  <2>5. TypeOK'
    BY <1>1, <1>5, <2>4, IndexFinite DEF TypeOK
  <2>6. Control'
    BY <1>1, <1>5, <2>1, <2>4, Constant DEF Control, Pooled, Reading
  <2>7. Media'
    <3>1. medium = SoFar /\ Wrote = Asks
      BY <1>1, <1>3, <1>5, <2>1 DEF Media
    <3>2. SoFar = [c \in Cell |-> IF c \in Wrote \/ (c = Beyond /\ setup.short /\ End \in Wrote)
                                  THEN "zero" ELSE Opened[c]]
      BY <1>5 DEF SoFar
    <3>3. SoFar' = [c \in Cell |-> IF Zeroed(c) THEN "zero" ELSE Opened[c]]
      BY <2>3, <2>4, Constant DEF SoFar, Zeroed
    <3>4. \A c \in Cell :
             (c \in Wrote \/ (c = Beyond /\ setup.short /\ End \in Wrote)) <=> Zeroed(c)
      BY <1>5, <3>1 DEF Zeroed, Asks
    <3>5. SoFar' = SoFar
      BY <3>2, <3>3, <3>4
    <3> QED
      BY <2>1, <2>4, <3>1, <3>5, Constant DEF Media
  <2> QED
    BY <2>3, <2>5, <2>6, <2>7
<1>6. CASE pc = "collect" /\ phase \in {"backup", "data"} /\ Finish(jobs = count)
           /\ UNCHANGED <<phase, todo, jobs, got, count>>
  <2>1. pc' = "close" /\ result' = "ok" /\ ~Looping' /\ Begun'
    BY <1>3, <1>6 DEF Finish, Looping, Begun
  <2>2. /\ Places' /\ Counts' /\ Answers' /\ Media' /\ Open' = Open /\ Delivered' = Delivered
    BY <1>1, <1>6, <2>1, Moved
  <2>3. TypeOK'
    BY <1>6, <2>1 DEF TypeOK
  <2>4. Control'
    BY <1>1, <1>6, <2>1, Constant, AskedKept DEF Control, Pooled, Reading
  <2>5. Frames' /\ Causes'
    BY <1>3, <1>6, <2>1, EmptyRange DEF Frames, Causes
  <2>6. ASSUME setup.task = "backup" PROVE Delivered = Planned("read")
    <3>1. phase = "backup"
      BY <1>1, <1>6, <2>6 DEF Control
    <3> QED
      BY <1>3, <1>6, <3>1 DEF Asks
  <2>7. ASSUME setup.task = "restore" PROVE medium = Expected
    <3>1. phase = "data" /\ ~Reading
      BY <1>1, <1>6, <2>7 DEF Control, Reading
    <3>2. medium = SoFar /\ Wrote = Planned("data") \cup Planned("badmeta")
      BY <1>1, <1>3, <1>6, <3>1 DEF Media, Asks
    <3> QED
      BY <3>1, <3>2 DEF SoFar, Expected, Zeroed
  <2>8. Endings'
    BY <1>6, <2>2, <2>6, <2>7, Constant DEF Endings
  <2> QED
    BY <2>2, <2>3, <2>4, <2>5, <2>8
<1>7. CASE pc = "collect" /\ jobs # count
  BY <1>3, <1>7
<1> QED
  BY <1>2, <1>3, <1>4, <1>5, <1>6, <1>7 DEF Collected

LEMMA EmptyStep ==
    ASSUME IInv, PoolEmpty \/ AioEmpty \/ IscsiEmpty PROVE IInv'
<1> USE DEF IInv
<1>1. CASE PoolEmpty
  <2>1. /\ Pooled /\ pc \in {"poll", "collect"} /\ submit = "out" /\ Collected
        /\ pc = "poll" \/ (queue = <<>> /\ flying = {} /\ done = <<>>)
        /\ UNCHANGED <<setup, queue, flying, done, submit, medium, cut, faults>>
    BY <1>1 DEF PoolEmpty, Collecting, device, Control, Pooled
  <2>2. flying = {} => Open = {}
    BY DEF Open
  <2>3. kind # "iscsi"
    BY <2>1 DEF Pooled
  <2> QED
    BY <2>1, <2>2, <2>3, CollectedStep
<1>2. CASE AioEmpty
  <2>1. /\ kind = "rbdaio" /\ pc \in {"poll", "collect"} /\ Collected /\ submit' = "out"
        /\ AioIdle \/ pc = "poll"
        /\ UNCHANGED <<setup, queue, flying, done, medium, cut, faults>>
    BY <1>2 DEF AioEmpty, Collecting
  <2>2. AioIdle => queue = <<>> /\ Open = {} /\ done = <<>>
    BY OutstandingIs DEF AioIdle
  <2> QED
    BY <2>1, <2>2, CollectedStep
<1>3. CASE IscsiEmpty
  <2>1. /\ kind = "iscsi" /\ pc \in {"poll", "collect"} /\ Collected /\ submit = "out"
        /\ queue = <<>> /\ flying = {} /\ done = <<>>
        /\ UNCHANGED <<setup, queue, flying, done, submit, medium, cut, faults>>
    BY <1>3 DEF IscsiEmpty, Collecting, device, Control
  <2>2. Open = {}
    BY <2>1 DEF Open
  <2> QED
    BY <2>1, <2>2, CollectedStep
<1> QED
  BY <1>1, <1>2, <1>3

\* The blocks of a loop have been handled; a deep-scrub has read all of them.
LEMMA HandledStep ==
    ASSUME IInv, AllQueued \/ Scrubbed PROVE IInv'
<1> USE DEF IInv
<1>1. CASE AllQueued
  <2>1. /\ pc = "loop" /\ pc' = "collect" /\ phase # "scrub" /\ todo = {} /\ submit = "out"
        /\ UNCHANGED <<setup, phase, todo, jobs, got, count, result, queue, flying, done, submit,
                       medium, cut, faults>>
    BY <1>1 DEF AllQueued, device
  <2>2. Looping /\ Looping' /\ Begun /\ Begun' /\ result = "none"
    BY <2>1 DEF Looping, Begun, Control
  <2>3. /\ Places' /\ Counts' /\ Answers' /\ Media' /\ Outstanding' = Outstanding
    BY <2>1, <2>2, Moved
  <2>4. TypeOK'
    BY <2>1 DEF TypeOK
  <2>5. Control'
    BY <2>1, <2>2, Constant, AskedKept DEF Control, Pooled, Reading
  <2>6. Causes' /\ Endings'
    BY <2>1, <2>2, Constant DEF Causes, Cause, Endings
  <2>7. Frames'
    <3>1. Full => Nearly'
      BY <2>1, <2>3, OutstandingIs DEF Full, Nearly
    <3> QED
      BY <2>1, <2>2, <3>1, Constant DEF Frames
  <2> QED
    BY <2>3, <2>4, <2>5, <2>6, <2>7
<1>2. CASE Scrubbed
  <2>1. /\ pc = "loop" /\ pc' = "close" /\ result' = "ok" /\ phase = "scrub" /\ todo = {}
        /\ UNCHANGED <<setup, phase, todo, jobs, got, count, queue, flying, done, submit,
                       medium, cut, faults>>
    BY <1>2 DEF Scrubbed, device, Finish
  <2>2. Looping /\ ~Looping' /\ Begun /\ Begun' /\ result = "none"
    BY <2>1 DEF Looping, Begun, Control
  <2>3. setup.task = "scrub" /\ queue = <<>> /\ flying = {} /\ done = <<>> /\ submit = "out"
        /\ Reading
    BY <2>1, <2>2 DEF Control, Reading
  <2>4. /\ Places' /\ Counts' /\ Answers' /\ Media' /\ Open' = Open
    BY <2>1, <2>2, Moved
  <2>5. TypeOK'
    BY <2>1 DEF TypeOK
  <2>6. Control'
    BY <2>1, <2>2, <2>3, Constant, AskedKept DEF Control, Pooled, Reading
  <2>7. Causes' /\ Frames'
    BY <2>1, <2>2, <2>3, EmptyRange DEF Causes, Frames
  <2>8. Endings'
    BY <2>1, <2>3, <2>4 DEF Endings, Open
  <2> QED
    BY <2>4, <2>5, <2>6, <2>7, <2>8
<1> QED
  BY <1>1, <1>2

-----------------------------------------------------------------------------
(* Blocks are asked for.                                                   *)

LEMMA Asking ==
    ASSUME IInv, Begun, NEW i \in todo, i \in Asks, todo' = todo \ {i},
           setup' = setup, phase' = phase, jobs' = jobs + 1
    PROVE  /\ i \in Idx /\ i \notin Asked /\ Asks' = Asks /\ Asked' = Asked \cup {i}
           /\ jobs' = Cardinality(Asked') /\ jobs' \in 0..Blocks
           /\ i \notin Waiting /\ i \notin InFlight /\ i \notin Completed /\ i \notin Delivered
<1> USE DEF IInv
<1>1. Asks' = Asks
  BY Constant DEF Asks
<1>2. i \in Idx /\ i \notin Asked /\ Asked' = Asked \cup {i}
  BY <1>1 DEF Asked, TypeOK
<1>3. Asked \in SUBSET Idx /\ Asked' \in SUBSET Idx
  BY <1>2, AsksTypes DEF Asked
<1>4. jobs' = Cardinality(Asked')
  BY <1>2, <1>3, OneMore DEF Counts
<1>5. Cardinality(Asked') \in 0..Blocks
  BY <1>3, SubsetFinite
<1> QED
  BY <1>1, <1>2, <1>4, <1>5 DEF Places

\* A request is put into the queue.
LEMMA Queueing ==
    ASSUME IInv, Looping, NEW i \in todo, i \in Asks,
           todo' = todo \ {i}, jobs' = jobs + 1, queue' = Append(queue, i),
           UNCHANGED <<setup, phase, done, medium, cut, got, count, faults, result>>,
           InFlight' = InFlight, Lone(Open'), IsFiniteSet(flying'),
           Reading => \A f \in flying' : f.name = f.block
    PROVE  /\ Places' /\ Counts' /\ Answers' /\ Causes' /\ Endings'
           /\ Looping' => Media'
           /\ queue' \in Seq(Idx) /\ jobs' \in 0..Blocks /\ Begun /\ result = "none"
           /\ Asks' = Asks /\ queue' # <<>> /\ Len(queue') = Len(queue) + 1
<1> USE DEF IInv
<1>1. Begun /\ result = "none"
  BY DEF Looping, Begun, Control
<1>2. /\ i \in Idx /\ i \notin Asked /\ Asks' = Asks /\ Asked' = Asked \cup {i}
      /\ jobs' = Cardinality(Asked') /\ jobs' \in 0..Blocks
      /\ i \notin Waiting /\ i \notin InFlight /\ i \notin Completed /\ i \notin Delivered
  BY <1>1, Asking
<1>3. /\ queue' \in Seq(Idx) /\ Range(queue') = Range(queue) \cup {i} /\ queue' # <<>>
      /\ Len(queue') = Len(queue) + 1
  BY <1>2, Appended DEF TypeOK
<1>4. Once(queue') /\ Waiting' = Waiting \cup {i}
  BY <1>2, <1>3, QueueGrows DEF Waiting, TypeOK, Places
<1>5. Completed' = Completed /\ Delivered' = Delivered
  BY DEF Completed, Delivered
<1>6. Places'
  <2>1. Apart(done') /\ \A x, y \in got' : x.data = y.data => x = y
    BY DEF Places
  <2>2. /\ Waiting' \cap InFlight' = {} /\ Waiting' \cap Completed' = {}
        /\ Waiting' \cap Delivered' = {} /\ InFlight' \cap Completed' = {}
        /\ InFlight' \cap Delivered' = {} /\ Completed' \cap Delivered' = {}
        /\ Waiting' \cup InFlight' \cup Completed' \cup Delivered' \subseteq Asked'
        /\ Asked' \subseteq Waiting' \cup InFlight' \cup Completed' \cup Delivered'
    BY <1>2, <1>4, <1>5 DEF Places
  <2> QED
    BY <1>4, <2>1, <2>2 DEF Places
<1>7. Counts'
  BY <1>2 DEF Counts
<1>8. Answers' /\ Causes' /\ Endings'
  BY <1>1, Constant DEF Answers, Causes, Cause, Endings
<1>9. ASSUME Looping' PROVE Media'
  <2>1. Wrote' = Wrote
    BY DEF Wrote
  <2>2. Begun'
    BY <1>1, <1>9 DEF Looping, Begun
  <2> QED
    BY <2>1, <2>2, SoFarKept, Constant DEF Media
<1> QED
  BY <1>1, <1>2, <1>3, <1>6, <1>7, <1>8, <1>9

\* read() of a module in the loops of backup().
LEMMA QueueReadStep ==
    ASSUME IInv, NEW i \in Idx,
           FileQueueRead(i) \/ RbdQueueRead(i) \/ IscsiQueueRead(i) \/ RbdAioQueueRead(i)
    PROVE  IInv'
<1> USE DEF IInv
<1>1. /\ pc = "loop" /\ phase \in {"check", "backup"} /\ submit = "out" /\ i \in todo
      /\ todo' = todo \ {i} /\ jobs' = jobs + 1 /\ queue' = Append(queue, i)
      /\ UNCHANGED <<setup, pc, phase, done, medium, cut, got, count, faults, result>>
  BY DEF FileQueueRead, RbdQueueRead, IscsiQueueRead, RbdAioQueueRead, Queued
<1>2. Looping /\ Looping' /\ i \in Asks /\ Begun /\ Begun' /\ result = "none" /\ Reading
  BY <1>1 DEF Looping, Control, Begun, Reading
<1>3. \/ UNCHANGED <<flying, submit>> /\ kind \in {"file", "rbd", "iscsi"}
      \/ /\ kind = "rbdaio" /\ submit' = "called"
         /\ flying' = {[f EXCEPT !.mine = FALSE] : f \in flying}
  BY DEF FileQueueRead, RbdQueueRead, IscsiQueueRead, RbdAioQueueRead, NewFrame
<1>4. /\ flying' \subseteq Request /\ IsFiniteSet(flying')
      /\ InFlight' = InFlight /\ Lone(Open')
      /\ (kind = "rbdaio" => NoneMine')
      /\ (\A f \in flying : ~f.put) => \A f \in flying' : ~f.put
      /\ (\A f \in flying : f.name = f.block) => \A f \in flying' : f.name = f.block
      /\ flying = {} => flying' = {}
      /\ Cardinality(Open') = Cardinality(Open)
  <2>1. CASE UNCHANGED <<flying, submit>> /\ kind \in {"file", "rbd", "iscsi"}
    BY <2>1 DEF InFlight, Open, TypeOK, Places, Counts
  <2>2. CASE flying' = {[f EXCEPT !.mine = FALSE] : f \in flying}
    BY <2>2, Reframed DEF TypeOK, Places, Counts
  <2> QED
    BY <1>3, <2>1, <2>2
<1>5. Reading => \A f \in flying' : f.name = f.block
  BY <1>4 DEF Answers
<1>6. /\ Places' /\ Counts' /\ Answers' /\ Causes' /\ Endings' /\ Media'
      /\ queue' \in Seq(Idx) /\ jobs' \in 0..Blocks
      /\ Asks' = Asks /\ queue' # <<>> /\ Len(queue') = Len(queue) + 1
  BY <1>1, <1>2, <1>4, <1>5, Queueing
<1>7. TypeOK'
  BY <1>1, <1>3, <1>4, <1>6 DEF TypeOK
<1>8. Control'
  BY <1>1, <1>2, <1>3, <1>4, <1>6, Constant DEF Control, Pooled, Reading
<1>9. Frames'
  <2>1. ASSUME kind = "rbdaio" PROVE Full' \/ (NoneMine' /\ Len(queue') = 1)
    <3>1. Outstanding' = Cardinality(Open') + Len(done')
      BY DEF Outstanding, Open
    <3>2. Outstanding' = Outstanding
      BY <1>1, <1>4, <3>1, OutstandingIs
    <3>3. Full
      BY <1>1, <1>2, <2>1 DEF Frames
    <3>4. queue = <<>> => Len(queue) = 0
      OBVIOUS
    <3> QED
      BY <1>1, <1>4, <1>6, <2>1, <3>2, <3>3, <3>4 DEF Full
  <2> QED
    BY <1>1, <1>3, <2>1, Constant DEF Frames
<1> QED
  BY <1>6, <1>7, <1>8, <1>9

\* write() of a module in the loops of restore(); the second write() of iscsi
\* fails.
LEMMA WriteStep ==
    ASSUME IInv, NEW i \in todo, i \in Asks, NEW p \in {"loop", "poll"}, Write(i, p),
           pc = "loop", phase \in {"sparse", "data"}, submit = "out",
           p = "loop" => i \in Planned("badmeta")
    PROVE  IInv'
<1> USE DEF IInv
<1>1. Looping /\ Begun /\ result = "none" /\ ~Reading /\ setup.task = "restore"
  BY SetupTypes DEF Looping, Control, Begun, Reading
<1>2. CASE /\ todo' = todo \ {i} /\ jobs' = jobs + 1 /\ queue' = Append(queue, i) /\ pc' = p
           /\ UNCHANGED <<setup, phase, done, medium, cut, got, count, faults, result>>
           /\ \/ UNCHANGED <<flying, submit>> /\ kind \in {"file", "rbd", "iscsi"}
              \/ /\ kind = "rbdaio" /\ submit' = "called"
                 /\ flying' = {[f EXCEPT !.mine = FALSE] : f \in flying}
  <2>1. /\ flying' \subseteq Request /\ IsFiniteSet(flying')
        /\ InFlight' = InFlight /\ Lone(Open')
        /\ (\A f \in flying : ~f.put) => \A f \in flying' : ~f.put
        /\ flying = {} => flying' = {}
    <3>1. CASE UNCHANGED <<flying, submit>>
      BY <3>1 DEF InFlight, Open, TypeOK, Places, Counts
    <3>2. CASE flying' = {[f EXCEPT !.mine = FALSE] : f \in flying}
      BY <3>2, Reframed DEF TypeOK, Places, Counts
    <3> QED
      BY <1>2, <3>1, <3>2
  <2>2. Looping' /\ Begun'
    BY <1>1, <1>2 DEF Looping, Begun
  <2>3. /\ Places' /\ Counts' /\ Answers' /\ Causes' /\ Endings' /\ Media'
        /\ queue' \in Seq(Idx) /\ jobs' \in 0..Blocks
        /\ Asks' = Asks /\ queue' # <<>>
    BY <1>1, <1>2, <2>1, <2>2, Queueing
  <2>4. TypeOK'
    BY <1>2, <2>1, <2>3 DEF TypeOK
  <2>5. pc' = "loop" => Planned("badmeta") # {}
    BY <1>2
  <2>6. Control'
    BY <1>1, <1>2, <2>1, <2>2, <2>3, <2>5, Constant DEF Control, Pooled, Reading
  <2>7. Frames'
    BY <1>1, <1>2, Constant DEF Frames
  <2> QED
    BY <2>3, <2>4, <2>6, <2>7
<1>3. CASE /\ kind = "iscsi" /\ queue # <<>> /\ pc' = "close" /\ result' = "failed"
           /\ UNCHANGED <<setup, phase, todo, jobs, got, count, queue, flying, done, submit,
                          medium, cut, faults>>
  <2>1. ~Looping' /\ Begun'
    BY <1>3 DEF Looping, Begun
  <2>2. Places' /\ Counts' /\ Answers' /\ Media'
    BY <1>1, <1>3, <2>1, Moved
  <2>3. Cause /\ Cause'
    BY <1>1, <1>3, Constant DEF Control, Cause
  <2>4. TypeOK'
    BY <1>3 DEF TypeOK
  <2>5. Control'
    BY <1>1, <1>3, <2>1, Constant, AskedKept DEF Control, Pooled, Reading
  <2>6. Frames' /\ Causes' /\ Endings'
    BY <1>3, <2>1, <2>3 DEF Frames, Causes, Endings
  <2> QED
    BY <2>2, <2>4, <2>5, <2>6
<1> QED
  BY <1>2, <1>3
     DEF Write, FileQueueWrite, RbdQueueWrite, RbdAioQueueWrite, IscsiQueueWrite, PoolWrite,
         Put, NewFrame, Fail, device

\* A block that has data when sparse blocks are written, or that could not be
\* read from the storage.
LEMMA SkipStep ==
    ASSUME IInv, NEW i \in todo, i \notin Asks, NEW p \in {"loop", "poll"}, Skip(i, p),
           pc = "loop", phase \in {"sparse", "data"}, submit = "out",
           p = "poll" => phase = "sparse"
    PROVE  IInv'
<1> USE DEF IInv
<1>1. /\ Looping /\ Begun /\ result = "none" /\ ~Reading /\ setup.task = "restore"
  BY SetupTypes DEF Looping, Control, Begun, Reading
<1>2. /\ todo' = todo \ {i} /\ pc' = p
      /\ UNCHANGED <<setup, phase, jobs, got, count, result, queue, flying, done, submit,
                     medium, cut, faults>>
  BY DEF Skip, device
<1>3. Looping' /\ Begun'
  BY <1>1, <1>2 DEF Looping, Begun
<1>4. Asks' = Asks /\ Asked' = Asked
  <2>1. Asks' = Asks
    BY <1>2, Constant DEF Asks
  <2> QED
    BY <1>2, <2>1 DEF Asked
<1>5. /\ Open' = Open /\ Waiting' = Waiting /\ InFlight' = InFlight
      /\ Completed' = Completed /\ Delivered' = Delivered
  BY <1>2 DEF Open, Waiting, InFlight, Completed, Delivered
<1>6. Places'
  BY <1>1, <1>2, <1>3, <1>4, <1>5 DEF Places
<1>7. Counts' /\ Answers' /\ Causes' /\ Endings'
  BY <1>1, <1>2, <1>3, <1>4, Constant DEF Counts, Answers, Causes, Cause, Endings
<1>8. Media'
  <2>1. Wrote' = Wrote
    BY <1>2 DEF Wrote
  <2> QED
    BY <1>1, <1>2, <1>3, <2>1, SoFarKept, Constant DEF Media
<1>9. TypeOK'
  BY <1>2 DEF TypeOK
<1>10. Control'
  BY <1>1, <1>2, <1>3, <1>4, Constant DEF Control, Pooled, Reading
<1>11. Frames'
  BY <1>1, <1>2, Constant DEF Frames
<1> QED
  BY <1>6, <1>7, <1>8, <1>9, <1>10, <1>11

LEMMA RestoreStep ==
    ASSUME IInv, NEW i \in Idx, RestoreSparse(i) \/ RestoreData(i)
    PROVE  IInv'
<1> USE DEF IInv
<1>1. CASE RestoreSparse(i)
  <2>1. pc = "loop" /\ phase = "sparse" /\ submit = "out" /\ i \in todo /\ ~setup.sparse
    BY <1>1 DEF RestoreSparse, Control
  <2>2. i \in Asks <=> setup.plan[i] = "sparse"
    BY <2>1 DEF Asks, Planned
  <2>3. CASE setup.plan[i] = "sparse"
    BY <1>1, <2>1, <2>2, <2>3, WriteStep DEF RestoreSparse
  <2>4. CASE setup.plan[i] # "sparse"
    BY <1>1, <2>1, <2>2, <2>4, SkipStep DEF RestoreSparse
  <2> QED
    BY <2>3, <2>4
<1>2. CASE RestoreData(i)
  <2>1. pc = "loop" /\ phase = "data" /\ submit = "out" /\ i \in todo
    BY <1>2 DEF RestoreData
  <2>2. setup.task = "restore"
    BY <2>1, SetupTypes DEF Control, Begun
  <2>3. setup.plan[i] \in {"data", "missing", "badmeta"}
    BY <2>1, <2>2, SetupTypes DEF Control, Planned
  <2>4. (i \in Asks <=> setup.plan[i] # "missing")
        /\ (i \in Planned("badmeta") <=> setup.plan[i] = "badmeta")
    BY <2>1, <2>3 DEF Asks, Planned
  <2>5. CASE setup.plan[i] = "missing"
    BY <1>2, <2>1, <2>4, <2>5, SkipStep DEF RestoreData
  <2>6. CASE setup.plan[i] = "badmeta"
    BY <1>2, <2>1, <2>4, <2>6, WriteStep DEF RestoreData
  <2>7. CASE setup.plan[i] = "data"
    BY <1>2, <2>1, <2>4, <2>7, WriteStep DEF RestoreData
  <2> QED
    BY <2>3, <2>5, <2>6, <2>7
<1> QED
  BY <1>1, <1>2

-----------------------------------------------------------------------------
(* A request that is done while the calling thread waits for it.           *)

LEMMA Direct ==
    ASSUME IInv, Looping, flying = {}, done = <<>>,
           NEW i \in Asks, NEW how \in {"whole", "short", "error"},
           Serve(i, how), Deliver(Answer(i, i, how)),
           i \notin Delivered, Asks' = Asks, Asked' = Asked \cup {i},
           queue' \in Seq(Idx), Once(queue'), Waiting' = Waiting \ {i},
           jobs' = Cardinality(Asked'), jobs' \in 0..Blocks, todo' \subseteq todo,
           UNCHANGED <<setup, phase, flying, done, submit, cut>>
    PROVE  /\ TypeOK' /\ Places' /\ Counts' /\ Answers' /\ Causes' /\ Media' /\ Endings'
           /\ result = "none" /\ Begun /\ Begun'
           /\ \/ /\ result' = "failed" /\ ~Looping' /\ pc' \in {"close", "end"}
                 /\ (pc' = "end" => phase = "check")
              \/ UNCHANGED <<pc, result>> /\ Looping'
<1> USE DEF IInv
<1> DEFINE e == Answer(i, i, how)
<1>1. i \in Idx
  BY AsksTypes
<1>2. e \in Entry /\ e.name = i /\ e.data = i /\ e.how = how
  BY <1>1, NewAnswer
<1>3. Deliver(e)
  OBVIOUS
<1> HIDE DEF e
<1>4. /\ result = "none" /\ Begun /\ Begun'
      /\ \/ /\ e.how = "error" /\ UNCHANGED <<got, count>> /\ result' = "failed"
            /\ ~Looping' /\ pc' \in {"close", "end"} /\ (pc' = "end" => phase = "check")
         \/ e.how # "error" /\ got' = got \cup {e} /\ count' = count + 1
            /\ UNCHANGED <<pc, result>> /\ Looping'
  BY <1>3, DeliverCases
<1>5. /\ faults' \in 0..MaxFaults
      /\ medium' \in [Cell -> {"none", "zero", "old", "data"}]
      /\ Cause => Cause'
      /\ how = "error" => Cause' /\ medium' = medium
      /\ Reading => /\ medium' = medium
                    /\ how = "short" => (Pooled \/ phase = "scrub") /\ cut = i
      /\ ~Reading => /\ how # "short"
                     /\ how = "whole" => medium' = Written(i)
  BY Served
<1>6. Range(done) = {} /\ Range(done') = {} /\ Open = {} /\ Open' = {}
  BY EmptyRange DEF Open
<1>7. InFlight' = {} /\ InFlight = {} /\ Completed' = {} /\ Completed = {}
  BY <1>6 DEF InFlight, Completed, Datas
<1>8. Lone(Open') /\ Apart(done')
  BY <1>6 DEF Places, Lone
<1>9. IsFiniteSet(flying')
  BY DEF Counts
<1>10. CASE e.how = "error" /\ UNCHANGED <<got, count>> /\ result' = "failed"
            /\ ~Looping' /\ pc' \in {"close", "end"} /\ (pc' = "end" => phase = "check")
  <2>1. Delivered' = Delivered
    BY <1>10 DEF Delivered
  <2>2. Places'
    BY <1>7, <1>8, <1>10, <2>1 DEF Places
  <2>3. Counts'
    BY <1>9, <1>10 DEF Counts
  <2>4. Answers'
    BY <1>6, <1>10, Constant DEF Answers
  <2>5. Causes'
    BY <1>2, <1>5, <1>6, <1>10 DEF Causes
  <2>6. Media' /\ Endings'
    BY <1>4, <1>10 DEF Media, Endings
  <2>7. TypeOK'
    BY <1>5, <1>10 DEF TypeOK
  <2> QED
    BY <1>4, <1>10, <2>2, <2>3, <2>4, <2>5, <2>6, <2>7
<1>11. CASE e.how # "error" /\ got' = got \cup {e} /\ count' = count + 1
            /\ UNCHANGED <<pc, result>> /\ Looping'
  <2>1. /\ got' \subseteq Entry /\ Delivered' = Delivered \cup {i}
        /\ \A x, y \in got' : x.data = y.data => x = y
        /\ Cardinality(got') = count + 1 /\ count + 1 \in 0..Blocks
    BY <1>2, <1>11, GotGrows
  <2>2. Places'
    <3>1. /\ Waiting' \cap Delivered' = {}
          /\ Waiting' \cup Delivered' \subseteq Asked'
          /\ Asked' \subseteq Waiting' \cup Delivered'
      BY <1>7, <2>1 DEF Places
    <3> QED
      BY <1>7, <1>8, <2>1, <3>1 DEF Places
  <2>3. Counts'
    BY <1>9, <1>11, <2>1 DEF Counts
  <2>4. Range(done') \cup got' = got \cup {e} /\ Range(done) \cup got = got
    BY <1>6, <1>11
  <2>5. Answers'
    BY <1>2, <1>5, <1>11, <2>4, Constant DEF Answers
  <2>6. Causes'
    BY <1>4, <1>6, <1>11 DEF Causes
  <2>7. ASSUME ~Reading PROVE Wrote' = Wrote \cup {i} /\ medium' = Written(i)
    BY <1>2, <1>5, <1>11, <2>4, <2>7 DEF Wrote, Datas
  <2>8. Media'
    <3>1. ASSUME ~Reading PROVE medium' = SoFar'
      BY <1>4, <2>7, <3>1, Wrought DEF Media
    <3> QED
      BY <1>4, <3>1, Constant DEF Media
  <2>9. Endings'
    BY <1>4, <1>11 DEF Endings
  <2>10. TypeOK'
    BY <1>5, <1>11, <2>1 DEF TypeOK
  <2> QED
    BY <1>4, <1>11, <2>2, <2>3, <2>5, <2>6, <2>8, <2>9, <2>10
<1> QED
  BY <1>4, <1>10, <1>11

\* read_get_completed() and write_get_completed() of iscsi do the request.
LEMMA IscsiStep ==
    ASSUME IInv, IscsiGet PROVE IInv'
<1> USE DEF IInv
<1>1. /\ kind = "iscsi" /\ pc \in {"poll", "collect"} /\ queue # <<>> /\ queue' = Front(queue)
      /\ UNCHANGED <<setup, phase, todo, flying, done, submit, cut, jobs>>
  BY DEF IscsiGet, Collecting
<1>2. PICK how \in {"whole", "short", "error"} :
         Serve(Last(queue), how) /\ Deliver(Answer(Last(queue), Last(queue), how))
  BY DEF IscsiGet
<1>3. /\ queue' \in Seq(Idx) /\ Len(queue) \in DOMAIN queue /\ Last(queue) = queue[Len(queue)]
      /\ Lost(queue, Len(queue), queue')
  BY <1>1, FrontLoses DEF TypeOK
<1>4. Once(queue') /\ Waiting' = Waiting \ {Last(queue)}
  BY <1>3, QueueShrinks DEF Waiting, TypeOK, Places
<1>5. Last(queue) \in Waiting
  BY <1>3 DEF Waiting, Range
<1>6. Last(queue) \in Asked /\ Last(queue) \in Asks /\ Last(queue) \notin Delivered
  BY <1>5 DEF Places, Asked
<1>7. /\ flying = {} /\ done = <<>> /\ phase # "scrub" /\ Looping
  <2>1. phase = "scrub" => queue = <<>>
    BY DEF Control
  <2> QED
    BY <1>1, <2>1 DEF Control, Looping
<1>8. /\ Asks' = Asks /\ Asked' = Asked \cup {Last(queue)}
      /\ jobs' = Cardinality(Asked') /\ jobs' \in 0..Blocks
  <2>1. Asks' = Asks /\ Asked' = Asked
    BY <1>1, AskedKept
  <2>2. Begun
    BY <1>7 DEF Begun, Looping, Control
  <2> QED
    BY <1>1, <1>6, <2>1, <2>2 DEF Counts, TypeOK
<1>9. /\ TypeOK' /\ Places' /\ Counts' /\ Answers' /\ Causes' /\ Media' /\ Endings'
      /\ result = "none" /\ Begun /\ Begun'
      /\ \/ /\ result' = "failed" /\ ~Looping' /\ pc' \in {"close", "end"}
            /\ (pc' = "end" => phase = "check")
         \/ UNCHANGED <<pc, result>> /\ Looping'
  BY <1>1, <1>2, <1>3, <1>4, <1>6, <1>7, <1>8, Direct
<1>10. phase = "check" => Reading
  BY <1>9 DEF Control, Reading
<1>11. Control'
  BY <1>1, <1>7, <1>8, <1>9, <1>10, Constant, AskedKept DEF Control, Looping, Pooled, Reading
<1>12. Frames'
  BY <1>1, Constant DEF Frames
<1> QED
  BY <1>9, <1>11, <1>12

\* deep_scrub() reads a block.
LEMMA ReadSyncStep ==
    ASSUME IInv, NEW i \in Idx, ReadSync(i) PROVE IInv'
<1> USE DEF IInv
<1>1. /\ pc = "loop" /\ phase = "scrub" /\ i \in todo /\ todo' = todo \ {i}
      /\ jobs' = jobs + 1 /\ UNCHANGED <<setup, phase, queue, flying, done, submit, cut>>
  BY DEF ReadSync
<1>2. PICK how \in {"whole", "short", "error"} : Serve(i, how) /\ Deliver(Answer(i, i, how))
  BY DEF ReadSync
<1>3. /\ flying = {} /\ done = <<>> /\ queue = <<>> /\ submit = "out" /\ Looping /\ Begun
      /\ i \in Asks
  BY <1>1 DEF Control, Looping, Begun, Asks
<1>4. /\ i \notin Asked /\ Asks' = Asks /\ Asked' = Asked \cup {i}
      /\ jobs' = Cardinality(Asked') /\ jobs' \in 0..Blocks
      /\ i \notin Waiting /\ i \notin Delivered
  BY <1>1, <1>3, Asking
<1>5. /\ queue' \in Seq(Idx) /\ Once(queue') /\ Waiting' = Waiting \ {i} /\ todo' \subseteq todo
  BY <1>1, <1>4 DEF TypeOK, Places, Waiting
<1>6. /\ TypeOK' /\ Places' /\ Counts' /\ Answers' /\ Causes' /\ Media' /\ Endings'
      /\ result = "none" /\ Begun /\ Begun'
      /\ \/ /\ result' = "failed" /\ ~Looping' /\ pc' \in {"close", "end"}
            /\ (pc' = "end" => phase = "check")
         \/ UNCHANGED <<pc, result>> /\ Looping'
  BY <1>1, <1>2, <1>3, <1>4, <1>5, Direct
<1>7. Reading
  BY <1>1, <1>3 DEF Control, Reading
<1>8. Control'
  BY <1>1, <1>3, <1>4, <1>6, <1>7, Constant DEF Control, Looping, Pooled, Reading
<1>9. Frames'
  BY <1>1, <1>3, <1>6, <1>7, Constant DEF Frames, Full, Nearly, Looping
<1> QED
  BY <1>6, <1>8, <1>9

-----------------------------------------------------------------------------
(* The job ends, and the source gets shorter.                              *)

\* close() of every module, and the executor's shutdown().
LEMMA CloseStep ==
    ASSUME IInv, PoolCancel \/ FileClose \/ RbdClose \/ RbdAioClose \/ IscsiClose
    PROVE  IInv'
<1> USE DEF IInv
<1>1. /\ pc = "close" /\ pc' \in {"close", "end"} /\ queue' \in {queue, <<>>}
      /\ UNCHANGED <<setup, phase, todo, jobs, got, count, result, flying, done, submit,
                     medium, cut, faults>>
      /\ pc' = "end" => kind = "iscsi" \/ flying = {}
      /\ pc' = "end" /\ Pooled => queue' = <<>>
      /\ pc' = "close" => Pooled
  BY DEF PoolCancel, FileClose, RbdClose, RbdAioClose, IscsiClose, Closed, device, Pooled
<1>2. Begun /\ Begun' /\ ~Looping /\ ~Looping'
  BY <1>1 DEF Begun, Looping, Control
<1>3. Open' = Open
  BY <1>1 DEF Open
<1>4. InFlight' = InFlight /\ Completed' = Completed /\ Delivered' = Delivered /\ Asked' = Asked
      /\ Asks' = Asks
  BY <1>1, <1>3, AskedKept DEF InFlight, Completed, Delivered
<1>5. Waiting' \subseteq Waiting /\ Once(queue') /\ queue' \in Seq(Idx)
  <2>1. CASE queue' = queue
    BY <2>1 DEF Waiting, Places, TypeOK
  <2>2. CASE queue' = <<>>
    BY <2>2, EmptyRange DEF Waiting, Once
  <2> QED
    BY <1>1, <2>1, <2>2
<1>6. Places'
  BY <1>1, <1>2, <1>3, <1>4, <1>5 DEF Places
<1>7. Counts' /\ Answers' /\ Causes'
  BY <1>1, <1>2, <1>4, Constant DEF Counts, Answers, Causes, Cause
<1>8. Media' /\ Endings'
  BY <1>1, <1>2, <1>3, <1>4, Constant DEF Media, Endings
<1>9. TypeOK'
  BY <1>1, <1>5 DEF TypeOK
<1>10. Control'
  BY <1>1, <1>2, <1>4, Constant DEF Control, Pooled, Reading
<1>11. Frames'
  BY <1>2 DEF Frames
<1> QED
  BY <1>6, <1>7, <1>8, <1>9, <1>10, <1>11

LEMMA ShrinkStep ==
    ASSUME IInv, Shrink PROVE IInv'
<1> USE DEF IInv
<1>1. /\ Reading /\ cut = Beyond /\ pc \in {"loop", "collect"} /\ cut' \in Idx
      /\ UNCHANGED <<setup, pc, phase, todo, queue, flying, done, submit, medium, jobs, got,
                     count, faults, result>>
  BY DEF Shrink
<1>2. Beyond \notin Idx /\ cut' # Beyond /\ cut' \in Cell
  BY <1>1, IndexFinite DEF Cell
<1>3. Looping' = Looping /\ Begun' = Begun /\ Open' = Open /\ Asked' = Asked /\ Asks' = Asks
      /\ Reading'
  BY <1>1, AskedKept, Constant DEF Looping, Begun, Open
<1>4. Waiting' = Waiting /\ InFlight' = InFlight /\ Completed' = Completed
      /\ Delivered' = Delivered
  BY <1>1, <1>3 DEF Waiting, InFlight, Completed, Delivered
<1>5. Places' /\ Counts'
  BY <1>1, <1>3, <1>4 DEF Places, Counts
<1>6. \A e \in Range(done) \cup got : e.how # "short"
  <2>1. \A e \in Range(done) \cup got : e \in Entry
    BY DEF TypeOK, Range
  <2> QED
    BY <1>1, <1>2, <2>1 DEF Answers, Entry
<1>7. Answers'
  BY <1>1, <1>6, Constant DEF Answers
<1>8. Causes'
  BY <1>2 DEF Causes, Cause
<1>9. Media' /\ Endings'
  BY <1>1, <1>3, <1>4, Constant DEF Media, Endings
<1>10. TypeOK'
  BY <1>1, <1>2 DEF TypeOK
<1>11. Control'
  BY <1>1, <1>3, Constant DEF Control, Pooled
<1>12. Frames'
  <2>1. Outstanding' = Outstanding
    BY <1>1 DEF Outstanding
  <2> QED
    BY <1>1, <1>3, <2>1, Constant DEF Frames, Full, Nearly, NoneMine
<1> QED
  BY <1>5, <1>7, <1>8, <1>9, <1>10, <1>11, <1>12

-----------------------------------------------------------------------------
(* The theorems.                                                           *)

LEMMA InitialState ==
    ASSUME Init PROVE IInv
<1> USE DEF Init
<1>1. /\ ~Begun /\ ~Looping /\ Range(queue) = {} /\ Range(done) = {} /\ Open = {}
  BY EmptyRange DEF Begun, Looping, Open
<1>2. Waiting = {} /\ InFlight = {} /\ Completed = {} /\ Delivered = {}
  BY <1>1 DEF Waiting, InFlight, Completed, Delivered, Datas
<1>3. Places
  BY <1>1, <1>2 DEF Places, Once, Apart, Lone
<1>4. IsFiniteSet({}) /\ Cardinality({}) = 0
  BY FS_EmptySet
<1>5. Counts
  BY <1>1, <1>4 DEF Counts
<1>6. TypeOK
  BY IndexFinite DEF TypeOK, Found, Cell
<1>7. Control
  BY <1>1 DEF Control
<1>8. Frames /\ Answers /\ Causes /\ Media /\ Endings
  BY <1>1 DEF Frames, Answers, Causes, Media, Endings
<1> QED
  BY <1>3, <1>5, <1>6, <1>7, <1>8 DEF IInv

LEMMA NextStep ==
    ASSUME IInv, [Next]_vars PROVE IInv'
<1>1. CASE UNCHANGED vars
  <2>1. Open' = Open /\ Asked' = Asked /\ Asks' = Asks /\ Looping' = Looping /\ Begun' = Begun
        /\ Outstanding' = Outstanding
    BY <1>1, AskedKept DEF vars, Open, Looping, Begun, Outstanding
  <2>2. Places' /\ Counts' /\ Answers' /\ Delivered' = Delivered
    BY <1>1, <2>1, Moved DEF vars
  <2>3. TypeOK' /\ Control'
    BY <1>1, <2>1, Constant DEF vars, IInv, TypeOK, Control, Pooled
  <2>4. Frames'
    BY <1>1, <2>1, Constant DEF vars, IInv, Frames, Full, Nearly, NoneMine
  <2>5. Causes' /\ Endings'
    BY <1>1, <2>1, <2>2, Constant DEF vars, IInv, Causes, Cause, Endings
  <2>6. Wrote' = Wrote
    BY <1>1 DEF vars, Wrote
  <2>7. Media'
    BY <1>1, <2>1, <2>6, SoFarKept, Constant DEF vars, IInv, Media
  <2> QED
    BY <2>2, <2>3, <2>4, <2>5, <2>7 DEF IInv
<1>2. CASE IOFactory_get \/ FileIO \/ RbdIO \/ RbdAioIO \/ IscsiIO
  BY <1>2, EarlyStep
<1>3. CASE \/ FileOpenR \/ RbdOpenR \/ RbdAioOpenR \/ IscsiOpen
           \/ FileOpenW \/ RbdOpenW \/ RbdAioOpenW
  BY <1>3, OpenStep
<1>4. CASE \E i \in Idx : FileQueueRead(i) \/ RbdQueueRead(i)
                           \/ IscsiQueueRead(i) \/ RbdAioQueueRead(i)
  BY <1>4, QueueReadStep
<1>5. CASE AllQueued \/ Scrubbed
  BY <1>5, HandledStep
<1>6. CASE \E i \in Idx : ReadSync(i)
  BY <1>6, ReadSyncStep
<1>7. CASE (\E i \in Idx : RestoreSparse(i)) \/ (\E i \in Idx : RestoreData(i))
  BY <1>7, RestoreStep
<1>8. CASE WorkerTakes \/ (\E f \in flying : WorkerEnds(f))
  BY <1>8, WorkerStep
<1>9. CASE SubmitAioReads \/ SubmitAioWrites
  BY <1>9, SubmittedStep DEF SubmitAioReads, SubmitAioWrites
<1>10. CASE AllSubmitted \/ (\E f \in flying : AioCallback(f)) \/ (\E f \in flying : AioReleases(f))
  BY <1>10, AioStep
<1>11. CASE (\E k \in DOMAIN done : PoolGet(k)) \/ AioGetRead \/ AioGetWrite
  BY <1>11, CollectStep DEF AioGetRead, AioGetWrite
<1>12. CASE PoolEmpty \/ AioEmpty \/ IscsiEmpty
  BY <1>12, EmptyStep
<1>13. CASE AioTurn
  BY <1>13, TurnStep
<1>14. CASE IscsiGet
  BY <1>14, IscsiStep
<1>15. CASE PoolCancel \/ FileClose \/ RbdClose \/ RbdAioClose \/ IscsiClose
  BY <1>15, CloseStep
<1>16. CASE Shrink
  BY <1>16, ShrinkStep
<1> QED
  BY <1>1, <1>2, <1>3, <1>4, <1>5, <1>6, <1>7, <1>8, <1>9, <1>10, <1>11, <1>12, <1>13, <1>14,
     <1>15, <1>16 DEF Next

\* However the requests of a job are queued, served, refused and collected
\* (read, write and the ..._get_completed of io/file.py, rbd.py, rbdaio.py and
\* iscsi.py), each block a loop has asked for is in one place: the queue, a
\* thread or librbd, the completions or the caller's results; and what a restore
\* has written so far is on its target.
THEOREM Invariance == Spec => []IInv
<1>1. Init => IInv
  BY InitialState
<1>2. IInv /\ [Next]_vars => IInv'
  BY NextStep
<1> QED
  BY <1>1, <1>2, PTL DEF Spec

\* A backup or a deep-scrub is never given another block's data, nor a short
\* answer it does not notice where a module compares the length, although
\* _submit_aio_reads of rbdaio shares a variable between its callbacks; and a
\* backup that ends well has every block it asked for, once.
THEOREM OwnReads == Spec => []ReadsAreOwn
<1>1. IInv => ReadsAreOwn
  <2> SUFFICES ASSUME IInv PROVE ReadsAreOwn
    OBVIOUS
  <2>1. Reading => \A e \in got :
           /\ e.name = e.data
           /\ e.how = "short" => (Pooled \/ phase = "scrub") /\ e.data = cut
    BY DEF IInv, Answers
  <2>2. result = "ok" /\ setup.task = "backup" =>
           {e.data : e \in got} = Planned("read") /\ count = Cardinality(got)
    BY DEF IInv, Endings, Counts, Delivered, Datas
  <2> QED
    BY <2>1, <2>2 DEF IInv, ReadsAreOwn
<1> QED
  BY <1>1, Invariance, PTL

\* A restore that ends well has left the version on its target and nothing under
\* way, however the writes of its blocks of zeros and its blocks of data were
\* ordered (write() and write_get_completed() of every module); the comparison
\* of sizes in open_w keeps file, rbd and rbdaio from a target that is too small.
THEOREM RestoredVersion == Spec => []RestoredIsVersion
<1>1. IInv => RestoredIsVersion
  <2> SUFFICES ASSUME IInv PROVE RestoredIsVersion
    OBVIOUS
  <2>1. ASSUME result = "ok", setup.task = "restore"
        PROVE  medium = Expected /\ queue = <<>> /\ Outstanding = 0
    <3>1. medium = Expected /\ queue = <<>> /\ Open = {} /\ done = <<>>
      BY <2>1 DEF IInv, Endings
    <3>2. Cardinality(Open) = 0 /\ Len(done) = 0
      BY <3>1, FS_EmptySet
    <3> QED
      BY <3>1, <3>2, OutstandingIs
  <2>2. setup.size = "small" /\ kind # "iscsi" => medium = Found(setup)
    BY DEF IInv, Control, Media
  <2> QED
    BY <2>1, <2>2 DEF RestoredIsVersion
<1> QED
  BY <1>1, Invariance, PTL

\* Without a fault and without a source that shrinks, an exception of read_sync,
\* of a ..._get_completed or of the assertion in write() of iscsi is raised only
\* where a module cannot do what it is asked for.
THEOREM FailureHasCause == Spec => []FailsForCause
<1>1. IInv => FailsForCause
  BY DEF IInv, Causes, Cause, FailsForCause
<1> QED
  BY <1>1, Invariance, PTL

\* Once close() has returned, no thread of the executor and no callback of
\* librbd writes to the target: shutdown() and the image's close wait for them.
THEOREM QuietAfterClose == Spec => NothingAfterClose
<1>1. ASSUME IInv, [Next]_vars, pc = "end" PROVE medium' = medium
  <2> USE DEF IInv
  <2>1. CASE UNCHANGED vars
    BY <2>1 DEF vars
  <2>2. ASSUME Next, medium' # medium
        PROVE  \/ \E f \in flying : WorkerEnds(f) \/ AioCallback(f)
    BY <1>1, <2>2
       DEF Next, IOFactory_get, Refuse, FileIO, RbdIO, RbdAioIO, IscsiIO, FileOpenR, RbdOpenR,
           RbdAioOpenR, IscsiOpen, FileOpenW, RbdOpenW, RbdAioOpenW, FileQueueRead,
           RbdQueueRead, IscsiQueueRead, RbdAioQueueRead, Queued, AllQueued, Scrubbed,
           ReadSync, RestoreSparse, RestoreData, WorkerTakes, SubmitAioReads,
           SubmitAioWrites, Submitted, AllSubmitted, AioReleases, PoolGet, PoolEmpty,
           Collecting, AioTurn, AioGetRead, AioGetWrite, AioGot, AioEmpty, IscsiGet,
           IscsiEmpty, PoolCancel, FileClose, RbdClose, RbdAioClose, IscsiClose, Shrink
  <2>3. ASSUME Next, medium' # medium PROVE FALSE
    <3>1. PICK f \in flying : WorkerEnds(f) \/ AioCallback(f)
      BY <2>2, <2>3
    <3>2. Reading
      BY <1>1 DEF Control
    <3>3. \E how : Serve(f.block, how)
      BY <3>1 DEF WorkerEnds, AioCallback
    <3> QED
      BY <2>3, <3>2, <3>3 DEF Serve
  <2> QED
    BY <1>1, <2>1, <2>3
<1>2. IInv /\ [Next]_vars => [pc = "end" => medium' = medium]_vars
  BY <1>1
<1> QED
  BY <1>2, Invariance, PTL DEF Spec, NothingAfterClose

=============================================================================
