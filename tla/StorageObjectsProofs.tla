------------------------ MODULE StorageObjectsProofs ------------------------
(***************************************************************************)
(* The storage layer, for any number of keys, clients and contents, any    *)
(* chain of transforms and any numbers of calls and errors.  The first     *)
(* part is what the transforms do to an object, layer by layer; the second *)
(* is the invariant of the calls; the third is that two objects per key    *)
(* are a regular store.                                                    *)
(***************************************************************************)
EXTENDS StorageObjects, SequenceTheorems, WellFoundedInduction, TLAPS

-----------------------------------------------------------------------------
(* Induction over the natural numbers, for a set instead of a predicate.   *)

\* A set of natural numbers that is not empty has a least element.
LEMMA Least ==
    ASSUME NEW T \in SUBSET Nat, T # {}
    PROVE  \E x \in T : \A y \in T : ~ (y < x)
<1> DEFINE R == {ss \in Nat \X Nat : ss[1] < ss[2]}
<1>1. IsWellFoundedOn(R, Nat)
  BY NatLessThanWellFounded, Zenon DEF OpToRel
<1> HIDE DEF R
<1>2. PICK x \in T : \A y \in T : ~ (<<y, x>> \in R)
  BY <1>1, WFMin
<1>3. ASSUME NEW y \in T PROVE ~ (y < x)
  BY <1>2 DEF R
<1> QED BY <1>3

\* A set with 0 and the successor of each of its numbers has them all.
LEMMA Inductive ==
    ASSUME NEW S, 0 \in S, \A n \in Nat : n \in S => n + 1 \in S
    PROVE  Nat \subseteq S
<1> SUFFICES ASSUME Nat \ S # {} PROVE FALSE
  OBVIOUS
<1>1. PICK x \in Nat \ S : \A y \in Nat \ S : ~ (y < x)
  BY Least
<1>2. x # 0
  BY <1>1
<1>3. x - 1 \in Nat /\ x - 1 < x /\ x = (x - 1) + 1
  BY <1>1, <1>2
<1>4. x - 1 \in S
  BY <1>1, <1>3
<1> QED BY <1>1, <1>3, <1>4

-----------------------------------------------------------------------------
(* What a chain of transforms makes of a content, and back.                *)

\* What the assumption says of the constants, for the provers.
LEMMA Constants ==
    /\ Block \cap Version = {} /\ Key = Block \cup Version
    /\ Chain \in Seq({"zstd", "aes"})
    /\ Weight \in [Content -> Nat \ {0, 1}]
    /\ MaxCalls \in Nat /\ MaxFaults \in Nat
    /\ None \notin Content /\ Garbled \notin Content /\ None # Garbled
    /\ None \notin Key /\ None \notin DataObject /\ None \notin MetaObject
    /\ Unreadable = {k \in Key : Module[k] = "s3"}
    /\ Module \in [Key -> {"file", "b2", "s3"}]
BY StorageAssumption DEF Key

\* No outcome of a call is a content.
LEMMA NoContents ==
    \A r \in Outcomes : r \notin Content /\ r # Garbled
BY StorageAssumption

\* The equations of the function that Encapsulate looks up, for N transforms.
Layered(c, id, N, f) ==
    f = [i \in 0 .. N |->
            IF i = 0 THEN [text |-> c, id |-> id, layers |-> <<>>, len |-> Weight[c]]
            ELSE IF Chain[i] = "zstd" THEN Zstd(f[i - 1], id) ELSE Aes(f[i - 1], id)]

LEMMA LayeredExists ==
    ASSUME NEW c, NEW id
    PROVE  \A N \in Nat : \E f : Layered(c, id, N, f)
<1> DEFINE First == [text |-> c, id |-> id, layers |-> <<>>, len |-> Weight[c]]
<1> DEFINE P == {N \in Nat : \E f : Layered(c, id, N, f)}
<1>1. 0 \in P
  <2> DEFINE f == [n \in 0 .. 0 |-> First]
  <2>1. Layered(c, id, 0, f) BY DEF Layered
  <2> QED BY <2>1
<1>2. ASSUME NEW N \in Nat, N \in P PROVE N + 1 \in P
  <2>1. PICK f : Layered(c, id, N, f) BY <1>2
  <2> DEFINE next(n, d) == IF Chain[n] = "zstd" THEN Zstd(d, id) ELSE Aes(d, id)
  <2> DEFINE g == [n \in 0 .. N + 1 |-> IF n = N + 1 THEN next(n, f[N]) ELSE f[n]]
  <2>2. \A n \in 0 .. N : f[n] = IF n = 0 THEN First ELSE next(n, f[n - 1])
    BY <2>1 DEF Layered
  <2> HIDE DEF next, First
  <2>3. ASSUME NEW n \in 0 .. N + 1
        PROVE  g[n] = IF n = 0 THEN First ELSE next(n, g[n - 1])
    <3>1. CASE n = N + 1
      BY <3>1
    <3>2. CASE n # N + 1
      <4>1. n \in 0 .. N /\ g[n] = f[n] BY <3>2
      <4>2. n # 0 => n - 1 \in 0 .. N /\ g[n - 1] = f[n - 1] BY <4>1
      <4> QED BY <4>1, <4>2, <2>2
    <3> QED BY <3>1, <3>2
  <2>4. g = [n \in 0 .. N + 1 |-> IF n = 0 THEN First ELSE next(n, g[n - 1])]
    BY <2>3
  <2>5. Layered(c, id, N + 1, g)
    BY <2>4 DEF Layered, next, First
  <2> QED BY <2>5
<1>3. Nat \subseteq P
  <2> HIDE DEF P
  <2> QED BY <1>1, <1>2, Inductive
<1> QED BY <1>3

LEMMA EncapsulateSolves ==
    ASSUME NEW c, NEW id
    PROVE  \E f : Layered(c, id, Len(Chain), f) /\ Encapsulate(c, id) = f[Len(Chain)]
<1> DEFINE f == CHOOSE f : Layered(c, id, Len(Chain), f)
<1>1. Len(Chain) \in Nat
  BY Constants
<1>2. Layered(c, id, Len(Chain), f)
  BY <1>1, LayeredExists
<1>3. Encapsulate(c, id) = f[Len(Chain)]
  BY Zenon DEF Encapsulate, Layered
<1> QED BY <1>2, <1>3

\* A transform leaves the content and the id alone, and zstd never makes an
\* object of no bytes.
LEMMA OneLayer ==
    ASSUME NEW c \in Content, NEW id \in Nat, NEW d \in DataObject,
           d.layers = <<>> => d.len = Weight[d.text], d.text = c, d.id = id
    PROVE  \A e \in {Zstd(d, id), Aes(d, id)} :
              /\ e \in DataObject /\ e.text = c /\ e.id = id
              /\ e.layers = <<>> => e.len = Weight[e.text]
<1>1. Weight[c] \in Nat /\ Weight[c] - 1 \in Nat
  BY Constants
<1>2. \A name \in {"zstd", "aes"} :
          /\ Append(d.layers, [name |-> name, id |-> id]) \in Layers
          /\ Append(d.layers, [name |-> name, id |-> id]) # <<>>
  <2> SUFFICES ASSUME NEW name \in {"zstd", "aes"}
               PROVE  /\ Append(d.layers, [name |-> name, id |-> id]) \in Layers
                      /\ Append(d.layers, [name |-> name, id |-> id]) # <<>>
    OBVIOUS
  <2> DEFINE L == [name : {"zstd", "aes"}, id : Nat]
  <2>1. d.layers \in Layers BY DEF DataObject
  <2>11. d.layers \in Seq(L) BY <2>1 DEF Layers
  <2>2. [name |-> name, id |-> id] \in L OBVIOUS
  <2> HIDE DEF L
  <2>3. Append(d.layers, [name |-> name, id |-> id]) \in Seq(L) BY <2>11, <2>2
  <2>4. Append(d.layers, [name |-> name, id |-> id]) # <<>> BY <2>11, <2>2, AppendProperties
  <2> QED BY <2>3, <2>4 DEF L, Layers
<1>3. ASSUME NEW l \in Layers, NEW n \in Nat, l # <<>>
      PROVE  LET e == [text |-> d.text, id |-> d.id, layers |-> l, len |-> n]
             IN  e \in DataObject /\ e.text = c /\ e.id = id /\ e.layers = l
  BY DEF DataObject
<1>4. d.len \in Nat
  BY DEF DataObject
<1>6. LET e == Zstd(d, id)
      IN  /\ e \in DataObject /\ e.text = c /\ e.id = id
          /\ e.layers = <<>> => e.len = Weight[e.text]
  <2>1. CASE d.text \in Small /\ d.layers = <<>>
    <3> DEFINE l == Append(d.layers, [name |-> "zstd", id |-> id])
    <3>1. d.len - 1 \in Nat BY <1>1, <2>1
    <3>2. Zstd(d, id) = [text |-> d.text, id |-> d.id, layers |-> l, len |-> d.len - 1]
      BY <2>1 DEF Zstd, DataObject
    <3>3. l \in Layers /\ l # <<>> BY <1>2
    <3> HIDE DEF l
    <3>4. LET e == [text |-> d.text, id |-> d.id, layers |-> l, len |-> d.len - 1]
          IN  e \in DataObject /\ e.text = c /\ e.id = id /\ e.layers = l
      BY <1>3, <3>1, <3>3
    <3> QED BY <3>2, <3>3, <3>4
  <2>2. CASE ~ (d.text \in Small /\ d.layers = <<>>)
    BY <2>2 DEF Zstd
  <2> QED BY <2>1, <2>2
<1>7. LET e == Aes(d, id)
      IN  /\ e \in DataObject /\ e.text = c /\ e.id = id
          /\ e.layers = <<>> => e.len = Weight[e.text]
  <2> DEFINE l == Append(d.layers, [name |-> "aes", id |-> id])
  <2>0. d = [text |-> d.text, id |-> d.id, layers |-> d.layers, len |-> d.len]
    BY DEF DataObject
  <2>1. Aes(d, id) = [text |-> d.text, id |-> d.id, layers |-> l, len |-> d.len]
    BY <2>0 DEF Aes
  <2>2. l \in Layers /\ l # <<>> BY <1>2
  <2> HIDE DEF l
  <2>3. LET e == [text |-> d.text, id |-> d.id, layers |-> l, len |-> d.len]
        IN  e \in DataObject /\ e.text = c /\ e.id = id /\ e.layers = l
    BY <1>3, <1>4, <2>2
  <2> QED BY <2>1, <2>2, <2>3
<1> QED BY <1>6, <1>7

\* What a write stores of its content.
LEMMA Encapsulated ==
    ASSUME NEW c \in Content, NEW id \in Nat
    PROVE  /\ Encapsulate(c, id) \in DataObject
           /\ Encapsulate(c, id).text = c /\ Encapsulate(c, id).id = id
<1>1. PICK f : Layered(c, id, Len(Chain), f) /\ Encapsulate(c, id) = f[Len(Chain)]
  BY EncapsulateSolves
<1>2. Len(Chain) \in Nat
  BY Constants
<1> DEFINE Good(d) == /\ d \in DataObject /\ d.text = c /\ d.id = id
                      /\ d.layers = <<>> => d.len = Weight[d.text]
<1> DEFINE P == {n \in Nat : n <= Len(Chain) => Good(f[n])}
<1>3. 0 \in P
  <2>1. f[0] = [text |-> c, id |-> id, layers |-> <<>>, len |-> Weight[c]]
    BY <1>1, <1>2 DEF Layered
  <2>2. <<>> \in Layers BY DEF Layers
  <2>3. Weight[c] \in Nat BY Constants
  <2>4. f[0] \in DataObject BY <2>1, <2>2, <2>3 DEF DataObject
  <2> QED BY <2>1, <2>4
<1>4. ASSUME NEW n \in Nat, n \in P PROVE n + 1 \in P
  <2> SUFFICES ASSUME n + 1 <= Len(Chain) PROVE Good(f[n + 1])
    OBVIOUS
  <2>1. Good(f[n]) BY <1>2, <1>4
  <2>2. n + 1 \in 0 .. Len(Chain) /\ n + 1 # 0 /\ (n + 1) - 1 = n BY <1>2
  <2>3. f[n + 1] = IF Chain[n + 1] = "zstd" THEN Zstd(f[n], id) ELSE Aes(f[n], id)
    BY <1>1, <2>2 DEF Layered
  <2> QED BY <2>1, <2>3, OneLayer
<1>5. Nat \subseteq P
  <2> HIDE DEF P
  <2> QED BY <1>3, <1>4, Inductive
<1> QED BY <1>1, <1>2, <1>5

\* The equations of the function that Decapsulate looks up, for N transforms.
Unlayered(d, ts, N, f) ==
    f = [i \in 0 .. N |->
            IF i = 0 THEN d
            ELSE IF f[i - 1] = None THEN None
            ELSE IF ts[Len(ts) - i + 1].name = "zstd" THEN UnZstd(f[i - 1], ts[Len(ts) - i + 1])
            ELSE UnAes(f[i - 1], ts[Len(ts) - i + 1])]

LEMMA UnlayeredExists ==
    ASSUME NEW d, NEW ts
    PROVE  \A N \in Nat : \E f : Unlayered(d, ts, N, f)
<1> DEFINE P == {N \in Nat : \E f : Unlayered(d, ts, N, f)}
<1>1. 0 \in P
  <2> DEFINE f == [n \in 0 .. 0 |-> d]
  <2>1. Unlayered(d, ts, 0, f) BY DEF Unlayered
  <2> QED BY <2>1
<1>2. ASSUME NEW N \in Nat, N \in P PROVE N + 1 \in P
  <2>1. PICK f : Unlayered(d, ts, N, f) BY <1>2
  <2> DEFINE next(n, e) ==
          IF e = None THEN None
          ELSE IF ts[Len(ts) - n + 1].name = "zstd" THEN UnZstd(e, ts[Len(ts) - n + 1])
          ELSE UnAes(e, ts[Len(ts) - n + 1])
  <2> DEFINE g == [n \in 0 .. N + 1 |-> IF n = N + 1 THEN next(n, f[N]) ELSE f[n]]
  <2>2. \A n \in 0 .. N : f[n] = IF n = 0 THEN d ELSE next(n, f[n - 1])
    BY <2>1 DEF Unlayered
  <2> HIDE DEF next
  <2>3. ASSUME NEW n \in 0 .. N + 1
        PROVE  g[n] = IF n = 0 THEN d ELSE next(n, g[n - 1])
    <3>1. CASE n = N + 1
      BY <3>1
    <3>2. CASE n # N + 1
      <4>1. n \in 0 .. N /\ g[n] = f[n] BY <3>2
      <4>2. n # 0 => n - 1 \in 0 .. N /\ g[n - 1] = f[n - 1] BY <4>1
      <4> QED BY <4>1, <4>2, <2>2
    <3> QED BY <3>1, <3>2
  <2>4. g = [n \in 0 .. N + 1 |-> IF n = 0 THEN d ELSE next(n, g[n - 1])]
    BY <2>3
  <2>5. Unlayered(d, ts, N + 1, g)
    BY <2>4 DEF Unlayered, next
  <2> QED BY <2>5
<1>3. Nat \subseteq P
  <2> HIDE DEF P
  <2> QED BY <1>1, <1>2, Inductive
<1> QED BY <1>3

LEMMA DecapsulateSolves ==
    ASSUME NEW d, NEW ts \in Layers
    PROVE  \E f : Unlayered(d, ts, Len(ts), f) /\ Decapsulate(d, ts) = f[Len(ts)]
<1> DEFINE f == CHOOSE f : Unlayered(d, ts, Len(ts), f)
<1>1. Len(ts) \in Nat
  BY DEF Layers
<1>2. Unlayered(d, ts, Len(ts), f)
  BY <1>1, UnlayeredExists
<1>3. Decapsulate(d, ts) = f[Len(ts)]
  BY Zenon DEF Decapsulate, Unlayered
<1> QED BY <1>2, <1>3

\* The record that one step of a transform makes of another.
LEMMA PeeledIs ==
    ASSUME NEW d, d = [text |-> d.text, id |-> d.id, layers |-> d.layers, len |-> d.len]
    PROVE  /\ Peeled(d) = [text |-> d.text, id |-> d.id,
                           layers |-> SubSeq(d.layers, 1, Len(d.layers) - 1), len |-> d.len]
           /\ [d EXCEPT !.text = Garbled, !.layers = <<>>]
                = [text |-> Garbled, id |-> d.id, layers |-> <<>>, len |-> d.len]
<1> DEFINE s == SubSeq(d.layers, 1, Len(d.layers) - 1)
<1>2. Peeled(d) = [d EXCEPT !.layers = s]
  BY DEF Peeled
<1> HIDE DEF s
<1>3. [d EXCEPT !.layers = s] = [text |-> d.text, id |-> d.id, layers |-> s, len |-> d.len]
  OBVIOUS
<1> DEFINE e == [d EXCEPT !.text = Garbled]
<1>4. e = [text |-> Garbled, id |-> d.id, layers |-> d.layers, len |-> d.len]
  OBVIOUS
<1> HIDE DEF e
<1>5. [e EXCEPT !.layers = <<>>] = [text |-> Garbled, id |-> d.id, layers |-> <<>>, len |-> d.len]
  BY <1>4
<1> QED BY <1>2, <1>3, <1>5 DEF s, e

\* A sequence without its last elements is one of the same elements.
LEMMA Shorter ==
    ASSUME NEW L, NEW s \in Seq(L), NEW m \in Nat, m <= Len(s)
    PROVE  SubSeq(s, 1, m) \in Seq(L)
<1>1. \A i \in 1 .. m : s[i] \in L
  OBVIOUS
<1> QED BY <1>1, SubSeqProperties

\* What taking one layer off makes of an object, whatever the layer.
LEMMA OnePeel ==
    ASSUME NEW d \in DataObject, NEW t
    PROVE  \A e \in {UnZstd(d, t), UnAes(d, t)} :
              e # None => /\ e \in DataObject /\ e.text \in {d.text, Garbled}
                          /\ e.id = d.id /\ e.len = d.len
<1>1. d = [text |-> d.text, id |-> d.id, layers |-> d.layers, len |-> d.len]
      /\ d.layers \in Layers
  BY DEF DataObject
<1>2. ASSUME NEW l \in Layers, NEW x \in {d.text, Garbled}
      PROVE  LET e == [text |-> x, id |-> d.id, layers |-> l, len |-> d.len]
             IN  e \in DataObject /\ e.text = x /\ e.id = d.id /\ e.len = d.len
  BY DEF DataObject
<1>3. <<>> \in Layers
  BY DEF Layers
<1>4. Outermost(d, t) => SubSeq(d.layers, 1, Len(d.layers) - 1) \in Layers
  <2> SUFFICES ASSUME d.layers # <<>> PROVE SubSeq(d.layers, 1, Len(d.layers) - 1) \in Layers
    BY DEF Outermost
  <2> DEFINE L == [name : {"zstd", "aes"}, id : Nat]
  <2>1. d.layers \in Seq(L) BY <1>1 DEF Layers
  <2> HIDE DEF L
  <2>2. Len(d.layers) # 0 /\ Len(d.layers) \in Nat BY <2>1
  <2>3. Len(d.layers) - 1 \in Nat /\ Len(d.layers) - 1 <= Len(d.layers) BY <2>2
  <2>4. SubSeq(d.layers, 1, Len(d.layers) - 1) \in Seq(L) BY <2>1, <2>3, Shorter
  <2> QED BY <2>4 DEF L, Layers
<1>5. Outermost(d, t) => Peeled(d) = [text |-> d.text, id |-> d.id,
                             layers |-> SubSeq(d.layers, 1, Len(d.layers) - 1), len |-> d.len]
  BY <1>1, PeeledIs
<1>6. [d EXCEPT !.text = Garbled, !.layers = <<>>]
        = [text |-> Garbled, id |-> d.id, layers |-> <<>>, len |-> d.len]
  BY <1>1, PeeledIs
<1>7. Outermost(d, t) => /\ Peeled(d) \in DataObject /\ Peeled(d).text = d.text
                         /\ Peeled(d).id = d.id /\ Peeled(d).len = d.len
  <2> SUFFICES ASSUME Outermost(d, t)
               PROVE  /\ Peeled(d) \in DataObject /\ Peeled(d).text = d.text
                      /\ Peeled(d).id = d.id /\ Peeled(d).len = d.len
    OBVIOUS
  <2> DEFINE l == SubSeq(d.layers, 1, Len(d.layers) - 1)
  <2>1. l \in Layers /\ Peeled(d) = [text |-> d.text, id |-> d.id, layers |-> l, len |-> d.len]
    BY <1>4, <1>5
  <2> HIDE DEF l
  <2>2. LET e == [text |-> d.text, id |-> d.id, layers |-> l, len |-> d.len]
        IN  e \in DataObject /\ e.text = d.text /\ e.id = d.id /\ e.len = d.len
    BY <1>2, <2>1
  <2> QED BY <2>1, <2>2
<1>8. LET e == [d EXCEPT !.text = Garbled, !.layers = <<>>]
      IN  e \in DataObject /\ e.text = Garbled /\ e.id = d.id /\ e.len = d.len
  BY <1>2, <1>3, <1>6
<1> QED BY <1>7, <1>8 DEF UnZstd, UnAes

\* Whatever transforms are undone, the result is nothing, rubbish or the content.
LEMMA Decapsulated ==
    ASSUME NEW d \in DataObject, NEW ts \in Layers, Decapsulate(d, ts) # None
    PROVE  LET e == Decapsulate(d, ts)
           IN  e \in DataObject /\ e.text \in {d.text, Garbled} /\ e.id = d.id /\ e.len = d.len
<1>1. PICK f : Unlayered(d, ts, Len(ts), f) /\ Decapsulate(d, ts) = f[Len(ts)]
  BY DecapsulateSolves
<1>2. Len(ts) \in Nat
  BY DEF Layers
<1> DEFINE Good(e) == e # None => /\ e \in DataObject /\ e.text \in {d.text, Garbled}
                                  /\ e.id = d.id /\ e.len = d.len
<1> DEFINE P == {n \in Nat : n <= Len(ts) => Good(f[n])}
<1>3. 0 \in P
  <2>1. f[0] = d BY <1>1, <1>2 DEF Unlayered
  <2> QED BY <2>1
<1>4. ASSUME NEW n \in Nat, n \in P PROVE n + 1 \in P
  <2> SUFFICES ASSUME n + 1 <= Len(ts) PROVE Good(f[n + 1])
    OBVIOUS
  <2>1. Good(f[n]) BY <1>2, <1>4
  <2>2. n + 1 \in 0 .. Len(ts) /\ n + 1 # 0 /\ (n + 1) - 1 = n BY <1>2
  <2> DEFINE t == ts[Len(ts) - (n + 1) + 1]
  <2>3. f[n + 1] = IF f[n] = None THEN None
                   ELSE IF t.name = "zstd" THEN UnZstd(f[n], t) ELSE UnAes(f[n], t)
    BY <1>1, <2>2 DEF Unlayered
  <2> HIDE DEF t
  <2> QED BY <2>1, <2>3, OnePeel
<1>5. Nat \subseteq P
  <2> HIDE DEF P
  <2> QED BY <1>3, <1>4, Inductive
<1> QED BY <1>1, <1>2, <1>5

\* The transforms recorded in the metadata undo what _encapsulate did.
LEMMA DecapsulatesOwn ==
    ASSUME NEW d \in DataObject, d.text # Garbled
    PROVE  Decapsulate(d, d.layers)
              = [text |-> d.text, id |-> d.id, layers |-> <<>>, len |-> d.len]
<1> DEFINE ts == d.layers
<1> DEFINE L == [name : {"zstd", "aes"}, id : Nat]
<1>0. ts \in Layers /\ ts \in Seq(L)
  BY DEF DataObject, Layers
<1>01. d = [text |-> d.text, id |-> d.id, layers |-> ts, len |-> d.len]
  BY DEF DataObject
<1>1. PICK f : Unlayered(d, ts, Len(ts), f) /\ Decapsulate(d, ts) = f[Len(ts)]
  BY <1>0, DecapsulateSolves
<1> HIDE DEF L
<1>2. Len(ts) \in Nat
  BY <1>0
<1> DEFINE R(n) == [text |-> d.text, id |-> d.id,
                    layers |-> SubSeq(ts, 1, Len(ts) - n), len |-> d.len]
<1> DEFINE P == {n \in Nat : n <= Len(ts) => f[n] = R(n)}
<1>3. 0 \in P
  <2>1. f[0] = d BY <1>1, <1>2 DEF Unlayered
  <2>2. SubSeq(ts, 1, Len(ts)) = ts BY <1>0
  <2>3. Len(ts) - 0 = Len(ts) BY <1>2
  <2> QED BY <1>01, <2>1, <2>2, <2>3
<1>4. ASSUME NEW n \in Nat, n \in P PROVE n + 1 \in P
  <2> SUFFICES ASSUME n + 1 <= Len(ts) PROVE f[n + 1] = R(n + 1)
    OBVIOUS
  <2>1. f[n] = R(n) BY <1>2, <1>4
  <2>2. n + 1 \in 0 .. Len(ts) /\ n + 1 # 0 /\ (n + 1) - 1 = n BY <1>2
  <2> DEFINE m == Len(ts) - n
  <2> DEFINE t == ts[m]
  <2>3. m \in Nat /\ m # 0 /\ m <= Len(ts) /\ Len(ts) - (n + 1) + 1 = m /\ Len(ts) - (n + 1) = m - 1
    BY <1>2
  <2> DEFINE l == SubSeq(ts, 1, m)
  <2>4. l \in Seq(L) /\ Len(l) = m /\ l # <<>> /\ l[m] = ts[m] /\ SubSeq(l, 1, m - 1) = SubSeq(ts, 1, m - 1)
    <3>0. m \in 1 .. m BY <2>3
    <3>1. \A i \in 1 .. m : ts[i] \in L BY <1>0, <2>3
    <3>2. l \in Seq(L) /\ Len(l) = m /\ \A i \in 1 .. m : l[i] = ts[i]
      BY <1>0, <2>3, <3>1, SubSeqProperties
    <3>3. l # <<>> BY <2>3, <3>2
    <3>4. \A i \in 1 .. m - 1 : l[i] \in L BY <2>3, <3>2
    <3>5. SubSeq(l, 1, m - 1) = SubSeq(ts, 1, m - 1) BY <1>0, <2>3, <3>2
    <3> HIDE DEF l, m
    <3> QED BY <3>0, <3>2, <3>3, <3>5
  <2>5. f[n + 1] = IF f[n] = None THEN None
                   ELSE IF t.name = "zstd" THEN UnZstd(f[n], t) ELSE UnAes(f[n], t)
    BY <1>1, <2>2, <2>3 DEF Unlayered
  <2>6. f[n].layers = l /\ f[n].text # Garbled /\ f[n] # None
    <3>1. R(n).layers = l /\ R(n).text = d.text OBVIOUS
    <3>2. l \in Layers BY <2>4 DEF L, Layers
    <3>3. R(n) \in DataObject
      <4> HIDE DEF l
      <4>1. [text |-> d.text, id |-> d.id, layers |-> l, len |-> d.len] \in DataObject
        BY <3>2 DEF DataObject
      <4> QED BY <4>1 DEF l
    <3> QED BY <2>1, <3>1, <3>3, Constants
  <2>7. Outermost(f[n], t) BY <2>4, <2>6 DEF Outermost
  <2>8. f[n + 1] = Peeled(f[n]) BY <2>5, <2>6, <2>7 DEF UnZstd, UnAes
  <2>9. Peeled(f[n]) = [text |-> d.text, id |-> d.id, layers |-> SubSeq(l, 1, m - 1), len |-> d.len]
    <3> DEFINE e == f[n]
    <3>1. e = [text |-> d.text, id |-> d.id, layers |-> l, len |-> d.len] BY <2>1
    <3> HIDE DEF l, m, e
    <3>2. e.text = d.text /\ e.id = d.id /\ e.layers = l /\ e.len = d.len BY <3>1
    <3>3. e = [text |-> e.text, id |-> e.id, layers |-> e.layers, len |-> e.len] BY <3>1, <3>2
    <3>4. Peeled(e) = [text |-> d.text, id |-> d.id, layers |-> SubSeq(l, 1, Len(l) - 1), len |-> d.len]
      BY <3>2, <3>3, PeeledIs
    <3> QED BY <2>4, <3>4 DEF e
  <2> QED BY <2>3, <2>4, <2>8, <2>9
<1>5. Nat \subseteq P
  <2> HIDE DEF P
  <2> QED BY <1>3, <1>4, Inductive
<1>6. SubSeq(ts, 1, Len(ts) - Len(ts)) = <<>>
  BY <1>0, <1>2
<1>7. f[Len(ts)] = R(Len(ts))
  BY <1>2, <1>5
<1> QED BY <1>1, <1>6, <1>7

-----------------------------------------------------------------------------
(* What two objects amount to.                                             *)

\* The data and the metadata of one write are its content.
LEMMA DecodesOwn ==
    ASSUME NEW k, NEW a \in Content, NEW i \in Nat
    PROVE  Decode(k, Encapsulate(a, i), BuildMetadata(a, Encapsulate(a, i))) = a
<1> DEFINE d == Encapsulate(a, i)
<1> DEFINE m == BuildMetadata(a, d)
<1>1. d \in DataObject /\ d.text = a /\ d.id = i /\ a # Garbled /\ a # None
  BY Encapsulated, Constants
<1> HIDE DEF d
<1>2. m.size = Weight[a] /\ m.object_size = d.len /\ m.checksum = a /\ m.transforms = d.layers /\ m.id = d.id
  BY DEF BuildMetadata
<1>3. m \in MetaObject
  <2>1. d.layers \in Layers /\ d.len \in Nat /\ d.id \in Nat BY <1>1 DEF DataObject
  <2>2. Weight[a] \in Nat BY Constants
  <2> QED BY <2>1, <2>2 DEF BuildMetadata, MetaObject
<1> HIDE DEF m
<1>4. d # None /\ m # None
  BY <1>1, <1>3, Constants
<1>5. m # Torn
  BY <1>1, <1>2 DEF Torn
<1> DEFINE p == [text |-> d.text, id |-> d.id, layers |-> <<>>, len |-> d.len]
<1>6. Decapsulate(d, m.transforms) = p
  BY <1>1, <1>2, DecapsulatesOwn
<1>7. p \in DataObject /\ p.text = a
  <2>1. <<>> \in Layers BY DEF Layers
  <2> QED BY <1>1, <2>1 DEF DataObject
<1>8. p # None
  BY <1>7, Constants
<1> HIDE DEF p
<1> QED BY <1>1, <1>2, <1>4, <1>5, <1>6, <1>7, <1>8 DEF Decode, DecodeMetadata, d, m

\* Whatever lies there, it reads as nothing, as rubbish or as the content of the
\* data object, the metadata being of the same write.
LEMMA Decoded ==
    ASSUME NEW k, NEW d \in DataObject \cup {None}, NEW m \in MetaObject \cup {None}
    PROVE  LET r == Decode(k, d, m) IN
           /\ r \in Content \cup {None, Garbled}
           /\ d = None \/ m = None \/ m = Torn => r = None
           /\ r \notin {None, Garbled} => r = d.text /\ d.id = m.id
<1>1. CASE d = None \/ m = None \/ m = Torn
  BY <1>1 DEF Decode, DecodeMetadata
<1>2. CASE ~ (d = None \/ m = None \/ m = Torn)
  <2>1. d \in DataObject /\ m.transforms \in Layers BY <1>2 DEF MetaObject
  <2> DEFINE p == Decapsulate(d, m.transforms)
  <2>2. p # None => p \in DataObject /\ p.text \in {d.text, Garbled}
    BY <2>1, Decapsulated
  <2>3. p # None => p.text \in Content \cup {Garbled}
    BY <2>2 DEF DataObject
  <2> HIDE DEF p
  <2>4. Decode(k, d, m) \in {None, Garbled}
        \/ (p # None /\ p.text # Garbled /\ d.id = m.id /\ Decode(k, d, m) = p.text)
    BY <1>2 DEF Decode, p
  <2> QED BY <1>2, <2>2, <2>3, <2>4
<1> QED BY <1>1, <1>2

-----------------------------------------------------------------------------
(* The invariant.                                                          *)

Runs(c) == job[c].op # "rest"
Busy(c, k) == Runs(c) /\ job[c].key = k

\* What the write of a client stores.
DataOf(c) == Encapsulate(job[c].arg, call[c].id)
MetaOf(c) == BuildMetadata(job[c].arg, DataOf(c))

PCs == {"none", "probe", "put", "fill", "check", "look", "delete", "cache", "get", "end", "raise"}
Results == Outcomes \cup Content \cup {Garbled}
Stored == DataObject \cup MetaObject \cup {None}
Jobs ==
    [op : {"rest", "read", "write", "remove"}, key : Key \cup {None}, arg : Content \cup {None},
     bad : BOOLEAN, res : Results]
Calls ==
    [id : Nat, mode : Modes, pc : PCs, part : Part, got : {None, "found"} \cup DataObject, try : Nat]

Types ==
    /\ object \in [Key -> [Part -> Stored]]
    /\ \A k \in Key : /\ object[k]["data"] \in DataObject \cup {None}
                      /\ object[k]["meta"] \in MetaObject \cup {None}
    /\ job \in [Client -> Jobs] /\ call \in [Client -> Calls]
    /\ calls \in 0 .. MaxCalls /\ faults \in 0 .. MaxFaults
    /\ born \subseteq Block /\ named \subseteq born /\ marred \subseteq Key
    /\ contested \subseteq Client

\* Where a call of each kind can be.
Place(c) ==
    /\ job[c].op = "rest" => job[c] = Resting(job[c].res)
    /\ Runs(c) => job[c].res = "none" /\ job[c].key \in Key
    /\ job[c].op = "read" => job[c].arg = None /\ call[c].pc \in {"cache", "get", "raise"}
    /\ job[c].op = "write" => /\ job[c].arg \in Content
                              /\ call[c].pc \in PCs \ {"none", "cache", "get"}
    /\ job[c].op = "remove" => job[c].arg = None /\ call[c].pc \in {"look", "delete", "end", "raise"}
    /\ call[c].pc \in {"cache", "probe", "end", "raise"} => call[c].part = "data"
    /\ call[c].pc = "cache" => job[c].key \in Block
    /\ call[c].pc = "probe" => job[c].key \in Version
    /\ call[c].pc = "fill" => Module[job[c].key] = "file"
    /\ "meta" \in call[c].mode => job[c].key \in Block
    /\ call[c].pc = "raise" => job[c].bad \/ job[c].op = "write"
    /\ call[c].pc \in {"get", "check"} /\ call[c].part = "meta" => call[c].got \in DataObject
Places == \A c \in Client : Place(c)

\* Calls for one key at a time.
Apart ==
    \A c, d \in Client : c # d /\ Runs(c) /\ Busy(d, job[c].key) =>
        IF job[c].key \in Block THEN job[c].op # "write"
        ELSE c \in contested /\ job[c].key \in marred
Contests == \A c \in contested : Runs(c) /\ job[c].key \in Version /\ job[c].key \in marred

\* A uid of a block is used for one write, which ends before a row names it.
Uids ==
    /\ \A k \in Block \ born : /\ object[k]["data"] = None /\ object[k]["meta"] = None
                               /\ \A c \in Client : ~ Busy(c, k)
    /\ \A c \in Client : Runs(c) /\ job[c].key \in Block =>
          IF job[c].op = "write" THEN job[c].key \notin named ELSE job[c].key \in named

\* The id of a call is its own, and what bears it is what the call writes.
Ids ==
    /\ \A k \in Key : object[k]["data"] # None => object[k]["data"].id <= calls
    /\ \A c \in Client : Runs(c) => call[c].id <= calls
    /\ \A c, d \in Client : c # d /\ Runs(c) /\ Runs(d) => call[c].id # call[d].id
    /\ \A c \in Client : job[c].op = "write" =>
          LET d == object[job[c].key]["data"]
          IN  d # None /\ d.id = call[c].id => d.text \in {job[c].arg, Garbled}

\* A call has seen what its key holds now.
Sights ==
    /\ seen \in [Client -> SUBSET (Content \cup {None, Garbled})]
    /\ \A c \in Client : IF Runs(c) THEN Readable(job[c].key) \in seen[c] ELSE seen[c] = {}

\* A block that a row names is what one write stored, as far as it is there.
Faithful(c, k, a, i) ==
    /\ job[c].op = "read" /\ call[c].pc = "get" /\ call[c].part = "meta" =>
          call[c].got = Encapsulate(a, i) /\ (object[k]["meta"] # None => a \in seen[c])
    /\ job[c].op = "remove" /\ call[c].pc = "delete" => call[c].try = i
KeptAs(k, a, i) ==
    /\ object[k]["data"] \in {None, Encapsulate(a, i)}
    /\ object[k]["meta"] \in {None, BuildMetadata(a, Encapsulate(a, i))}
    /\ \A c \in Client : Busy(c, k) => Faithful(c, k, a, i)
Kept == \A k \in named : \E a \in Content, i \in 0 .. calls : KeptAs(k, a, i)

\* The cache holds what earlier reads returned.
Cached ==
    /\ cache \in [Block -> [Part -> MetaObject \cup Content \cup {None, Garbled}]]
    /\ known \in [Key -> SUBSET (Content \cup {Garbled})]
    /\ \A k \in Block :
          /\ cache[k]["meta"] # None => cache[k]["meta"].checksum \in known[k]
          /\ cache[k]["data"] # None => cache[k]["data"] \in known[k]

\* What a call may rely on while no other works on its key.
Mine(c) ==
    LET k == job[c].key IN
    /\ job[c].op = "write" =>
          /\ call[c].pc \in {"put", "fill"} /\ call[c].part = "meta" => object[k]["data"] = DataOf(c)
          /\ call[c].pc \in {"check", "end"} =>
                object[k]["data"] = DataOf(c) /\ object[k]["meta"] = MetaOf(c)
          /\ call[c].pc \in {"put", "fill"} /\ call[c].part = "data" /\ k \in Block =>
                object[k]["meta"] = None
    /\ job[c].op = "read" /\ k \in Version /\ call[c].pc = "get" /\ call[c].part = "meta" =>
          call[c].got = object[k]["data"]
    /\ job[c].op = "remove" /\ ~ job[c].bad /\ (call[c].pc = "end" \/ call[c].part = "meta") =>
          None \in seen[c]
    /\ call[c].pc = "delete" /\ (k \in Version \/ job[c].op = "write") =>
          Held(c) # None /\ Held(c).id = call[c].try
Alone == \A c \in Client : Runs(c) /\ c \notin contested => Mine(c)

\* The two objects of a key that nothing went wrong with.
Halves(c) ==
    LET k == job[c].key
        data == object[k]["data"] # None
        meta == object[k]["meta"] # None
        pc == call[c].pc
        part == call[c].part
    IN
    /\ job[c].op = "write" =>
          /\ pc \in {"probe", "raise"} => Paired(k)
          /\ pc \in {"put", "look"} /\ part = "data" => (meta => data)
          /\ pc \in {"fill", "delete"} /\ part = "data" => data
          /\ pc \in {"put", "fill"} /\ part = "meta" => data
          /\ pc \in {"check", "end"} => data /\ meta
          /\ pc \in {"look", "delete"} /\ part = "meta" => ~ data
    /\ job[c].op = "remove" =>
          /\ pc # "raise"
          /\ part = "meta" => ~ data
          /\ pc = "end" => ~ data /\ ~ meta
Whole ==
    \A k \in Key \ marred :
        /\ \A c \in Client : Busy(c, k) => Halves(c)
        /\ ~ Paired(k) => \E c \in Client : Busy(c, k) /\
              \/ job[c].op = "write"
              \/ job[c].op = "remove" /\ call[c].part = "meta" /\ object[k]["data"] = None

IInv ==
    /\ Types /\ Places /\ Apart /\ Contests /\ Uids /\ Ids /\ Sights /\ Kept /\ Cached
    /\ Alone /\ Whole

-----------------------------------------------------------------------------
(* What the building blocks of the actions do to the records.              *)

\* Everything but the call of c and the objects of its key is left alone.
Frame(c) ==
    /\ \A d \in Client \ {c} : job'[d] = job[d] /\ call'[d] = call[d]
    /\ \A k \in Key \ {job[c].key} : object'[k] = object[k]

\* A step in the middle of a call.
Stays(c) ==
    /\ Runs(c) /\ Runs(c)'
    /\ \E b \in BOOLEAN :
          /\ job' = [job EXCEPT ![c].bad = b]
          /\ job'[c] = [op |-> job[c].op, key |-> job[c].key, arg |-> job[c].arg,
                        bad |-> b, res |-> job[c].res]
          /\ job[c].bad => b
    /\ call'[c].id = call[c].id /\ call'[c].mode = call[c].mode

\* The last step of a call.
Leaves(c) ==
    /\ Runs(c) /\ \E r \in Results : Return(c, r)
    /\ job'[c] = Resting(job'[c].res) /\ job'[c].op = "rest" /\ call'[c] = Idle
    /\ UNCHANGED object

LEMMA JobRecord ==
    ASSUME Types, NEW c \in Client
    PROVE  /\ job[c] = [op |-> job[c].op, key |-> job[c].key, arg |-> job[c].arg,
                        bad |-> job[c].bad, res |-> job[c].res]
           /\ job[c] \in Jobs
BY DEF Types, Jobs

LEMMA CallRecord ==
    ASSUME Types, NEW c \in Client
    PROVE  /\ call[c] = [id |-> call[c].id, mode |-> call[c].mode, pc |-> call[c].pc,
                         part |-> call[c].part, got |-> call[c].got, try |-> call[c].try]
           /\ call[c] \in Calls
BY DEF Types, Calls

\* Records with some fields changed, written out.
LEMMA JobExcept ==
    ASSUME NEW j \in Jobs, NEW b
    PROVE  [j EXCEPT !.bad = b]
              = [op |-> j.op, key |-> j.key, arg |-> j.arg, bad |-> b, res |-> j.res]
BY DEF Jobs

\* Keeping and Goto move the call of a client and nothing else.
LEMMA KeepingDoes ==
    ASSUME Types, NEW c \in Client, NEW pc \in PCs, NEW part \in Part,
           NEW v \in DataObject \cup {None, "found"}, Keeping(c, pc, part, v)
    PROVE  /\ job' = job /\ call' \in [Client -> Calls]
           /\ \A d \in Client \ {c} : call'[d] = call[d]
           /\ call'[c] = [id |-> call[c].id, mode |-> call[c].mode, pc |-> pc,
                          part |-> part, got |-> v, try |-> 0]
<1> DEFINE n == [id |-> call[c].id, mode |-> call[c].mode, pc |-> pc,
                 part |-> part, got |-> v, try |-> 0]
<1>o. PICK o : o = call[c] OBVIOUS
<1>1. o = [id |-> call[c].id, mode |-> call[c].mode, pc |-> call[c].pc,
                 part |-> call[c].part, got |-> call[c].got, try |-> call[c].try]
  BY CallRecord, <1>o
<1>2. call[c].id \in Nat /\ call[c].mode \in Modes
  BY CallRecord DEF Calls
<1>3. n \in Calls
  BY <1>2 DEF Calls
<1>4. call' = [call EXCEPT ![c] = [o EXCEPT !.pc = pc, !.part = part, !.try = 0, !.got = v]] /\ job' = job
  BY <1>o DEF Keeping
<1>41. o.id = call[c].id /\ o.mode = call[c].mode
  BY <1>o
<1>42. o \in Calls
  BY <1>o, CallRecord
<1> DEFINE o1 == [o EXCEPT !.pc = pc]
<1> DEFINE o2 == [o1 EXCEPT !.part = part]
<1> DEFINE o3 == [o2 EXCEPT !.try = 0]
<1> DEFINE o4 == [o3 EXCEPT !.got = v]
<1>43. o1 = [id |-> o.id, mode |-> o.mode, pc |-> pc, part |-> o.part, got |-> o.got, try |-> o.try]
  BY <1>42 DEF Calls
<1> HIDE DEF o1
<1>44. o2 = [id |-> o.id, mode |-> o.mode, pc |-> pc, part |-> part, got |-> o.got, try |-> o.try]
  BY <1>43
<1> HIDE DEF o2
<1>45. o3 = [id |-> o.id, mode |-> o.mode, pc |-> pc, part |-> part, got |-> o.got, try |-> 0]
  BY <1>44
<1> HIDE DEF o3
<1>46. o4 = [id |-> o.id, mode |-> o.mode, pc |-> pc, part |-> part, got |-> v, try |-> 0]
  BY <1>45
<1>5. o4 = n
  BY <1>41, <1>46
<1> HIDE DEF o4
<1>6. call' = [call EXCEPT ![c] = n]
  BY Zenon, <1>4, <1>5 DEF o1, o2, o3, o4
<1>7. call \in [Client -> Calls]
  BY DEF Types
<1> HIDE DEF n
<1>8. call' \in [Client -> Calls] /\ call'[c] = n /\ \A d \in Client \ {c} : call'[d] = call[d]
  BY <1>3, <1>6, <1>7
<1> QED BY <1>4, <1>8 DEF n

\* So does an exception, which is remembered.
LEMMA ExceptDoes ==
    ASSUME Types, NEW c \in Client, Runs(c), NEW pc \in PCs, NEW part \in Part, Except(c, pc, part)
    PROVE  /\ call' \in [Client -> Calls] /\ job' \in [Client -> Jobs]
           /\ \A d \in Client \ {c} : call'[d] = call[d] /\ job'[d] = job[d]
           /\ job' = [job EXCEPT ![c].bad = TRUE]
           /\ job'[c] = [op |-> job[c].op, key |-> job[c].key, arg |-> job[c].arg,
                         bad |-> TRUE, res |-> job[c].res]
           /\ call'[c] = [id |-> call[c].id, mode |-> call[c].mode, pc |-> pc,
                          part |-> part, got |-> call[c].got, try |-> 0]
<1> DEFINE n == [id |-> call[c].id, mode |-> call[c].mode, pc |-> pc,
                 part |-> part, got |-> call[c].got, try |-> 0]
<1>o. PICK o : o = call[c] OBVIOUS
<1>j. PICK j : j = job[c] OBVIOUS
<1> DEFINE b == [op |-> job[c].op, key |-> job[c].key, arg |-> job[c].arg,
                 bad |-> TRUE, res |-> job[c].res]
<1>1. o = [id |-> call[c].id, mode |-> call[c].mode, pc |-> call[c].pc,
                 part |-> call[c].part, got |-> call[c].got, try |-> call[c].try]
  BY CallRecord, <1>o
<1>11. j = [op |-> job[c].op, key |-> job[c].key, arg |-> job[c].arg,
                 bad |-> job[c].bad, res |-> job[c].res]
  BY JobRecord, <1>j
<1>2. call[c].id \in Nat /\ call[c].mode \in Modes /\ call[c].got \in DataObject \cup {None, "found"}
  BY CallRecord DEF Calls
<1>3. n \in Calls
  BY <1>2 DEF Calls
<1>31. b \in Jobs
  BY JobRecord DEF Jobs
<1>4. /\ call' = [call EXCEPT ![c] = [o EXCEPT !.pc = pc, !.part = part, !.try = 0]]
      /\ job' = [job EXCEPT ![c].bad = TRUE] /\ job' = [job EXCEPT ![c] = [j EXCEPT !.bad = TRUE]]
  BY <1>o, <1>j DEF Except
<1>41. o.id = call[c].id /\ o.mode = call[c].mode /\ o.got = call[c].got
  BY <1>o
<1>42. o \in Calls
  BY <1>o, CallRecord
<1> DEFINE o1 == [o EXCEPT !.pc = pc]
<1> DEFINE o2 == [o1 EXCEPT !.part = part]
<1> DEFINE o3 == [o2 EXCEPT !.try = 0]
<1>43. o1 = [id |-> o.id, mode |-> o.mode, pc |-> pc, part |-> o.part, got |-> o.got, try |-> o.try]
  BY <1>42 DEF Calls
<1> HIDE DEF o1
<1>44. o2 = [id |-> o.id, mode |-> o.mode, pc |-> pc, part |-> part, got |-> o.got, try |-> o.try]
  BY <1>43
<1> HIDE DEF o2
<1>45. o3 = [id |-> o.id, mode |-> o.mode, pc |-> pc, part |-> part, got |-> o.got, try |-> 0]
  BY <1>44
<1>5. o3 = n
  BY <1>41, <1>45
<1>50. j \in Jobs /\ j.op = job[c].op /\ j.key = job[c].key /\ j.arg = job[c].arg /\ j.res = job[c].res
  BY JobRecord, <1>j
<1>52. [j EXCEPT !.bad = TRUE]
         = [op |-> j.op, key |-> j.key, arg |-> j.arg, bad |-> TRUE, res |-> j.res]
  BY <1>50, JobExcept
<1>51. [j EXCEPT !.bad = TRUE] = b
  BY <1>50, <1>52
<1> HIDE DEF o3
<1>6. call' = [call EXCEPT ![c] = n] /\ job' = [job EXCEPT ![c] = b]
  <2>1. call' = [call EXCEPT ![c] = o3] BY Zenon, <1>4 DEF o1, o2, o3
  <2> QED BY <1>4, <1>5, <1>51, <2>1
<1>7. call \in [Client -> Calls] /\ job \in [Client -> Jobs]
  BY DEF Types
<1> HIDE DEF n, b
<1>8. call' \in [Client -> Calls] /\ call'[c] = n /\ \A d \in Client \ {c} : call'[d] = call[d]
  BY <1>3, <1>6, <1>7
<1>9. job' \in [Client -> Jobs] /\ job'[c] = b /\ \A d \in Client \ {c} : job'[d] = job[d]
  BY <1>31, <1>6, <1>7
<1> QED BY <1>4, <1>8, <1>9 DEF n, b

\* And another attempt.
LEMMA TryAgainDoes ==
    ASSUME Types, NEW c \in Client, Runs(c), TryAgain(c)
    PROVE  /\ call' \in [Client -> Calls] /\ job' \in [Client -> Jobs]
           /\ \A d \in Client \ {c} : call'[d] = call[d] /\ job'[d] = job[d]
           /\ job' = [job EXCEPT ![c].bad = TRUE]
           /\ job'[c] = [op |-> job[c].op, key |-> job[c].key, arg |-> job[c].arg,
                         bad |-> TRUE, res |-> job[c].res]
           /\ call'[c] = [id |-> call[c].id, mode |-> call[c].mode, pc |-> call[c].pc,
                          part |-> call[c].part, got |-> call[c].got, try |-> call[c].try + 1]
<1> DEFINE n == [id |-> call[c].id, mode |-> call[c].mode, pc |-> call[c].pc,
                 part |-> call[c].part, got |-> call[c].got, try |-> call[c].try + 1]
<1>o. PICK o : o = call[c] OBVIOUS
<1> DEFINE t == call[c].try + 1
<1>j. PICK j : j = job[c] OBVIOUS
<1> DEFINE b == [op |-> job[c].op, key |-> job[c].key, arg |-> job[c].arg,
                 bad |-> TRUE, res |-> job[c].res]
<1>1. o = [id |-> call[c].id, mode |-> call[c].mode, pc |-> call[c].pc,
                 part |-> call[c].part, got |-> call[c].got, try |-> call[c].try]
  BY CallRecord, <1>o
<1>11. j = [op |-> job[c].op, key |-> job[c].key, arg |-> job[c].arg,
                 bad |-> job[c].bad, res |-> job[c].res]
  BY JobRecord, <1>j
<1>2. /\ call[c].id \in Nat /\ call[c].mode \in Modes /\ call[c].got \in DataObject \cup {None, "found"}
      /\ call[c].pc \in PCs /\ call[c].part \in Part /\ call[c].try \in Nat
  BY CallRecord DEF Calls
<1>20. call[c].try + 1 \in Nat
  BY <1>2
<1>3. n \in Calls
  BY <1>2, <1>20 DEF Calls
<1>31. b \in Jobs
  BY JobRecord DEF Jobs
<1>4. /\ call' = [call EXCEPT ![c] = [o EXCEPT !.try = t]]
      /\ job' = [job EXCEPT ![c].bad = TRUE] /\ job' = [job EXCEPT ![c] = [j EXCEPT !.bad = TRUE]]
  BY <1>o, <1>j DEF TryAgain
<1>40. n = [id |-> call[c].id, mode |-> call[c].mode, pc |-> call[c].pc,
                 part |-> call[c].part, got |-> call[c].got, try |-> t]
  OBVIOUS
<1> HIDE DEF t, n
<1>41. o.id = call[c].id /\ o.mode = call[c].mode /\ o.got = call[c].got /\ o.pc = call[c].pc /\ o.part = call[c].part
  BY <1>o
<1>42. o \in Calls
  BY <1>o, CallRecord
<1>43. [o EXCEPT !.try = t]
         = [id |-> o.id, mode |-> o.mode, pc |-> o.pc, part |-> o.part, got |-> o.got, try |-> t]
  BY <1>42 DEF Calls
<1>5. [o EXCEPT !.try = t] = n
  BY <1>40, <1>41, <1>42, <1>43
<1>50. j \in Jobs /\ j.op = job[c].op /\ j.key = job[c].key /\ j.arg = job[c].arg /\ j.res = job[c].res
  BY JobRecord, <1>j
<1>52. [j EXCEPT !.bad = TRUE]
         = [op |-> j.op, key |-> j.key, arg |-> j.arg, bad |-> TRUE, res |-> j.res]
  BY <1>50, JobExcept
<1>51. [j EXCEPT !.bad = TRUE] = b
  BY <1>50, <1>52
<1>6. call' = [call EXCEPT ![c] = n] /\ job' = [job EXCEPT ![c] = b]
  BY <1>4, <1>5, <1>51
<1>7. call \in [Client -> Calls] /\ job \in [Client -> Jobs]
  BY DEF Types
<1> HIDE DEF b
<1>8. call' \in [Client -> Calls] /\ call'[c] = n /\ \A d \in Client \ {c} : call'[d] = call[d]
  BY <1>3, <1>6, <1>7
<1>9. job' \in [Client -> Jobs] /\ job'[c] = b /\ \A d \in Client \ {c} : job'[d] = job[d]
  BY <1>31, <1>6, <1>7
<1> QED BY <1>4, <1>8, <1>9 DEF n, b

\* A call that ends.
LEMMA ReturnDoes ==
    ASSUME Types, NEW c \in Client, NEW r \in Results, Return(c, r)
    PROVE  /\ call' \in [Client -> Calls] /\ job' \in [Client -> Jobs]
           /\ \A d \in Client \ {c} : call'[d] = call[d] /\ job'[d] = job[d]
           /\ job'[c] = Resting(r) /\ job'[c].op = "rest" /\ job'[c].res = r /\ job'[c].key = None
           /\ call'[c] = Idle
<1>1. Resting(r) \in Jobs /\ Resting(r).op = "rest" /\ Resting(r).res = r /\ Resting(r).key = None
  BY DEF Resting, Jobs
<1>2. Idle \in Calls
  BY DEF Idle, Calls, Modes, PCs, Part
<1>3. call \in [Client -> Calls] /\ job \in [Client -> Jobs]
  BY DEF Types
<1>4. call' = [call EXCEPT ![c] = Idle] /\ job' = [job EXCEPT ![c] = Resting(r)]
  BY DEF Return
<1> QED BY <1>1, <1>2, <1>3, <1>4

\* An object that is stored or, with None, removed.
LEMMA StoreDoes ==
    ASSUME Types, NEW c \in Client, job[c].key \in Key, NEW v, Store(c, v),
           v \in IF call[c].part = "data" THEN DataObject \cup {None} ELSE MetaObject \cup {None}
    PROVE  LET k == job[c].key
               p == call[c].part
           IN  /\ object' \in [Key -> [Part -> Stored]]
               /\ object'[k][p] = v
               /\ \A q \in Part \ {p} : object'[k][q] = object[k][q]
               /\ \A l \in Key \ {k} : object'[l] = object[l]
               /\ \A l \in Key : /\ object'[l]["data"] \in DataObject \cup {None}
                                 /\ object'[l]["meta"] \in MetaObject \cup {None}
<1> DEFINE k == job[c].key
<1> DEFINE p == call[c].part
<1>1. object' = [object EXCEPT ![k][p] = v] /\ v \in Stored
  BY DEF Store, Stored
<1>2. p \in Part
  BY CallRecord DEF Calls
<1>3. object \in [Key -> [Part -> Stored]]
  BY DEF Types
<1> HIDE DEF k, p
<1>4. k \in Key
  BY DEF k
<1>5. /\ object' \in [Key -> [Part -> Stored]]
      /\ object'[k][p] = v
      /\ \A q \in Part \ {p} : object'[k][q] = object[k][q]
      /\ \A l \in Key \ {k} : object'[l] = object[l]
  BY <1>1, <1>2, <1>3, <1>4
<1>6. \A l \in Key : /\ object[l]["data"] \in DataObject \cup {None}
                     /\ object[l]["meta"] \in MetaObject \cup {None}
  BY DEF Types
<1>7. "data" \in Part /\ "meta" \in Part /\ p \in {"data", "meta"}
  BY <1>2 DEF Part
<1>8. \A l \in Key : /\ object'[l]["data"] \in DataObject \cup {None}
                     /\ object'[l]["meta"] \in MetaObject \cup {None}
  BY <1>5, <1>6, <1>7 DEF p
<1> QED BY <1>5, <1>8 DEF k, p

-----------------------------------------------------------------------------
(* What a step of one call leaves of the invariant, whatever it does.      *)

\* The history variables only grow while a call runs.
LEMMA RecordDoes ==
    ASSUME IInv, Types', Places', Record
    PROVE  /\ Sights'
           /\ \A d \in Client : Runs(d)' => seen[d] \subseteq seen'[d]
           /\ \A d \in Client : Runs(d)' => Readable(job[d].key)' \in seen'[d]
           /\ known' \in [Key -> SUBSET (Content \cup {Garbled})]
           /\ \A k \in Key : known[k] \subseteq known'[k]
<1>1. seen' = [d \in Client |->
          IF job'[d].op = "rest" THEN {}
          ELSE seen[d] \cup {Readable(job[d].key)'}]
  BY DEF Record, Readable
<1>2. seen \in [Client -> SUBSET (Content \cup {None, Garbled})] BY DEF IInv, Sights
<1>3. ASSUME NEW k \in Key PROVE Readable(k)' \in Content \cup {None, Garbled}
  <2>1. object'[k]["data"] \in DataObject \cup {None} /\ object'[k]["meta"] \in MetaObject \cup {None}
    BY DEF Types
  <2>2. Readable(k)' = Decode(k, object'[k]["data"], object'[k]["meta"]) BY DEF Readable
  <2> QED BY <2>1, <2>2, Decoded
<1>4. \A d \in Client : job'[d].op # "rest" => job'[d].key \in Key
  BY DEF Places, Place, Runs
<1>5. seen' \in [Client -> SUBSET (Content \cup {None, Garbled})]
  <2>1. ASSUME NEW d \in Client, job'[d].op # "rest"
        PROVE  seen[d] \cup {Readable(job[d].key)'} \in SUBSET (Content \cup {None, Garbled})
    <3>1. PICK k \in Key : k = job'[d].key BY <1>4, <2>1
    <3>2. Readable(k)' \in Content \cup {None, Garbled} BY <1>3
    <3>3. Decode(k, object'[k]["data"], object'[k]["meta"]) \in Content \cup {None, Garbled}
      BY <3>2 DEF Readable
    <3> QED BY <1>2, <3>1, <3>3 DEF Readable
  <2> QED BY <1>1, <2>1
<1>6. \A d \in Client : IF Runs(d)' THEN Readable(job[d].key)' \in seen'[d] ELSE seen'[d] = {}
  BY <1>1 DEF Runs
<1>7. Sights'
  BY <1>5, <1>6 DEF Sights
<1>8. \A d \in Client : Runs(d)' => seen[d] \subseteq seen'[d]
  BY <1>1 DEF Runs
<1>9. \A d \in Client : Runs(d)' => Readable(job[d].key)' \in seen'[d]
  BY <1>6
<1>10. known' = [k \in Key |-> known[k] \cup
          {job'[d].res : d \in {e \in Client :
              job[e].key = k /\ job'[e].res \in Content \cup {Garbled}}}]
  BY DEF Record
<1>11. known \in [Key -> SUBSET (Content \cup {Garbled})] BY DEF IInv, Cached
<1>12. known' \in [Key -> SUBSET (Content \cup {Garbled})] /\ \A k \in Key : known[k] \subseteq known'[k]
  BY <1>10, <1>11
<1> QED BY <1>7, <1>8, <1>9, <1>12

\* Calls are as far apart as they were.
LEMMA StaysApart ==
    ASSUME IInv, NEW c \in Client, Frame(c), Stays(c), Record, marred \subseteq marred'
    PROVE  contested' = contested /\ Apart' /\ Contests'
<1>1. \A d \in Client : job'[d].op = job[d].op /\ job'[d].key = job[d].key
  BY DEF Frame, Stays
<1>2. contested \subseteq Client BY DEF IInv, Types
<1>3. contested' = {x \in Client : job'[x].op # "rest" /\
          \/ x \in contested
          \/ /\ job'[x].key \in Version
             /\ \E d \in Client \ {x} : job'[d].op # "rest" /\ job'[d].key = job'[x].key}
  BY DEF Record
<1>4. \A x \in contested : job[x].op # "rest" BY DEF IInv, Contests, Runs
<1>5. \A x, d \in Client : job[x].op # "rest" /\ job[x].key \in Version /\ d # x
          /\ job[d].op # "rest" /\ job[d].key = job[x].key => x \in contested
  BY Constants DEF IInv, Apart, Runs, Busy
<1>6. contested' = contested
  BY <1>1, <1>2, <1>3, <1>4, <1>5
<1>7. Contests' BY <1>1, <1>2, <1>6 DEF IInv, Contests, Runs
<1>8. Apart' BY <1>1, <1>6 DEF IInv, Apart, Runs, Busy
<1> QED BY <1>6, <1>7, <1>8

LEMMA LeavesApart ==
    ASSUME IInv, NEW c \in Client, Frame(c), Leaves(c), Record, marred \subseteq marred'
    PROVE  contested' = contested \ {c} /\ Apart' /\ Contests'
<1>1. /\ \A d \in Client \ {c} : job'[d].op = job[d].op /\ job'[d].key = job[d].key
      /\ job'[c].op = "rest" /\ job[c].op # "rest"
  BY DEF Frame, Leaves, Runs
<1>2. contested \subseteq Client BY DEF IInv, Types
<1>3. contested' = {x \in Client : job'[x].op # "rest" /\
          \/ x \in contested
          \/ /\ job'[x].key \in Version
             /\ \E d \in Client \ {x} : job'[d].op # "rest" /\ job'[d].key = job'[x].key}
  BY DEF Record
<1>4. \A x \in contested : job[x].op # "rest" BY DEF IInv, Contests, Runs
<1>5. \A x, d \in Client : job[x].op # "rest" /\ job[x].key \in Version /\ d # x
          /\ job[d].op # "rest" /\ job[d].key = job[x].key => x \in contested
  BY Constants DEF IInv, Apart, Runs, Busy
<1>6. contested' = contested \ {c}
  BY <1>1, <1>2, <1>3, <1>4, <1>5
<1>7. Contests' BY <1>1, <1>2, <1>6 DEF IInv, Contests, Runs
<1>8. Apart' BY <1>1, <1>6 DEF IInv, Apart, Runs, Busy
<1> QED BY <1>6, <1>7, <1>8

\* Only a write adds to a key, and what it adds bears its id and its content.
Deposits(c) ==
    LET k == job[c].key IN
    /\ IF job[c].op = "write"
       THEN \/ object'[k]["data"] \in {None, object[k]["data"]}
            \/ object'[k]["data"].id = call[c].id /\ object'[k]["data"].text \in {job[c].arg, Garbled}
       ELSE \A p \in Part : object'[k][p] \in {None, object[k][p]}
    /\ job[c].op = "read" => object' = object

\* The calls of the others still have their keys to themselves.
LEMMA OthersAlone ==
    ASSUME IInv, NEW c \in Client, Frame(c), Runs(c), Deposits(c), Places', Types', Record,
           contested \ {c} \subseteq contested', NEW d \in Client \ {c}, Runs(d)', d \notin contested'
    PROVE  Mine(d)'
<1>1. job'[d] = job[d] /\ call'[d] = call[d] /\ Runs(d) BY DEF Frame, Runs
<1>2. Mine(d) BY <1>1 DEF IInv, Alone
<1>3. seen[d] \subseteq seen'[d] BY RecordDoes
<1>4. job[c].key \in Key /\ job[d].key \in Key BY <1>1 DEF IInv, Places, Place
<1>5. CASE job[d].key # job[c].key
  <2>1. object'[job[d].key] = object[job[d].key] BY <1>4, <1>5 DEF Frame
  <2> QED BY <1>1, <1>2, <1>3, <2>1 DEF Mine, DataOf, MetaOf, Held
<1>6. CASE job[d].key = job[c].key
  <2>1. job[d].key \notin Version BY <1>1, <1>6, Constants DEF IInv, Apart, Busy
  <2>2. job[d].op # "write" BY <1>1, <1>4, <1>6, <2>1, Constants DEF IInv, Apart, Busy
  <2> QED BY <1>1, <1>2, <1>3, <2>1, <2>2 DEF Mine
<1> QED BY <1>5, <1>6

\* And whole, where nothing went wrong.
LEMMA OthersWhole ==
    ASSUME IInv, NEW c \in Client, Frame(c), Runs(c), Deposits(c), Types', marred \subseteq marred',
           NEW d \in Client \ {c}, NEW k \in Key \ marred', Busy(d, k)'
    PROVE  Halves(d)'
<1>1. job'[d] = job[d] /\ call'[d] = call[d] /\ Busy(d, k) BY DEF Frame, Runs, Busy
<1>2. Halves(d) BY <1>1 DEF IInv, Whole
<1>3. job[d].key = k /\ job[c].key \in Key BY <1>1 DEF Busy, IInv, Places, Place
<1>4. CASE k # job[c].key
  <2>1. object'[k] = object[k] BY <1>4 DEF Frame
  <2> QED BY <1>1, <1>2, <1>3, <2>1 DEF Halves, Paired
<1>5. CASE k = job[c].key
  <2>1. k \in Block /\ job[d].op # "write" /\ job[c].op # "write"
    BY <1>1, <1>3, <1>5, Constants DEF IInv, Apart, Busy
  <2>2. /\ object'[k]["data"] \in {None, object[k]["data"]}
        /\ object'[k]["meta"] \in {None, object[k]["meta"]}
    BY <1>5, <2>1 DEF Deposits, Part
  <2> QED BY <1>1, <1>2, <1>3, <2>1, <2>2 DEF Halves
<1> QED BY <1>4, <1>5

\* Ids stay what they are.
LEMMA IdsKept ==
    ASSUME IInv, NEW c \in Client, Frame(c), Runs(c), Deposits(c), Stays(c) \/ Leaves(c),
           Types', Places', calls' = calls
    PROVE  Ids'
<1>1. \A d \in Client \ {c} : job'[d] = job[d] /\ call'[d] = call[d] BY DEF Frame
<1>2. \/ job'[c].op = job[c].op /\ job'[c].key = job[c].key /\ job'[c].arg = job[c].arg
         /\ call'[c].id = call[c].id
      \/ job'[c].op = "rest"
  <2>1. CASE Stays(c) BY <2>1 DEF Stays
  <2>2. CASE Leaves(c) BY <2>2 DEF Leaves
  <2> QED BY <2>1, <2>2
<1>3. job[c].key \in Key /\ calls \in Nat /\ call[c].id \in Nat
  BY Constants, CallRecord DEF IInv, Places, Place, Types, Calls
<1>4. \A k \in Key \ {job[c].key} : object'[k] = object[k] BY DEF Frame
<1> DEFINE k == job[c].key
<1>5. \/ object'[k]["data"] \in {None, object[k]["data"]}
      \/ /\ job[c].op = "write" /\ object'[k]["data"].id = call[c].id
         /\ object'[k]["data"].text \in {job[c].arg, Garbled}
  BY DEF Deposits, Part
<1>6. call[c].id <= calls BY DEF IInv, Ids
<1>7. \A l \in Key : object'[l]["data"] # None => object'[l]["data"].id <= calls'
  BY <1>4, <1>5, <1>6 DEF IInv, Ids
<1>8. \A d \in Client : Runs(d)' => call'[d].id <= calls'
  BY <1>1, <1>2, <1>6 DEF IInv, Ids, Runs
<1>9. \A d, e \in Client : d # e /\ Runs(d)' /\ Runs(e)' => call'[d].id # call'[e].id
  BY <1>1, <1>2 DEF IInv, Ids, Runs
<1>10. ASSUME NEW d \in Client, job'[d].op = "write",
              object'[job'[d].key]["data"] # None, object'[job'[d].key]["data"].id = call'[d].id
       PROVE  object'[job'[d].key]["data"].text \in {job'[d].arg, Garbled}
  <2>1. job[d].op = "write" /\ job'[d].key = job[d].key /\ job'[d].arg = job[d].arg
        /\ call'[d].id = call[d].id
    BY <1>1, <1>2, <1>10
  <2>2. object[job[d].key]["data"] # None /\ object[job[d].key]["data"].id = call[d].id =>
          object[job[d].key]["data"].text \in {job[d].arg, Garbled}
    BY <2>1 DEF IInv, Ids
  <2>3. CASE object'[job[d].key]["data"] = object[job[d].key]["data"]
    BY <1>10, <2>1, <2>2, <2>3
  <2>4. CASE object'[job[d].key]["data"] # object[job[d].key]["data"]
    <3>1. job[d].key \in Key BY <2>1 DEF IInv, Places, Place, Runs
    <3>2. job[d].key = k BY <1>4, <2>4, <3>1
    <3>3. object'[k]["data"].id = call[c].id /\ object'[k]["data"].text \in {job[c].arg, Garbled}
      BY <1>5, <1>10, <2>1, <2>4, <3>2
    <3>4. d = c
      BY <1>10, <2>1, <3>2, <3>3 DEF IInv, Ids, Runs
    <3> QED BY <2>1, <3>2, <3>3, <3>4
  <2> QED BY <2>3, <2>4
<1> QED BY <1>7, <1>8, <1>9, <1>10 DEF Ids

\* What a row names is what it was, whatever another call does.
LEMMA OthersKept ==
    ASSUME IInv, NEW c \in Client, Frame(c), Runs(c), Deposits(c), Places', Types', Record,
           NEW k \in named, NEW a \in Content, NEW i \in Nat, KeptAs(k, a, i)
    PROVE  /\ object'[k]["data"] \in {None, Encapsulate(a, i)}
           /\ object'[k]["meta"] \in {None, BuildMetadata(a, Encapsulate(a, i))}
           /\ object'[k]["meta"] # None => object[k]["meta"] # None
           /\ \A d \in Client \ {c} : Busy(d, k)' => Faithful(d, k, a, i)'
<1>1. k \in Key /\ k \in Block BY Constants DEF IInv, Types
<1>2. job[c].key = k => job[c].op # "write" BY <1>1 DEF IInv, Uids
<1>3. /\ object'[k]["data"] \in {None, object[k]["data"]}
      /\ object'[k]["meta"] \in {None, object[k]["meta"]}
  <2>1. CASE k = job[c].key BY <1>2, <2>1 DEF Deposits, Part
  <2>2. CASE k # job[c].key
    <3>1. object'[k] = object[k] BY <1>1, <2>2 DEF Frame
    <3> QED BY <3>1
  <2> QED BY <2>1, <2>2
<1>4. ASSUME NEW d \in Client \ {c}, Busy(d, k)' PROVE Faithful(d, k, a, i)'
  <2>1. job'[d] = job[d] /\ call'[d] = call[d] BY DEF Frame
  <2>2. Busy(d, k) /\ Runs(d)' BY <1>4, <2>1 DEF Busy, Runs
  <2>3. Faithful(d, k, a, i) BY <2>2 DEF KeptAs
  <2>4. seen[d] \subseteq seen'[d] BY <2>2, RecordDoes
  <2> QED BY <1>3, <2>1, <2>3, <2>4 DEF Faithful
<1> QED BY <1>3, <1>4 DEF KeptAs

\* The cache holds what was read as long as nothing is put in it.
LEMMA CacheKept ==
    ASSUME IInv, Record, cache' = cache
    PROVE  Cached'
<1>1. known' = [k \in Key |-> known[k] \cup
          {job'[d].res : d \in {e \in Client :
              job[e].key = k /\ job'[e].res \in Content \cup {Garbled}}}]
  BY DEF Record
<1>2. known \in [Key -> SUBSET (Content \cup {Garbled})] BY DEF IInv, Cached
<1>3. known' \in [Key -> SUBSET (Content \cup {Garbled})] /\ \A k \in Key : known[k] \subseteq known'[k]
  BY <1>1, <1>2
<1>4. \A k \in Block : k \in Key BY Constants
<1> QED BY <1>3, <1>4 DEF IInv, Cached

\* A step in the middle of a call keeps the invariant when it keeps what the
\* call itself relies on.
LEMMA StayKeeps ==
    ASSUME IInv, NEW c \in Client, Frame(c), Stays(c), Deposits(c), Record, Types', Cached',
           calls' = calls, born' = born, named' = named, marred \subseteq marred', Place(c)',
           c \notin contested => Mine(c)',
           job[c].key \notin marred' => Halves(c)',
           \A a \in Content, i \in Nat : job[c].key \in named /\ KeptAs(job[c].key, a, i) =>
               Faithful(c, job[c].key, a, i)',
           job[c].op = "remove" /\ job[c].key \notin marred' =>
               \/ call'[c].part = "meta" \/ call'[c].pc = "end"
               \/ call[c].part # "meta" /\ object' = object
    PROVE  IInv'
<1> DEFINE k == job[c].key
<1>1. Places'
  <2>1. \A d \in Client \ {c} : Place(d) => Place(d)' BY DEF Frame, Place, Runs
  <2> QED BY <2>1 DEF IInv, Places
<1>2. contested' = contested /\ Apart' /\ Contests' BY StaysApart
<1>3. Runs(c) /\ k \in Key BY DEF Stays, IInv, Places, Place
<1>4. Sights' BY <1>1, RecordDoes
<1>5. Ids' BY <1>1, <1>3, IdsKept
<1>6. Alone' BY <1>1, <1>2, <1>3, OthersAlone DEF Alone
<1>7. \A d \in Client : job'[d].op = job[d].op /\ job'[d].key = job[d].key
  BY DEF Frame, Stays
<1>8. Uids'
  <2>1. ASSUME NEW l \in Block \ born
        PROVE  object'[l]["data"] = None /\ object'[l]["meta"] = None
    <3>1. l # k /\ l \in Key BY <1>3, Constants DEF IInv, Uids, Busy
    <3>2. object'[l] = object[l] BY <3>1 DEF Frame
    <3> QED BY <3>2 DEF IInv, Uids
  <2> QED BY <1>7, <2>1 DEF IInv, Uids, Busy, Runs
<1>9. Kept'
  <2> SUFFICES ASSUME NEW l \in named PROVE \E a \in Content, i \in 0 .. calls : KeptAs(l, a, i)'
    BY DEF Kept
  <2>1. PICK a \in Content, i \in 0 .. calls : KeptAs(l, a, i) BY DEF IInv, Kept
  <2>2. i \in Nat BY <2>1
  <2>3. /\ object'[l]["data"] \in {None, Encapsulate(a, i)}
        /\ object'[l]["meta"] \in {None, BuildMetadata(a, Encapsulate(a, i))}
        /\ \A d \in Client \ {c} : Busy(d, l)' => Faithful(d, l, a, i)'
    BY <1>1, <1>3, <2>1, <2>2, OthersKept
  <2>4. Busy(c, l)' => Faithful(c, l, a, i)'
    <3> SUFFICES ASSUME Busy(c, l)' PROVE Faithful(c, l, a, i)'
      OBVIOUS
    <3>1. l = k /\ job'[c].key = l BY <1>7 DEF Busy
    <3>2. Faithful(c, job[c].key, a, i)' BY <2>1, <2>2, <3>1
    <3> QED BY <3>1, <3>2 DEF Faithful
  <2>5. KeptAs(l, a, i)' BY <2>3, <2>4 DEF KeptAs
  <2> QED BY <2>1, <2>5
<1>10. Whole'
  <2> SUFFICES ASSUME NEW l \in Key \ marred'
               PROVE  /\ \A d \in Client : Busy(d, l)' => Halves(d)'
                      /\ ~ Paired(l)' => \E d \in Client : Busy(d, l)' /\
                            \/ job'[d].op = "write"
                            \/ job'[d].op = "remove" /\ call'[d].part = "meta" /\ object'[l]["data"] = None
    BY DEF Whole
  <2>1. ASSUME NEW d \in Client, Busy(d, l)' PROVE Halves(d)'
    <3>1. CASE d # c BY <1>3, <2>1, <3>1, OthersWhole
    <3>2. CASE d = c BY <1>7, <2>1, <3>2 DEF Busy
    <3> QED BY <3>1, <3>2
  <2>2. ASSUME ~ Paired(l)'
        PROVE  \E d \in Client : Busy(d, l)' /\
                            \/ job'[d].op = "write"
                            \/ job'[d].op = "remove" /\ call'[d].part = "meta" /\ object'[l]["data"] = None
    <3>1. \A d \in Client : Busy(d, l) => Busy(d, l)' BY <1>7 DEF Busy, Runs
    <3>2. CASE l # k \/ object' = object
      <4>1. object'[l] = object[l] BY <3>2 DEF Frame
      <4>2. PICK d \in Client : Busy(d, l) /\
                            \/ job[d].op = "write"
                            \/ job[d].op = "remove" /\ call[d].part = "meta" /\ object[l]["data"] = None
        BY <2>2, <4>1 DEF IInv, Whole, Paired
      <4>3. CASE d # c \/ job[c].op = "write"
        <5>1. job[d].op # "write" => call'[d] = call[d] BY <4>3 DEF Frame
        <5> QED BY <1>7, <3>1, <4>1, <4>2, <5>1
      <4>4. CASE d = c /\ job[c].op # "write"
        <5>1. l = k /\ job[c].op = "remove" /\ call[c].part = "meta" BY <4>2, <4>4 DEF Busy
        <5>2. call'[c].part = "meta" \/ call'[c].pc = "end" BY <5>1
        <5>3. Halves(c)' BY <5>1
        <5>4. job'[c].key = l /\ job'[c].op = "remove" BY <1>7, <5>1
        <5>5. call'[c].pc # "end" BY <2>2, <5>3, <5>4 DEF Halves, Paired
        <5> QED BY <3>1, <4>1, <4>2, <4>4, <5>2, <5>4, <5>5
      <4> QED BY <4>3, <4>4
    <3>3. CASE l = k /\ object' # object
      <4>1. job[c].op # "read" BY <3>3 DEF Deposits
      <4>2. Busy(c, l)' BY <1>3, <1>7, <3>3 DEF Busy, Runs
      <4>3. CASE job[c].op = "write" BY <1>7, <4>2, <4>3
      <4>4. CASE job[c].op = "remove"
        <5>1. call'[c].part = "meta" \/ call'[c].pc = "end" BY <3>3, <4>4
        <5>2. Halves(c)' /\ job'[c].key = l /\ job'[c].op = "remove" BY <1>7, <3>3, <4>4
        <5>3. call'[c].pc # "end" BY <2>2, <5>2 DEF Halves, Paired
        <5>4. object'[l]["data"] = None BY <5>1, <5>2, <5>3 DEF Halves
        <5> QED BY <4>2, <5>1, <5>2, <5>3, <5>4
      <4>5. job[c].op \in {"read", "write", "remove"} BY <1>3, JobRecord DEF Runs, Jobs, IInv
      <4> QED BY <4>1, <4>3, <4>4, <4>5
    <3> QED BY <3>2, <3>3
  <2> QED BY <2>1, <2>2
<1> QED BY <1>1, <1>2, <1>4, <1>5, <1>6, <1>8, <1>9, <1>10 DEF IInv

\* The last step of a call keeps it when the key is left as it should be.
LEMMA LeaveKeeps ==
    ASSUME IInv, NEW c \in Client, Frame(c), Leaves(c), Record, Types', Cached',
           calls' = calls, born' = born, marred \subseteq marred',
           \/ named' = named
           \/ /\ job[c].op = "write" /\ call[c].pc = "end"
              /\ named' = named \cup ({job[c].key} \cap Block),
           job[c].key \notin marred' => job[c].op = "read" \/ Paired(job[c].key)
    PROVE  IInv'
<1> DEFINE k == job[c].key
<1>1. Places'
  <2>1. \A d \in Client \ {c} : Place(d) => Place(d)' BY DEF Frame, Place, Runs
  <2>2. Place(c)' BY DEF Leaves, Place, Runs, Idle
  <2> QED BY <2>1, <2>2 DEF IInv, Places
<1>2. contested' = contested \ {c} /\ Apart' /\ Contests' BY LeavesApart
<1>3. Runs(c) /\ k \in Key /\ ~ Runs(c)' BY DEF Leaves, Runs, IInv, Places, Place
<1>4. Sights' BY <1>1, RecordDoes
<1>40. object' = object BY DEF Leaves
<1>41. Deposits(c) BY <1>40 DEF Deposits
<1>5. Ids' BY <1>1, <1>3, <1>41, IdsKept
<1>6. Alone' BY <1>1, <1>2, <1>3, <1>41, OthersAlone DEF Alone
<1>7. \A d \in Client : Runs(d)' => d # c /\ job'[d] = job[d] /\ call'[d] = call[d]
  BY <1>3 DEF Frame
<1>8. Uids'
  <2>1. \A d \in Client, l \in Key : Busy(d, l)' => Busy(d, l) BY <1>7 DEF Busy, Runs
  <2>2. ASSUME NEW d \in Client, Runs(d)', job'[d].key \in Block
        PROVE  IF job'[d].op = "write" THEN job'[d].key \notin named' ELSE job'[d].key \in named'
    <3>1. d # c /\ job'[d] = job[d] /\ Runs(d) BY <1>7, <2>2 DEF Runs
    <3>2. IF job[d].op = "write" THEN job[d].key \notin named ELSE job[d].key \in named
      BY <2>2, <3>1 DEF IInv, Uids
    <3>3. CASE named' = named BY <3>1, <3>2, <3>3
    <3>4. CASE job[c].op = "write" /\ named' = named \cup ({k} \cap Block)
      <4>1. job[d].key # k BY <1>3, <2>2, <3>1, <3>4 DEF IInv, Apart, Busy
      <4> QED BY <3>1, <3>2, <3>4, <4>1
    <3> QED BY <3>3, <3>4
  <2>3. \A l \in Block : l \in Key BY Constants
  <2> QED BY <1>40, <2>1, <2>2, <2>3 DEF IInv, Uids
<1>9. Kept'
  <2> SUFFICES ASSUME NEW l \in named' PROVE \E a \in Content, i \in 0 .. calls : KeptAs(l, a, i)'
    BY DEF Kept
  <2>1. CASE l \in named
    <3>1. PICK a \in Content, i \in 0 .. calls : KeptAs(l, a, i) BY <2>1 DEF IInv, Kept
    <3>2. i \in Nat BY <3>1
    <3>3. /\ object'[l]["data"] \in {None, Encapsulate(a, i)}
          /\ object'[l]["meta"] \in {None, BuildMetadata(a, Encapsulate(a, i))}
          /\ \A d \in Client \ {c} : Busy(d, l)' => Faithful(d, l, a, i)'
      BY <1>1, <1>3, <1>41, <2>1, <3>1, <3>2, OthersKept
    <3>4. ~ Busy(c, l)' BY <1>3 DEF Busy
    <3>5. KeptAs(l, a, i)' BY <3>3, <3>4 DEF KeptAs
    <3> QED BY <3>1, <3>5
  <2>2. CASE l \notin named
    <3>1. l = k /\ l \in Block /\ job[c].op = "write" /\ call[c].pc = "end" BY <2>2
    <3>2. c \notin contested BY <3>1, Constants DEF IInv, Contests
    <3>3. Mine(c) BY <1>3, <3>2 DEF IInv, Alone
    <3>4. object[l]["data"] = DataOf(c) /\ object[l]["meta"] = MetaOf(c) BY <3>1, <3>3 DEF Mine
    <3>5. job[c].arg \in Content BY <3>1 DEF IInv, Places, Place
    <3>6. call[c].id \in 0 .. calls
      <4>1. call[c].id <= calls /\ calls \in Nat BY <1>3, Constants DEF IInv, Ids, Types
      <4>2. call[c].id \in Nat BY CallRecord DEF IInv, Calls
      <4> QED BY <4>1, <4>2
    <3>7. \A d \in Client : ~ Busy(d, l)'
      <4> SUFFICES ASSUME NEW d \in Client, Busy(d, l)' PROVE FALSE
        OBVIOUS
      <4>1. d # c /\ Busy(d, l) BY <1>7 DEF Busy, Runs
      <4> QED BY <1>3, <3>1, <4>1 DEF IInv, Apart
    <3>9. \E a \in Content, i \in 0 .. calls : KeptAs(l, a, i)'
      <4>1. PICK a \in Content, i \in 0 .. calls : a = job[c].arg /\ i = call[c].id BY <3>5, <3>6
      <4>2. object'[l]["data"] = Encapsulate(a, i) /\ object'[l]["meta"] = BuildMetadata(a, Encapsulate(a, i))
        BY <1>40, <3>4, <4>1 DEF DataOf, MetaOf
      <4>3. KeptAs(l, a, i)' BY <3>7, <4>2 DEF KeptAs
      <4> QED BY <4>1, <4>3
    <3> QED BY <3>9
  <2> QED BY <2>1, <2>2
<1>10. Whole'
  <2> SUFFICES ASSUME NEW l \in Key \ marred'
               PROVE  /\ \A d \in Client : Busy(d, l)' => Halves(d)'
                      /\ ~ Paired(l)' => \E d \in Client : Busy(d, l)' /\
                            \/ job'[d].op = "write"
                            \/ job'[d].op = "remove" /\ call'[d].part = "meta" /\ object'[l]["data"] = None
    BY DEF Whole
  <2>1. ASSUME NEW d \in Client, Busy(d, l)' PROVE Halves(d)'
    <3>1. d # c BY <1>7, <2>1 DEF Busy
    <3> QED BY <1>3, <1>41, <2>1, <3>1, OthersWhole
  <2>2. ASSUME ~ Paired(l)'
        PROVE  \E d \in Client : Busy(d, l)' /\
                            \/ job'[d].op = "write"
                            \/ job'[d].op = "remove" /\ call'[d].part = "meta" /\ object'[l]["data"] = None
    <3>1. ~ Paired(l) BY <1>40, <2>2 DEF Paired
    <3>2. PICK d \in Client : Busy(d, l) /\
                            \/ job[d].op = "write"
                            \/ job[d].op = "remove" /\ call[d].part = "meta" /\ object[l]["data"] = None
      BY <3>1 DEF IInv, Whole
    <3>3. d # c BY <3>1, <3>2 DEF Busy
    <3>4. job'[d] = job[d] /\ call'[d] = call[d] BY <3>3 DEF Frame
    <3> QED BY <1>40, <3>2, <3>4 DEF Busy, Runs
  <2> QED BY <2>1, <2>2
<1> QED BY <1>1, <1>2, <1>4, <1>5, <1>6, <1>8, <1>9, <1>10 DEF IInv

-----------------------------------------------------------------------------
(* How the steps of a call move it.                                        *)

\* An action changes nothing or one object, and counts at most one error.
Bounded(c) ==
    /\ calls' = calls /\ born' = born /\ named' = named
    /\ faults' = faults \/ Fault
    /\ marred' \in {marred, marred \cup {job[c].key}}
    /\ Record
Touches(c) ==
    \/ object' = object
    \/ \E v \in IF call[c].part = "data" THEN DataObject \cup {None} ELSE MetaObject \cup {None} :
          Store(c, v)

LEMMA TouchesDoes ==
    ASSUME IInv, NEW c \in Client, Runs(c), Touches(c)
    PROVE  /\ object' \in [Key -> [Part -> Stored]]
           /\ \A l \in Key : /\ object'[l]["data"] \in DataObject \cup {None}
                             /\ object'[l]["meta"] \in MetaObject \cup {None}
           /\ \A l \in Key \ {job[c].key} : object'[l] = object[l]
           /\ \A q \in Part \ {call[c].part} : object'[job[c].key][q] = object[job[c].key][q]
<1>1. job[c].key \in Key BY DEF IInv, Places, Place
<1>2. CASE object' = object BY <1>2 DEF IInv, Types
<1>3. CASE object' # object
  <2>1. PICK v \in IF call[c].part = "data" THEN DataObject \cup {None} ELSE MetaObject \cup {None} :
          Store(c, v)
    BY <1>3 DEF Touches
  <2> QED BY <1>1, <2>1, StoreDoes DEF IInv
<1> QED BY <1>2, <1>3

LEMMA TypesFollow ==
    ASSUME IInv, NEW c \in Client, Runs(c), Touches(c), Bounded(c),
           job' \in [Client -> Jobs], call' \in [Client -> Calls]
    PROVE  Types'
<1>1. faults' \in 0 .. MaxFaults
  BY Constants DEF IInv, Types, Bounded, Fault
<1>2. marred' \subseteq Key
  BY DEF Bounded, IInv, Types, Places, Place
<1>3. contested' \subseteq Client
  BY DEF Bounded, Record
<1>4. /\ object' \in [Key -> [Part -> Stored]]
      /\ \A l \in Key : /\ object'[l]["data"] \in DataObject \cup {None}
                        /\ object'[l]["meta"] \in MetaObject \cup {None}
  BY TouchesDoes
<1> QED BY <1>1, <1>2, <1>3, <1>4 DEF IInv, Types, Bounded

\* A flag that is set to what it is.
LEMMA NothingChanged ==
    ASSUME Types, NEW c \in Client
    PROVE  [job EXCEPT ![c].bad = job[c].bad] = job
<1>0. job \in [Client -> Jobs] BY DEF Types
<1>1. PICK j : j = job[c] OBVIOUS
<1>2. j \in Jobs BY <1>1, JobRecord
<1>3. PICK b : b = job[c].bad OBVIOUS
<1>4. [j EXCEPT !.bad = b] = [op |-> j.op, key |-> j.key, arg |-> j.arg, bad |-> b, res |-> j.res]
  BY <1>2, JobExcept
<1>5. j = [op |-> j.op, key |-> j.key, arg |-> j.arg, bad |-> b, res |-> j.res]
  BY <1>1, <1>3, JobRecord
<1>6. [job EXCEPT ![c] = j] = job BY <1>0, <1>1
<1> QED BY Zenon, <1>1, <1>3, <1>4, <1>5, <1>6

\* A step that goes on with the call.
LEMMA GoesOn ==
    ASSUME IInv, NEW c \in Client, Runs(c), Touches(c), Bounded(c),
           NEW pc \in PCs, NEW part \in Part, NEW v \in DataObject \cup {None, "found"},
           Keeping(c, pc, part, v)
    PROVE  /\ Frame(c) /\ Stays(c) /\ Types' /\ job' = job
           /\ call'[c].id = call[c].id /\ call'[c].mode = call[c].mode
           /\ call'[c].pc = pc /\ call'[c].part = part /\ call'[c].got = v
           /\ call'[c].try = 0
<1>1. Types BY DEF IInv
<1>2. /\ job' = job /\ call' \in [Client -> Calls]
      /\ \A d \in Client \ {c} : call'[d] = call[d]
      /\ call'[c] = [id |-> call[c].id, mode |-> call[c].mode, pc |-> pc,
                     part |-> part, got |-> v, try |-> 0]
  BY <1>1, KeepingDoes
<1>3. job \in [Client -> Jobs] BY DEF IInv, Types
<1>4. Types' BY <1>2, <1>3, TypesFollow
<1>5. Frame(c) BY <1>2, TouchesDoes DEF Frame
<1>6. [job EXCEPT ![c].bad = job[c].bad] = job BY <1>1, NothingChanged
<1>7. job[c].bad \in BOOLEAN BY <1>1, JobRecord DEF Jobs
<1>8. call'[c].id = call[c].id /\ call'[c].mode = call[c].mode
      /\ call'[c].pc = pc /\ call'[c].part = part /\ call'[c].got = v /\ call'[c].try = 0
  BY <1>2
<1>9. Stays(c)
  <2>1. Runs(c)' BY <1>2 DEF Runs
  <2>2. job'[c] = [op |-> job[c].op, key |-> job[c].key, arg |-> job[c].arg,
                        bad |-> job[c].bad, res |-> job[c].res]
    BY <1>1, <1>2, JobRecord
  <2>3. job' = [job EXCEPT ![c].bad = job[c].bad] BY <1>2, <1>6
  <2> QED BY Zenon, <1>7, <1>8, <2>1, <2>2, <2>3 DEF Stays
<1> QED BY <1>2, <1>4, <1>5, <1>8, <1>9

\* A step that meets an error.
LEMMA GoesWrong ==
    ASSUME IInv, NEW c \in Client, Runs(c), Touches(c), Bounded(c),
           NEW pc \in PCs, NEW part \in Part, Except(c, pc, part)
    PROVE  /\ Frame(c) /\ Stays(c) /\ Types' /\ job' = [job EXCEPT ![c].bad = TRUE] /\ job'[c].bad
           /\ job'[c].op = job[c].op /\ job'[c].key = job[c].key /\ job'[c].arg = job[c].arg
           /\ job'[c].res = job[c].res
           /\ call'[c].id = call[c].id /\ call'[c].mode = call[c].mode
           /\ call'[c].pc = pc /\ call'[c].part = part /\ call'[c].got = call[c].got
<1>1. Types BY DEF IInv
<1>2. /\ call' \in [Client -> Calls] /\ job' \in [Client -> Jobs]
      /\ \A d \in Client \ {c} : call'[d] = call[d] /\ job'[d] = job[d]
      /\ job' = [job EXCEPT ![c].bad = TRUE]
      /\ job'[c] = [op |-> job[c].op, key |-> job[c].key, arg |-> job[c].arg,
                    bad |-> TRUE, res |-> job[c].res]
      /\ call'[c] = [id |-> call[c].id, mode |-> call[c].mode, pc |-> pc,
                     part |-> part, got |-> call[c].got, try |-> 0]
  BY <1>1, ExceptDoes
<1>4. Types' BY <1>2, TypesFollow
<1>5. Frame(c) BY <1>2, TouchesDoes DEF Frame
<1>6. /\ call'[c].id = call[c].id /\ call'[c].mode = call[c].mode
      /\ call'[c].pc = pc /\ call'[c].part = part /\ call'[c].got = call[c].got
  BY <1>2
<1>7. /\ job'[c].op = job[c].op /\ job'[c].key = job[c].key /\ job'[c].arg = job[c].arg
      /\ job'[c].res = job[c].res /\ job'[c].bad = TRUE
  BY <1>2
<1>8. Stays(c)
  <2>1. Runs(c)' BY <1>7 DEF Runs
  <2> QED BY Zenon, <1>2, <1>6, <2>1 DEF Stays
<1> QED BY <1>2, <1>4, <1>5, <1>6, <1>7, <1>8

LEMMA GoesAgain ==
    ASSUME IInv, NEW c \in Client, Runs(c), Touches(c), Bounded(c), TryAgain(c)
    PROVE  /\ Frame(c) /\ Stays(c) /\ Types' /\ job' = [job EXCEPT ![c].bad = TRUE] /\ job'[c].bad
           /\ job'[c].op = job[c].op /\ job'[c].key = job[c].key /\ job'[c].arg = job[c].arg
           /\ job'[c].res = job[c].res
           /\ call'[c].id = call[c].id /\ call'[c].mode = call[c].mode
           /\ call'[c].pc = call[c].pc /\ call'[c].part = call[c].part /\ call'[c].got = call[c].got
<1>1. Types BY DEF IInv
<1>2. /\ call' \in [Client -> Calls] /\ job' \in [Client -> Jobs]
      /\ \A d \in Client \ {c} : call'[d] = call[d] /\ job'[d] = job[d]
      /\ job' = [job EXCEPT ![c].bad = TRUE]
      /\ job'[c] = [op |-> job[c].op, key |-> job[c].key, arg |-> job[c].arg,
                    bad |-> TRUE, res |-> job[c].res]
      /\ call'[c] = [id |-> call[c].id, mode |-> call[c].mode, pc |-> call[c].pc,
                     part |-> call[c].part, got |-> call[c].got, try |-> call[c].try + 1]
  BY <1>1, TryAgainDoes
<1>4. Types' BY <1>2, TypesFollow
<1>5. Frame(c) BY <1>2, TouchesDoes DEF Frame
<1>6. /\ call'[c].id = call[c].id /\ call'[c].mode = call[c].mode
      /\ call'[c].pc = call[c].pc /\ call'[c].part = call[c].part /\ call'[c].got = call[c].got
  BY <1>2
<1>7. /\ job'[c].op = job[c].op /\ job'[c].key = job[c].key /\ job'[c].arg = job[c].arg
      /\ job'[c].res = job[c].res /\ job'[c].bad = TRUE
  BY <1>2
<1>8. Stays(c)
  <2>1. Runs(c)' BY <1>7 DEF Runs
  <2> QED BY Zenon, <1>2, <1>6, <2>1 DEF Stays
<1> QED BY <1>2, <1>4, <1>5, <1>6, <1>7, <1>8

\* A step that ends the call.
LEMMA ComesBack ==
    ASSUME IInv, NEW c \in Client, Runs(c), object' = object,
           NEW r \in Results, Return(c, r),
           calls' = calls, born' = born, named' \subseteq born, faults' = faults \/ Fault,
           marred' \in {marred, marred \cup {job[c].key}}, Record
    PROVE  Frame(c) /\ Leaves(c) /\ Types' /\ job' = [job EXCEPT ![c] = Resting(r)]
<1>1. Types BY DEF IInv
<1>2. /\ call' \in [Client -> Calls] /\ job' \in [Client -> Jobs]
      /\ \A d \in Client \ {c} : call'[d] = call[d] /\ job'[d] = job[d]
      /\ job'[c] = Resting(r) /\ job'[c].op = "rest" /\ job'[c].res = r /\ job'[c].key = None
      /\ call'[c] = Idle
  BY <1>1, ReturnDoes
<1>3. faults' \in 0 .. MaxFaults
  BY Constants DEF IInv, Types, Fault
<1>4. marred' \subseteq Key
  BY DEF IInv, Types, Places, Place
<1>5. contested' \subseteq Client
  BY DEF Record
<1>6. Types' BY <1>2, <1>3, <1>4, <1>5 DEF IInv, Types
<1>7. Frame(c) BY <1>2 DEF Frame
<1>8. Leaves(c) BY <1>2 DEF Leaves
<1> QED BY <1>6, <1>7, <1>8 DEF Return

-----------------------------------------------------------------------------
(* Every action keeps the invariant: writing.                              *)

\* What is known of a call that runs.
LEMMA Here ==
    ASSUME IInv, NEW c \in Client, Runs(c)
    PROVE  /\ job[c].key \in Key /\ job[c].op \in {"read", "write", "remove"}
           /\ Busy(c, job[c].key) /\ Place(c)
           /\ c \notin contested => Mine(c)
           /\ job[c].key \notin marred => Halves(c)
           /\ job[c].key \notin marred => c \notin contested
           /\ call[c].part \in {"data", "meta"} /\ call[c].pc \in PCs /\ call[c].id \in Nat
           /\ call[c].got \in DataObject \cup {None, "found"}
           /\ object[job[c].key]["data"] \in DataObject \cup {None}
           /\ object[job[c].key]["meta"] \in MetaObject \cup {None}
           /\ Touches(c) \/ object' # object
<1>1. job[c].key \in Key /\ Place(c) BY DEF IInv, Places, Place
<1>2. job[c].op \in {"read", "write", "remove"} BY JobRecord DEF IInv, Jobs, Runs
<1>3. /\ call[c].part \in {"data", "meta"} /\ call[c].pc \in PCs /\ call[c].id \in Nat
      /\ call[c].got \in DataObject \cup {None, "found"}
  BY CallRecord DEF IInv, Calls, Part
<1>4. Busy(c, job[c].key) BY DEF Busy
<1>5. c \notin contested => Mine(c) BY DEF IInv, Alone
<1>6. job[c].key \notin marred => Halves(c) BY <1>1, <1>4 DEF IInv, Whole
<1>7. job[c].key \notin marred => c \notin contested BY DEF IInv, Contests
<1>8. /\ object[job[c].key]["data"] \in DataObject \cup {None}
      /\ object[job[c].key]["meta"] \in MetaObject \cup {None}
  BY <1>1 DEF IInv, Types
<1> QED BY <1>1, <1>2, <1>3, <1>4, <1>5, <1>6, <1>7, <1>8 DEF Touches

\* A step of a write that leaves the objects alone, or that is told by its key,
\* keeps the invariant when it keeps what the write relies on.
LEMMA WriteStays ==
    ASSUME IInv, NEW c \in Client, Frame(c), Stays(c), Deposits(c), Types', Bounded(c),
           cache' = cache, job[c].op = "write", Place(c)',
           c \notin contested => Mine(c)',
           job[c].key \notin marred' => Halves(c)'
    PROVE  IInv'
<1>1. Record /\ marred \subseteq marred' BY DEF Bounded
<1>2. Cached' BY <1>1, CacheKept
<1>3. job'[c].op = "write" BY DEF Stays
<1>4. \A a \in Content, i \in Nat : Faithful(c, job[c].key, a, i)' BY <1>3 DEF Faithful
<1> QED BY <1>1, <1>2, <1>4, StayKeeps DEF Bounded

\* Nothing is put anywhere.
LEMMA Untouched ==
    ASSUME object' = object
    PROVE  \A c \in Client : Touches(c) /\ Deposits(c)
BY DEF Touches, Deposits

LEMMA ProbeKeeps ==
    ASSUME IInv, NEW c \in Client, Probe(c)
    PROVE  IInv'
<1>0. At(c, "probe") /\ Runs(c) BY DEF Probe, At, Runs
<1>1. /\ job[c].key \in Key /\ Place(c) /\ job[c].op = "write" /\ call[c].pc = "probe" /\ call[c].part = "data"
      /\ job[c].key \in Version /\ job[c].key \notin Block
      /\ call[c].got \in DataObject \cup {None, "found"}
  <2>1. Place(c) /\ job[c].key \in Key /\ call[c].pc = "probe" BY <1>0, Here DEF At
  <2>2. job[c].op = "write" BY <1>0, <2>1, Here DEF Place
  <2> QED BY <1>0, <2>1, <2>2, Here, Constants DEF Place
<1>2. Bounded(c) /\ object' = object /\ cache' = cache BY DEF Probe, Bounded, NoFault, Fault
<1>3. Touches(c) /\ Deposits(c) BY <1>2, Untouched
<1>4. job[c].key \notin marred => Paired(job[c].key) BY <1>0, <1>1, Here DEF Halves
<1>5. CASE Goto(c, "put", "data")
  <2>1. /\ Frame(c) /\ Stays(c) /\ Types' /\ job' = job
        /\ call'[c].mode = call[c].mode /\ call'[c].pc = "put" /\ call'[c].part = "data"
    BY <1>0, <1>1, <1>2, <1>3, <1>5, GoesOn DEF Goto, PCs, Part
  <2>2. Place(c)' BY <1>1, <2>1 DEF Place, PCs, Runs
  <2>3. Mine(c)' BY <1>1, <2>1 DEF Mine
  <2>4. job[c].key \notin marred => Halves(c)' BY <1>1, <1>2, <1>4, <2>1 DEF Halves, Paired
  <2> QED BY <1>1, <1>2, <1>3, <2>1, <2>2, <2>3, <2>4, WriteStays DEF Bounded
<1>6. CASE Return(c, "failed")
  <2>1. Frame(c) /\ Leaves(c) /\ Types'
    <3>1. "failed" \in Results BY DEF Results, Outcomes
    <3>2. named \subseteq born BY DEF IInv, Types
    <3> QED BY <1>0, <1>2, <1>6, <3>1, <3>2, ComesBack DEF Bounded
  <2>2. Cached' BY <1>2, CacheKept DEF Bounded
  <2>3. marred \subseteq marred' BY <1>2 DEF Bounded
  <2> QED BY <1>2, <1>4, <2>1, <2>2, <2>3, LeaveKeeps DEF Bounded
<1>7. CASE Except(c, "raise", "data")
  <2>1. /\ Frame(c) /\ Stays(c) /\ Types' /\ job'[c].bad
        /\ job'[c].op = job[c].op /\ job'[c].key = job[c].key /\ job'[c].arg = job[c].arg
        /\ job'[c].res = job[c].res
        /\ call'[c].mode = call[c].mode /\ call'[c].pc = "raise" /\ call'[c].part = "data"
    BY <1>0, <1>2, <1>3, <1>7, GoesWrong DEF PCs, Part
  <2>2. Place(c)' BY <1>1, <2>1 DEF Place, PCs, Runs
  <2>3. Mine(c)' BY <1>1, <2>1 DEF Mine
  <2>4. job[c].key \notin marred => Halves(c)' BY <1>1, <1>2, <1>4, <2>1 DEF Halves, Paired
  <2> QED BY <1>1, <1>2, <1>3, <2>1, <2>2, <2>3, <2>4, WriteStays DEF Bounded
<1> QED BY <1>5, <1>6, <1>7 DEF Probe

\* What a write puts is an object of its kind that bears its id.
LEMMA PayloadIs ==
    ASSUME IInv, NEW c \in Client, job[c].op = "write"
    PROVE  /\ DataOf(c) \in DataObject /\ DataOf(c).id = call[c].id /\ DataOf(c).text = job[c].arg
           /\ MetaOf(c) \in MetaObject
           /\ DataOf(c) # None /\ MetaOf(c) # None
           /\ Payload(c) = IF call[c].part = "data" THEN DataOf(c) ELSE MetaOf(c)
           /\ \A v \in Prefixes(c) :
                 IF call[c].part = "data"
                 THEN v \in DataObject /\ v.id = call[c].id /\ v.text = Garbled
                 ELSE v \in MetaObject
<1>1. Runs(c) /\ job[c].arg \in Content /\ call[c].id \in Nat /\ call[c].part \in {"data", "meta"}
  BY Here DEF Runs, Place
<1>2. DataOf(c) \in DataObject /\ DataOf(c).id = call[c].id /\ DataOf(c).text = job[c].arg
  BY <1>1, Encapsulated DEF DataOf
<1>3. MetaOf(c) \in MetaObject
  <2> DEFINE d == DataOf(c)
  <2>1. d.layers \in Layers /\ d.len \in Nat /\ d.id \in Nat BY <1>2 DEF DataObject
  <2>2. Weight[job[c].arg] \in Nat BY <1>1, Constants
  <2> HIDE DEF d
  <2>3. BuildMetadata(job[c].arg, d) \in MetaObject
    BY <1>1, <2>1, <2>2 DEF BuildMetadata, MetaObject
  <2> QED BY <2>3 DEF MetaOf, d
<1>4. Payload(c) = IF call[c].part = "data" THEN DataOf(c) ELSE MetaOf(c)
  BY DEF Payload, DataOf, MetaOf
<1>5. Torn \in MetaObject BY DEF Torn, MetaObject, Layers
<1>6. ASSUME NEW v \in Prefixes(c), call[c].part = "data"
      PROVE  v \in DataObject /\ v.id = call[c].id /\ v.text = Garbled
  <2>1. PICK d : d = DataOf(c) OBVIOUS
  <2>2. Payload(c) = d BY <1>4, <1>6, <2>1
  <2>3. d \in DataObject /\ d.len \in Nat /\ d.id = call[c].id BY <1>2, <2>1 DEF DataObject
  <2>4. PICK n \in 0 .. d.len - 1 : v = [d EXCEPT !.text = Garbled, !.len = n]
    <3>1. call[c].part # "meta" BY <1>6
    <3>2. Prefixes(c) = {[d EXCEPT !.text = Garbled, !.len = n] : n \in 0 .. d.len - 1}
      BY <2>2, <3>1 DEF Prefixes
    <3> QED BY <3>2
  <2>5. n \in Nat BY <2>3, <2>4
  <2> DEFINE e == [d EXCEPT !.text = Garbled]
  <2>6. e = [text |-> Garbled, id |-> d.id, layers |-> d.layers, len |-> d.len]
    BY <2>3 DEF DataObject
  <2>7. d.layers \in Layers /\ d.id \in Nat BY <2>3 DEF DataObject
  <2>8. v = [e EXCEPT !.len = n] BY <2>4
  <2> HIDE DEF e
  <2>9. v = [text |-> Garbled, id |-> d.id, layers |-> d.layers, len |-> n] BY <2>6, <2>8
  <2> QED BY <2>3, <2>5, <2>7, <2>9 DEF DataObject
<1>7. ASSUME NEW v \in Prefixes(c), call[c].part # "data" PROVE v \in MetaObject
  BY <1>1, <1>5, <1>7 DEF Prefixes
<1> QED BY <1>2, <1>3, <1>4, <1>6, <1>7, Constants

\* What is stored of a write is told by its id.
LEMMA StoringDoes ==
    ASSUME IInv, NEW c \in Client, job[c].op = "write", NEW v,
           v = Payload(c) \/ v \in Prefixes(c), Store(c, v)
    PROVE  /\ Touches(c) /\ Deposits(c) /\ v # None
           /\ object'[job[c].key][call[c].part] = v
           /\ \A q \in Part \ {call[c].part} : object'[job[c].key][q] = object[job[c].key][q]
<1>1. Runs(c) /\ job[c].key \in Key /\ call[c].part \in {"data", "meta"}
  BY Here DEF Runs
<1>2. IF call[c].part = "data"
      THEN v \in DataObject /\ v.id = call[c].id /\ v.text \in {job[c].arg, Garbled}
      ELSE v \in MetaObject
  BY PayloadIs
<1>3. v \in IF call[c].part = "data" THEN DataObject \cup {None} ELSE MetaObject \cup {None}
  BY <1>2
<1>4. /\ object'[job[c].key][call[c].part] = v
      /\ \A q \in Part \ {call[c].part} : object'[job[c].key][q] = object[job[c].key][q]
  BY <1>1, <1>3, StoreDoes DEF IInv
<1>5. Touches(c) BY <1>3 DEF Touches
<1>6. v # None BY <1>2, Constants
<1>7. Deposits(c)
  <2>1. CASE call[c].part = "data" BY <1>2, <1>4, <2>1 DEF Deposits
  <2>2. CASE call[c].part = "meta" BY <1>4, <2>2 DEF Deposits, Part
  <2> QED BY <1>1, <2>1, <2>2
<1> QED BY <1>4, <1>5, <1>6, <1>7

LEMMA FileWriteObjectKeeps ==
    ASSUME IInv, NEW c \in Client, FileWriteObject(c)
    PROVE  IInv'
<1>0. Runs(c) /\ call[c].pc = "put" /\ Module[job[c].key] = "file" BY DEF FileWriteObject, At, Runs
<1>1. /\ job[c].key \in Key /\ Place(c) /\ job[c].op = "write" /\ call[c].part \in {"data", "meta"}
      /\ call[c].got \in DataObject \cup {None, "found"}
  <2>1. Place(c) /\ job[c].key \in Key BY <1>0, Here
  <2>2. job[c].op = "write" BY <1>0, <2>1, Here DEF Place
  <2> QED BY <1>0, <2>1, <2>2, Here
<1>2. Bounded(c) /\ cache' = cache BY DEF FileWriteObject, Bounded
<1>3. PICK v \in Prefixes(c) : Store(c, v) BY DEF FileWriteObject
<1>4. /\ Touches(c) /\ Deposits(c) /\ v # None
      /\ object'[job[c].key][call[c].part] = v
      /\ \A q \in Part \ {call[c].part} : object'[job[c].key][q] = object[job[c].key][q]
  BY <1>1, <1>3, StoringDoes
<1>5. /\ Frame(c) /\ Stays(c) /\ Types' /\ job' = job /\ call'[c].id = call[c].id
      /\ call'[c].mode = call[c].mode /\ call'[c].pc = "fill" /\ call'[c].part = call[c].part
  <2>1. Goto(c, "fill", call[c].part) BY DEF FileWriteObject
  <2> QED BY <1>0, <1>1, <1>2, <1>4, <2>1, GoesOn DEF Goto, PCs, Part
<1>6. Place(c)' BY <1>0, <1>1, <1>5 DEF Place, PCs, Runs
<1>7. c \notin contested => Mine(c)'
  <2> SUFFICES ASSUME c \notin contested PROVE Mine(c)'
    OBVIOUS
  <2>1. Mine(c) BY <1>0, Here
  <2>2. DataOf(c)' = DataOf(c) BY <1>5 DEF DataOf
  <2> QED BY <1>0, <1>1, <1>4, <1>5, <2>1, <2>2 DEF Mine, Part
<1>8. job[c].key \notin marred => Halves(c)'
  BY <1>0, <1>1, <1>4, <1>5, Here DEF Halves, Part
<1>9. marred' = marred BY DEF FileWriteObject
<1> QED BY <1>1, <1>2, <1>4, <1>5, <1>6, <1>7, <1>8, <1>9, WriteStays

\* An object that is written, at once or by filling it.
LEMMA WrittenKeeps ==
    ASSUME IInv, NEW c \in Client, At(c, "put") \/ At(c, "fill"), Store(c, Payload(c)), Written(c),
           Bounded(c), cache' = cache, marred' = marred
    PROVE  IInv'
<1>0. Runs(c) /\ call[c].pc \in {"put", "fill"} BY DEF At, Runs
<1>1. /\ job[c].key \in Key /\ Place(c) /\ job[c].op = "write" /\ call[c].part \in {"data", "meta"}
      /\ call[c].got \in DataObject \cup {None, "found"}
  <2>1. Place(c) /\ job[c].key \in Key BY <1>0, Here
  <2>2. job[c].op = "write" BY <1>0, <2>1, Here DEF Place
  <2> QED BY <1>0, <2>1, <2>2, Here
<1>4. /\ Touches(c) /\ Deposits(c)
      /\ object'[job[c].key][call[c].part] = Payload(c)
      /\ \A q \in Part \ {call[c].part} : object'[job[c].key][q] = object[job[c].key][q]
  BY <1>1, StoringDoes
<1>5. DataOf(c) # None /\ MetaOf(c) # None /\ Payload(c) = IF call[c].part = "data" THEN DataOf(c) ELSE MetaOf(c)
  BY <1>1, PayloadIs
<1>6. CASE call[c].part = "data"
  <2>1. Goto(c, "put", "meta") BY <1>6 DEF Written
  <2>2. /\ Frame(c) /\ Stays(c) /\ Types' /\ job' = job /\ call'[c].id = call[c].id
        /\ call'[c].mode = call[c].mode /\ call'[c].pc = "put" /\ call'[c].part = "meta"
    BY <1>0, <1>1, <1>4, <2>1, GoesOn DEF Goto, PCs, Part
  <2>3. Place(c)' BY <1>0, <1>1, <2>2 DEF Place, PCs, Runs
  <2>4. DataOf(c)' = DataOf(c) BY <2>2 DEF DataOf
  <2>5. Mine(c)' BY <1>1, <1>4, <1>5, <1>6, <2>2, <2>4 DEF Mine
  <2>6. Halves(c)' BY <1>1, <1>4, <1>5, <1>6, <2>2 DEF Halves
  <2> QED BY <1>1, <1>4, <2>2, <2>3, <2>5, <2>6, WriteStays
<1>7. CASE call[c].part = "meta"
  <2>1. PICK pc \in {"check", "end"} : Goto(c, pc, "data") BY <1>7 DEF Written
  <2>2. /\ Frame(c) /\ Stays(c) /\ Types' /\ job' = job /\ call'[c].id = call[c].id
        /\ call'[c].mode = call[c].mode /\ call'[c].pc = pc /\ call'[c].part = "data"
    BY <1>0, <1>1, <1>4, <2>1, GoesOn DEF Goto, PCs, Part
  <2>3. Place(c)' BY <1>0, <1>1, <2>1, <2>2 DEF Place, PCs, Runs
  <2>4. DataOf(c)' = DataOf(c) /\ MetaOf(c)' = MetaOf(c) BY <2>2 DEF DataOf, MetaOf
  <2>5. ASSUME c \notin contested
        PROVE  object'[job[c].key]["data"] = DataOf(c) /\ object'[job[c].key]["meta"] = MetaOf(c)
    <3>1. Mine(c) BY <1>0, <2>5, Here
    <3>2. object[job[c].key]["data"] = DataOf(c) BY <1>0, <1>1, <1>7, <3>1 DEF Mine
    <3> QED BY <1>4, <1>5, <1>7, <3>2 DEF Part
  <2>6. c \notin contested => Mine(c)' BY <1>1, <2>1, <2>2, <2>4, <2>5 DEF Mine
  <2>7. job[c].key \notin marred => Halves(c)'
    <3> SUFFICES ASSUME job[c].key \notin marred PROVE Halves(c)'
      OBVIOUS
    <3>1. c \notin contested BY <1>0, Here
    <3> QED BY <1>1, <1>5, <2>1, <2>2, <2>5, <3>1 DEF Halves
  <2> QED BY <1>1, <1>4, <2>2, <2>3, <2>6, <2>7, WriteStays
<1> QED BY <1>1, <1>6, <1>7

LEMMA FillObjectKeeps ==
    ASSUME IInv, NEW c \in Client, FillObject(c)
    PROVE  IInv'
<1>1. At(c, "fill") /\ Store(c, Payload(c)) /\ Written(c) /\ cache' = cache /\ marred' = marred
  BY DEF FillObject
<1>2. Bounded(c) BY DEF FillObject, Bounded
<1> QED BY <1>1, <1>2, WrittenKeeps

LEMMA BucketWriteObjectKeeps ==
    ASSUME IInv, NEW c \in Client, BucketWriteObject(c)
    PROVE  IInv'
<1>1. At(c, "put") /\ Store(c, Payload(c)) /\ Written(c) /\ cache' = cache /\ marred' = marred
  BY DEF BucketWriteObject
<1>2. Bounded(c) BY DEF BucketWriteObject, Bounded
<1> QED BY <1>1, <1>2, WrittenKeeps

LEMMA WriteObjectFailsKeeps ==
    ASSUME IInv, NEW c \in Client, WriteObjectFails(c)
    PROVE  IInv'
<1>0. Runs(c) /\ call[c].pc \in {"put", "fill"} BY DEF WriteObjectFails, At, Runs
<1>1. /\ job[c].key \in Key /\ Place(c) /\ job[c].op = "write" /\ call[c].part \in {"data", "meta"}
  <2>1. Place(c) /\ job[c].key \in Key BY <1>0, Here
  <2>2. job[c].op = "write" BY <1>0, <2>1, Here DEF Place
  <2> QED BY <1>0, <2>1, <2>2, Here
<1>2. Bounded(c) /\ cache' = cache /\ marred' = marred BY DEF WriteObjectFails, Bounded, Fault
<1>3. DataOf(c) # None /\ MetaOf(c) # None /\ Payload(c) = IF call[c].part = "data" THEN DataOf(c) ELSE MetaOf(c)
  BY <1>1, PayloadIs
<1> DEFINE data == object[job[c].key]["data"]
<1> DEFINE meta == object[job[c].key]["meta"]
<1>4. /\ Touches(c) /\ Deposits(c)
      /\ \/ object'[job[c].key]["data"] = data /\ object'[job[c].key]["meta"] = meta
         \/ /\ call[c].part = "data"
            /\ object'[job[c].key]["data"] = DataOf(c) /\ object'[job[c].key]["meta"] = meta
         \/ /\ call[c].part = "meta"
            /\ object'[job[c].key]["meta"] = MetaOf(c) /\ object'[job[c].key]["data"] = data
  <2>1. CASE object' = object BY <2>1, Untouched
  <2>2. CASE Store(c, Payload(c))
    <3>1. /\ Touches(c) /\ Deposits(c)
          /\ object'[job[c].key][call[c].part] = Payload(c)
          /\ \A q \in Part \ {call[c].part} : object'[job[c].key][q] = object[job[c].key][q]
      BY <1>1, <2>2, StoringDoes
    <3> QED BY <1>1, <1>3, <3>1 DEF Part
  <2> QED BY <2>1, <2>2 DEF WriteObjectFails
<1> HIDE DEF data, meta
<1>5. c \notin contested =>
        /\ call[c].part = "meta" => data = DataOf(c)
        /\ call[c].part = "data" /\ job[c].key \in Block => meta = None
  BY <1>0, <1>1, Here DEF Mine, data, meta
<1>6. job[c].key \notin marred =>
        /\ call[c].part = "meta" => data # None
        /\ call[c].pc = "fill" => data # None
        /\ meta # None => data # None
  BY <1>0, <1>1, Here DEF Halves, data, meta
<1>7. CASE TryAgain(c)
  <2>1. /\ Frame(c) /\ Stays(c) /\ Types' /\ job'[c].bad
        /\ job'[c].op = job[c].op /\ job'[c].key = job[c].key /\ job'[c].arg = job[c].arg
        /\ job'[c].res = job[c].res
        /\ call'[c].id = call[c].id /\ call'[c].mode = call[c].mode
        /\ call'[c].pc = call[c].pc /\ call'[c].part = call[c].part
    BY <1>0, <1>2, <1>4, <1>7, GoesAgain
  <2>2. Place(c)' BY <1>0, <1>1, <2>1 DEF Place, PCs, Runs
  <2>3. DataOf(c)' = DataOf(c) BY <2>1 DEF DataOf
  <2>4. c \notin contested => Mine(c)' BY <1>0, <1>1, <1>4, <1>5, <2>1, <2>3 DEF Mine
  <2>5. job[c].key \notin marred => Halves(c)' BY <1>0, <1>1, <1>3, <1>4, <1>6, <2>1 DEF Halves
  <2> QED BY <1>1, <1>2, <1>4, <2>1, <2>2, <2>4, <2>5, WriteStays
<1>8. CASE Except(c, "look", "data")
  <2>1. /\ Frame(c) /\ Stays(c) /\ Types' /\ job'[c].bad
        /\ job'[c].op = job[c].op /\ job'[c].key = job[c].key /\ job'[c].arg = job[c].arg
        /\ job'[c].res = job[c].res
        /\ call'[c].id = call[c].id /\ call'[c].mode = call[c].mode
        /\ call'[c].pc = "look" /\ call'[c].part = "data"
    BY <1>0, <1>2, <1>4, <1>8, GoesWrong DEF PCs, Part
  <2>2. Place(c)' BY <1>0, <1>1, <2>1 DEF Place, PCs, Runs
  <2>4. Mine(c)' BY <1>1, <2>1 DEF Mine
  <2>5. job[c].key \notin marred => Halves(c)' BY <1>0, <1>1, <1>3, <1>4, <1>6, <2>1 DEF Halves
  <2> QED BY <1>1, <1>2, <1>4, <2>1, <2>2, <2>4, <2>5, WriteStays
<1> QED BY <1>7, <1>8 DEF WriteObjectFails

\* A call that returns leaves the invariant when its key is as it should be.
LEMMA ReturnKeeps ==
    ASSUME IInv, NEW c \in Client, Runs(c), object' = object, Bounded(c), Cached',
           NEW r \in Results, Return(c, r),
           job[c].key \notin marred' => job[c].op = "read" \/ Paired(job[c].key)
    PROVE  IInv'
<1>1. named' \subseteq born BY DEF IInv, Types, Bounded
<1>2. Frame(c) /\ Leaves(c) /\ Types' BY <1>1, ComesBack DEF Bounded
<1>3. marred \subseteq marred' BY DEF Bounded
<1> QED BY <1>2, <1>3, LeaveKeeps DEF Bounded

\* What a call sees after a step is what its key then holds.
LEMMA SeenNow ==
    ASSUME Record, NEW c \in Client, Runs(c)'
    PROVE  Readable(job[c].key)' \in seen'[c] /\ seen[c] \subseteq seen'[c]
BY DEF Record, Readable, Runs

LEMMA CheckWriteKeeps ==
    ASSUME IInv, NEW c \in Client, CheckWrite(c)
    PROVE  IInv'
<1>0. Runs(c) /\ call[c].pc = "check" BY DEF CheckWrite, At, Runs
<1>1. /\ job[c].key \in Key /\ Place(c) /\ job[c].op = "write" /\ call[c].part \in {"data", "meta"}
      /\ call[c].got \in DataObject \cup {None, "found"}
  <2>1. Place(c) /\ job[c].key \in Key BY <1>0, Here
  <2>2. job[c].op = "write" BY <1>0, <2>1, Here DEF Place
  <2> QED BY <1>0, <2>1, <2>2, Here
<1>2. Bounded(c) /\ object' = object /\ cache' = cache BY DEF CheckWrite, Bounded, Fault, NoFault
<1>3. Touches(c) /\ Deposits(c) BY <1>2, Untouched
<1>30. marred' = marred BY DEF CheckWrite
<1>4. job[c].key \notin marred => object[job[c].key]["data"] # None /\ object[job[c].key]["meta"] # None
  BY <1>0, <1>1, Here DEF Halves
<1>5. c \notin contested =>
         object[job[c].key]["data"] = DataOf(c) /\ object[job[c].key]["meta"] = MetaOf(c)
  BY <1>0, <1>1, Here DEF Mine
<1>6. ASSUME NEW pc \in {"check", "end"}, NEW part \in Part, pc = "end" => part = "data",
             NEW v \in DataObject \cup {None, "found"},
             pc = "check" => v \in DataObject, Keeping(c, pc, part, v)
      PROVE  IInv'
  <2>1. /\ Frame(c) /\ Stays(c) /\ Types' /\ job' = job /\ call'[c].id = call[c].id
        /\ call'[c].mode = call[c].mode /\ call'[c].pc = pc /\ call'[c].part = part /\ call'[c].got = v
    BY <1>0, <1>2, <1>3, <1>6, GoesOn DEF PCs
  <2>2. Place(c)' BY <1>0, <1>1, <1>6, <2>1 DEF Place, PCs, Runs
  <2>3. DataOf(c)' = DataOf(c) /\ MetaOf(c)' = MetaOf(c) BY <2>1 DEF DataOf, MetaOf
  <2>4. c \notin contested => Mine(c)' BY <1>1, <1>2, <1>5, <1>6, <2>1, <2>3 DEF Mine
  <2>5. job[c].key \notin marred => Halves(c)' BY <1>1, <1>2, <1>4, <1>6, <2>1 DEF Halves
  <2> QED BY <1>1, <1>2, <1>3, <1>30, <2>1, <2>2, <2>4, <2>5, WriteStays
<1>7. CASE call[c].part = "data" /\ Held(c) # None /\ Keeping(c, "check", "meta", Held(c))
  <2>1. Held(c) \in DataObject
    <3>1. object[job[c].key]["data"] \in DataObject \cup {None} BY <1>0, Here
    <3> QED BY <1>7, <3>1 DEF Held
  <2> QED BY <1>6, <1>7, <2>1 DEF Part
<1>8. CASE Goto(c, "end", "data")
  BY <1>1, <1>6, <1>8 DEF Goto, Part
<1>9. CASE Return(c, "failed")
  <2>1. Cached' BY <1>2, CacheKept DEF Bounded
  <2>2. "failed" \in Results BY DEF Results, Outcomes
  <2>3. job[c].key \notin marred => Paired(job[c].key) BY <1>4 DEF Paired
  <2> QED BY <1>0, <1>2, <1>9, <1>30, <2>1, <2>2, <2>3, ReturnKeeps
<1>10. CASE Except(c, "raise", "data")
  <2>1. /\ Frame(c) /\ Stays(c) /\ Types' /\ job'[c].bad
        /\ job'[c].op = job[c].op /\ job'[c].key = job[c].key /\ job'[c].arg = job[c].arg
        /\ job'[c].res = job[c].res
        /\ call'[c].mode = call[c].mode /\ call'[c].pc = "raise" /\ call'[c].part = "data"
    BY <1>0, <1>2, <1>3, <1>10, GoesWrong DEF PCs, Part
  <2>2. Place(c)' BY <1>0, <1>1, <2>1 DEF Place, PCs, Runs
  <2>3. Mine(c)' BY <1>1, <2>1 DEF Mine
  <2>4. job[c].key \notin marred => Halves(c)' BY <1>1, <1>2, <1>4, <2>1 DEF Halves, Paired
  <2> QED BY <1>1, <1>2, <1>3, <1>30, <2>1, <2>2, <2>3, <2>4, WriteStays
<1> QED BY <1>7, <1>8, <1>9, <1>10 DEF CheckWrite

-----------------------------------------------------------------------------
(* Removing.                                                               *)

\* Half an object is nothing.
LEMMA HalfIsNone ==
    ASSUME Types, NEW k \in Key, object[k]["data"] = None \/ object[k]["meta"] = None
    PROVE  Readable(k) = None
BY Decoded DEF Readable, Types

\* What follows a removal, be it by a call that removes or by a write that
\* cleans up: gone says that the object is not there any more.
LEMMA RemovedKeeps ==
    ASSUME IInv, NEW c \in Client, call[c].pc \in {"look", "delete"}, Runs(c), Touches(c), Deposits(c),
           NEW found \in BOOLEAN, Removed(c, found), Bounded(c), cache' = cache,
           \A q \in Part : object'[job[c].key][q] \in {None, object[job[c].key][q]},
           c \notin contested => object'[job[c].key][call[c].part] = None,
           call[c].pc = "look" => object' = object,
           c \notin contested /\ ~ found => call[c].pc = "look" \/ job[c].op = "remove"
    PROVE  IInv'
<1> DEFINE k == job[c].key
<1>0. marred' = marred BY DEF Removed
<1>1. /\ k \in Key /\ Place(c) /\ job[c].op \in {"write", "remove"} /\ call[c].part \in {"data", "meta"}
      /\ call[c].got \in DataObject \cup {None, "found"}
  <2>1. Place(c) /\ k \in Key BY Here
  <2>2. job[c].op \in {"write", "remove"} BY <2>1, Here DEF Place
  <2> QED BY <2>1, <2>2, Here
<1>2. k \notin marred => c \notin contested /\ Halves(c) BY Here
<1>20. /\ object'[k]["data"] \in {None, object[k]["data"]}
       /\ object'[k]["meta"] \in {None, object[k]["meta"]}
  BY DEF Part
<1>3. CASE job[c].op = "write"
  <2>1. ASSUME NEW pc \in {"look", "raise"}, NEW part \in Part,
               pc = "raise" => part = "data", Goto(c, pc, part),
               pc = "look" => part = "meta" /\ call[c].part = "data",
               c \notin contested /\ pc = "raise" => call[c].part = "meta" \/ call[c].pc = "look"
        PROVE  IInv'
    <3>1. /\ Frame(c) /\ Stays(c) /\ Types' /\ job' = job /\ call'[c].id = call[c].id
          /\ call'[c].mode = call[c].mode /\ call'[c].pc = pc /\ call'[c].part = part
      BY <1>1, <2>1, GoesOn DEF Goto, PCs
    <3>2. Place(c)' BY <1>1, <1>3, <2>1, <3>1 DEF Place, PCs, Runs
    <3>3. Mine(c)' BY <1>3, <2>1, <3>1 DEF Mine
    <3>4. k \notin marred => Halves(c)'
      <4> SUFFICES ASSUME k \notin marred PROVE Halves(c)'
        OBVIOUS
      <4>1. c \notin contested /\ Halves(c) BY <1>2
      <4>2. object'[k][call[c].part] = None BY <4>1
      <4>3. CASE pc = "look"
        <5>1. object'[k]["data"] = None BY <2>1, <4>2, <4>3
        <5> QED BY <1>3, <2>1, <3>1, <4>3, <5>1 DEF Halves
      <4>4. CASE pc = "raise" /\ call[c].part = "meta"
        <5>1. object'[k]["meta"] = None BY <4>2, <4>4
        <5>2. object[k]["data"] = None BY <1>3, <4>1, <4>4 DEF Halves
        <5>3. object'[k]["data"] = None BY <1>20, <5>2
        <5> QED BY <1>3, <2>1, <3>1, <4>4, <5>1, <5>3 DEF Halves, Paired
      <4>5. CASE pc = "raise" /\ call[c].part = "data"
        <5>1. object'[k]["data"] = None BY <4>2, <4>5
        <5>2. call[c].pc = "look" /\ object' = object BY <2>1, <4>1, <4>5
        <5>3. object[k]["meta"] = None BY <1>3, <4>1, <4>5, <5>1, <5>2 DEF Halves
        <5> QED BY <1>3, <2>1, <3>1, <4>5, <5>1, <5>2, <5>3 DEF Halves, Paired
      <4> QED BY <1>1, <2>1, <4>3, <4>4, <4>5
    <3> QED BY <1>0, <1>3, <3>1, <3>2, <3>3, <3>4, WriteStays
  <2>2. CASE found /\ call[c].part = "data"
    BY <1>3, <2>1, <2>2 DEF Removed, Part
  <2>3. CASE ~ (found /\ call[c].part = "data")
    <3>1. Goto(c, "raise", "data") BY <1>3, <2>3 DEF Removed
    <3>2. c \notin contested => call[c].part = "meta" \/ call[c].pc = "look" BY <1>1, <1>3, <2>3
    <3> QED BY <2>1, <3>1, <3>2 DEF Part
  <2> QED BY <2>2, <2>3
<1>4. CASE job[c].op = "remove"
  <2>1. ASSUME NEW pc \in {"look", "end"}, NEW part \in Part, NEW v \in DataObject \cup {None, "found"},
               Keeping(c, pc, part, v),
               \/ pc = "look" /\ part = "meta" /\ call[c].part = "data"
               \/ pc = "end" /\ part = "data" /\ call[c].part = "meta"
        PROVE  IInv'
    <3>1. /\ Frame(c) /\ Stays(c) /\ Types' /\ job' = job /\ call'[c].id = call[c].id
          /\ call'[c].mode = call[c].mode /\ call'[c].pc = pc /\ call'[c].part = part
      BY <1>1, <2>1, GoesOn DEF PCs
    <3>2. Place(c)' BY <1>1, <1>4, <2>1, <3>1 DEF Place, PCs, Runs
    <3>3. c \notin contested => Mine(c)'
      <4> SUFFICES ASSUME c \notin contested, ~ job[c].bad PROVE None \in seen'[c]
        BY <1>4, <2>1, <3>1 DEF Mine
      <4>1. object'[k][call[c].part] = None OBVIOUS
      <4>2. object'[k]["data"] = None \/ object'[k]["meta"] = None BY <1>1, <4>1
      <4>3. Readable(k)' = None
        <5>1. Readable(job[c].key)' = Decode(k, object'[k]["data"], object'[k]["meta"])
          BY <3>1 DEF Readable
        <5>2. /\ object'[k]["data"] \in DataObject \cup {None}
              /\ object'[k]["meta"] \in MetaObject \cup {None}
          BY <1>1, <3>1 DEF Types
        <5> QED BY <4>2, <5>1, <5>2, Decoded
      <4>4. Readable(job[c].key)' \in seen'[c] BY <3>1, SeenNow DEF Bounded, Runs
      <4> QED BY <4>3, <4>4
    <3>4. k \notin marred => Halves(c)'
      <4> SUFFICES ASSUME k \notin marred PROVE Halves(c)'
        OBVIOUS
      <4>1. c \notin contested /\ Halves(c) BY <1>2
      <4>2. object'[k][call[c].part] = None BY <4>1
      <4>3. CASE pc = "look"
        <5>1. object'[k]["data"] = None BY <2>1, <4>2, <4>3
        <5> QED BY <1>4, <2>1, <3>1, <4>3, <5>1 DEF Halves
      <4>4. CASE pc = "end"
        <5>1. object'[k]["meta"] = None BY <2>1, <4>2, <4>4
        <5>2. object[k]["data"] = None BY <1>4, <2>1, <4>1, <4>4 DEF Halves
        <5>3. object'[k]["data"] = None BY <1>20, <5>2
        <5> QED BY <1>4, <2>1, <3>1, <4>4, <5>1, <5>3 DEF Halves
      <4> QED BY <4>3, <4>4
    <3>5. \A a \in Content, i \in Nat : Faithful(c, k, a, i)' BY <1>4, <2>1, <3>1 DEF Faithful
    <3>6. Cached' BY CacheKept DEF Bounded
    <3>7. call'[c].part = "meta" \/ call'[c].pc = "end" BY <2>1, <3>1
    <3> QED BY <1>0, <3>1, <3>2, <3>3, <3>4, <3>5, <3>6, <3>7, StayKeeps DEF Bounded
  <2>2. CASE call[c].part = "data"
    <3>1. PICK v \in DataObject \cup {None, "found"} : Keeping(c, "look", "meta", v)
      BY <1>4, <2>2 DEF Removed
    <3> QED BY <2>1, <2>2, <3>1 DEF Part
  <2>3. CASE call[c].part = "meta"
    <3>1. Keeping(c, "end", "data", call[c].got) BY <1>4, <2>3 DEF Removed, Goto
    <3> QED BY <1>1, <2>1, <2>3, <3>1 DEF Part
  <2> QED BY <1>1, <2>2, <2>3
<1> QED BY <1>1, <1>3, <1>4


\* One step of _rm_object that found an object goes on to delete it.
LEMMA FindsDoes ==
    ASSUME Types, NEW c \in Client, NEW n \in Nat,
           call' = [call EXCEPT ![c].pc = "delete", ![c].try = n]
    PROVE  /\ call' \in [Client -> Calls]
           /\ \A d \in Client \ {c} : call'[d] = call[d]
           /\ call'[c].id = call[c].id /\ call'[c].mode = call[c].mode /\ call'[c].pc = "delete"
           /\ call'[c].part = call[c].part /\ call'[c].got = call[c].got /\ call'[c].try = n
<1>1. PICK o : o = call[c] OBVIOUS
<1>2. o \in Calls BY <1>1, CallRecord
<1> DEFINE o1 == [o EXCEPT !.pc = "delete"]
<1> DEFINE o2 == [o1 EXCEPT !.try = n]
<1>3. o1 = [id |-> o.id, mode |-> o.mode, pc |-> "delete", part |-> o.part, got |-> o.got, try |-> o.try]
  BY <1>2 DEF Calls
<1> DEFINE f1 == [call EXCEPT ![c].pc = "delete"]
<1>4. call \in [Client -> Calls] BY DEF Types
<1>5. f1 = [call EXCEPT ![c] = o1] BY Zenon, <1>1
<1>6. call' = [f1 EXCEPT ![c].try = n] OBVIOUS
<1> HIDE DEF o1, f1
<1>7. o2 = [id |-> o.id, mode |-> o.mode, pc |-> "delete", part |-> o.part, got |-> o.got, try |-> n]
  BY <1>3
<1>8. o2 \in Calls BY <1>2, <1>7 DEF Calls, PCs
<1>9. f1[c] = o1 /\ DOMAIN f1 = Client /\ \A d \in Client \ {c} : f1[d] = call[d]
  BY <1>4, <1>5
<1>10. call' = [f1 EXCEPT ![c] = o2] BY <1>6, <1>9
<1> HIDE DEF o2
<1>11. \A d \in Client : call'[d] = IF d = c THEN o2 ELSE call[d]
  BY <1>9, <1>10
<1>12. call' = [d \in Client |-> IF d = c THEN o2 ELSE call[d]]
  BY <1>4, <1>5, <1>10
<1>13. call' \in [Client -> Calls] BY <1>4, <1>8, <1>12
<1>14. call'[c] = o2 BY <1>11
<1> QED BY <1>1, <1>7, <1>11, <1>13, <1>14

\* _rm_object found the object and will delete it.
LEMMA LookFinds ==
    ASSUME IInv, NEW c \in Client, LookObject(c), Held(c) # None
    PROVE  /\ Frame(c) /\ Stays(c) /\ Types' /\ job' = job /\ marred' = marred
           /\ call'[c].id = call[c].id /\ call'[c].mode = call[c].mode /\ call'[c].pc = "delete"
           /\ call'[c].part = call[c].part /\ call'[c].got = call[c].got /\ call'[c].try = Held(c).id
<1>0. Runs(c) /\ object' = object BY DEF LookObject, At, Runs
<1>1. Touches(c) BY <1>0, Untouched
<1>2. call' = [call EXCEPT ![c].pc = "delete", ![c].try = Held(c).id] /\ job' = job /\ marred' = marred
  BY DEF LookObject
<1>3. Bounded(c) BY <1>2 DEF LookObject, Bounded
<1>4. Held(c).id \in Nat BY <1>0, Here DEF Held, DataObject, MetaObject
<1>5. /\ call' \in [Client -> Calls]
      /\ \A d \in Client \ {c} : call'[d] = call[d]
      /\ call'[c].id = call[c].id /\ call'[c].mode = call[c].mode /\ call'[c].pc = "delete"
      /\ call'[c].part = call[c].part /\ call'[c].got = call[c].got /\ call'[c].try = Held(c).id
  BY <1>2, <1>4, FindsDoes DEF IInv
<1>6. job' \in [Client -> Jobs] BY <1>2 DEF IInv, Types
<1>7. Types' BY <1>0, <1>1, <1>3, <1>5, <1>6, TypesFollow
<1>8. Frame(c) BY <1>0, <1>2, <1>5 DEF Frame
<1>9. Stays(c)
  <2>1. Runs(c)' BY <1>0, <1>2 DEF Runs
  <2>2. [job EXCEPT ![c].bad = job[c].bad] = job BY NothingChanged DEF IInv
  <2>3. job[c].bad \in BOOLEAN BY JobRecord DEF IInv, Jobs
  <2>4. job'[c] = [op |-> job[c].op, key |-> job[c].key, arg |-> job[c].arg,
                   bad |-> job[c].bad, res |-> job[c].res]
    BY <1>2, JobRecord DEF IInv
  <2>5. job' = [job EXCEPT ![c].bad = job[c].bad] BY <1>2, <2>2
  <2> QED BY Zenon, <1>0, <1>5, <2>1, <2>3, <2>4, <2>5 DEF Stays
<1> QED BY <1>2, <1>5, <1>7, <1>8, <1>9

LEMMA LookObjectKeeps ==
    ASSUME IInv, NEW c \in Client, LookObject(c)
    PROVE  IInv'
<1> DEFINE k == job[c].key
<1>0. Runs(c) /\ call[c].pc = "look" BY DEF LookObject, At, Runs
<1>1. /\ k \in Key /\ Place(c) /\ job[c].op \in {"write", "remove"} /\ call[c].part \in {"data", "meta"}
      /\ object[k]["data"] \in DataObject \cup {None} /\ object[k]["meta"] \in MetaObject \cup {None}
  <2>1. Place(c) /\ k \in Key BY <1>0, Here
  <2>2. job[c].op \in {"write", "remove"} BY <1>0, <2>1, Here DEF Place
  <2> QED BY <1>0, <2>1, <2>2, Here
<1>2. object' = object /\ cache' = cache BY DEF LookObject
<1>3. Touches(c) /\ Deposits(c) BY <1>2, Untouched
<1>4. CASE Held(c) = None
  <2>1. Removed(c, FALSE) BY <1>4 DEF LookObject
  <2>2. Bounded(c) BY <2>1 DEF LookObject, Bounded, Removed
  <2>3. object'[k][call[c].part] = None BY <1>2, <1>4 DEF Held
  <2> QED BY <1>0, <1>2, <1>3, <2>1, <2>2, <2>3, RemovedKeeps
<1>5. CASE Held(c) # None
  <2>1. /\ Frame(c) /\ Stays(c) /\ Types' /\ job' = job /\ marred' = marred
        /\ call'[c].id = call[c].id /\ call'[c].mode = call[c].mode /\ call'[c].pc = "delete"
        /\ call'[c].part = call[c].part /\ call'[c].got = call[c].got /\ call'[c].try = Held(c).id
    BY <1>5, LookFinds
  <2>2. Bounded(c) BY <2>1 DEF LookObject, Bounded
  <2>9. Place(c)' BY <1>0, <1>1, <2>1 DEF Place, PCs, Runs
  <2>10. c \notin contested => Mine(c)'
    <3> SUFFICES ASSUME c \notin contested PROVE Mine(c)'
      OBVIOUS
    <3>1. Mine(c) BY <1>0, Here
    <3>2. seen[c] \subseteq seen'[c] BY <2>1, SeenNow DEF LookObject, Stays
    <3>3. Held(c)' # None /\ Held(c)'.id = call'[c].try BY <1>2, <1>5, <2>1 DEF Held
    <3> QED BY <1>0, <1>2, <2>1, <3>1, <3>2, <3>3 DEF Mine
  <2>11. k \notin marred => Halves(c)'
    <3> SUFFICES ASSUME k \notin marred PROVE Halves(c)'
      OBVIOUS
    <3>1. Halves(c) BY <1>0, Here
    <3>2. call[c].part = "data" => object[k]["data"] # None BY <1>5 DEF Held
    <3> QED BY <1>0, <1>1, <1>2, <2>1, <3>1, <3>2 DEF Halves
  <2>12. \A a \in Content, i \in Nat : k \in named /\ KeptAs(k, a, i) => Faithful(c, k, a, i)'
    <3> SUFFICES ASSUME NEW a \in Content, NEW i \in Nat, KeptAs(k, a, i)
                 PROVE  Faithful(c, k, a, i)'
      OBVIOUS
    <3>1. /\ object[k]["data"] \in {None, Encapsulate(a, i)}
          /\ object[k]["meta"] \in {None, BuildMetadata(a, Encapsulate(a, i))}
      BY DEF KeptAs
    <3>2. Encapsulate(a, i).id = i BY Encapsulated
    <3>3. BuildMetadata(a, Encapsulate(a, i)).id = i BY <3>2 DEF BuildMetadata
    <3>4. Held(c).id = i BY <1>1, <1>5, <3>1, <3>2, <3>3 DEF Held
    <3> QED BY <2>1, <3>4 DEF Faithful
  <2>13. Cached' BY <1>2, <2>2, CacheKept DEF Bounded
  <2>14. job[c].op = "remove" => call'[c].part = "meta" \/ (call[c].part # "meta" /\ object' = object)
    BY <1>2, <2>1
  <2> QED BY <1>3, <2>1, <2>2, <2>9, <2>10, <2>11, <2>12, <2>13, <2>14, StayKeeps DEF Bounded
<1> QED BY <1>4, <1>5

\* An object that is deleted is gone from a key that the call has to itself.
LEMMA DeletesKeeps ==
    ASSUME IInv, NEW c \in Client, At(c, "delete"), NEW gone \in BOOLEAN, NEW found \in BOOLEAN,
           Deletes(c, gone, found),
           gone \/ Held(c) = None \/ (Held(c) # None /\ Held(c).id # call[c].try),
           found \/ Held(c) = None
    PROVE  IInv'
<1> DEFINE k == job[c].key
<1>0. Runs(c) /\ call[c].pc = "delete" BY DEF At, Runs
<1>1. /\ k \in Key /\ Place(c) /\ job[c].op \in {"write", "remove"} /\ call[c].part \in {"data", "meta"}
      /\ object[k]["data"] \in DataObject \cup {None} /\ object[k]["meta"] \in MetaObject \cup {None}
  <2>1. Place(c) /\ k \in Key BY <1>0, Here
  <2>2. job[c].op \in {"write", "remove"} BY <1>0, <2>1, Here DEF Place
  <2> QED BY <1>0, <2>1, <2>2, Here
<1>2. Removed(c, found) /\ cache' = cache /\ Bounded(c)
  BY DEF Deletes, Bounded, Removed
<1>3. Touches(c)
  BY DEF Deletes, Touches
<1>4. /\ \A q \in Part : object'[k][q] \in {None, object[k][q]}
      /\ gone => object'[k][call[c].part] = None
      /\ ~ gone => object' = object
  <2>1. CASE gone
    <3>1. Store(c, None) BY <2>1 DEF Deletes
    <3>2. /\ object'[k][call[c].part] = None
          /\ \A q \in Part \ {call[c].part} : object'[k][q] = object[k][q]
      BY <1>1, <3>1, StoreDoes DEF IInv
    <3> QED BY <2>1, <3>2
  <2>2. CASE ~ gone BY <2>2 DEF Deletes
  <2> QED BY <2>1, <2>2
<1>5. Deposits(c) BY <1>1, <1>4 DEF Deposits, Part
<1>6. ASSUME c \notin contested
      PROVE  /\ Held(c) # None => Held(c).id = call[c].try
             /\ job[c].op = "write" => Held(c) # None
  <2>1. Mine(c) BY <1>0, <1>6, Here
  <2>2. CASE k \in Version \/ job[c].op = "write" BY <1>0, <2>1, <2>2 DEF Mine
  <2>3. CASE k \in Block /\ job[c].op = "remove"
    <3>1. k \in named BY <1>0, <2>3 DEF IInv, Uids
    <3>2. PICK a \in Content, i \in 0 .. calls : KeptAs(k, a, i) BY <3>1 DEF IInv, Kept
    <3>3. i \in Nat BY <3>2
    <3>4. call[c].try = i
      <4>1. Faithful(c, k, a, i) BY <1>0, <3>2, Here DEF KeptAs
      <4> QED BY <1>0, <2>3, <4>1 DEF Faithful
    <3>5. Encapsulate(a, i).id = i BY <3>3, Encapsulated
    <3>6. BuildMetadata(a, Encapsulate(a, i)).id = i BY <3>5 DEF BuildMetadata
    <3>7. /\ object[k]["data"] \in {None, Encapsulate(a, i)}
          /\ object[k]["meta"] \in {None, BuildMetadata(a, Encapsulate(a, i))}
      BY <3>2 DEF KeptAs
    <3> QED BY <1>1, <2>3, <3>4, <3>5, <3>6, <3>7 DEF Held
  <2> QED BY <1>1, <2>2, <2>3 DEF Key
<1>7. c \notin contested => object'[k][call[c].part] = None
  BY <1>4, <1>6 DEF Held
<1>8. c \notin contested /\ ~ found => job[c].op = "remove"
  BY <1>1, <1>6
<1> QED BY <1>0, <1>2, <1>3, <1>4, <1>5, <1>7, <1>8, RemovedKeeps

LEMMA RmObjectKeeps ==
    ASSUME IInv, NEW c \in Client, FileRmObject(c) \/ S3RmObject(c) \/ B2RmObject(c)
    PROVE  IInv'
<1>0. At(c, "delete") BY DEF FileRmObject, S3RmObject, B2RmObject
<1>1. CASE FileRmObject(c)
  <2>1. Deletes(c, TRUE, Held(c) # None) BY <1>1 DEF FileRmObject
  <2>2. PICK f \in BOOLEAN : f = (Held(c) # None) OBVIOUS
  <2>3. Deletes(c, TRUE, f) BY <2>1, <2>2
  <2> QED BY <1>0, <2>2, <2>3, DeletesKeeps
<1>2. CASE S3RmObject(c)
  <2>1. Deletes(c, TRUE, TRUE) BY <1>2 DEF S3RmObject
  <2> QED BY <1>0, <2>1, DeletesKeeps
<1>3. CASE B2RmObject(c)
  <2>1. PICK f \in BOOLEAN, g \in BOOLEAN :
            f = (Held(c) # None) /\ g = (Held(c) # None /\ Held(c).id = call[c].try)
    OBVIOUS
  <2>2. Deletes(c, g, f) BY <1>3, <2>1 DEF B2RmObject
  <2> QED BY <1>0, <2>1, <2>2, DeletesKeeps
<1> QED BY <1>1, <1>2, <1>3

LEMMA RmObjectFailsKeeps ==
    ASSUME IInv, NEW c \in Client, RmObjectFails(c)
    PROVE  IInv'
<1> DEFINE k == job[c].key
<1>0. Runs(c) /\ call[c].pc \in {"look", "delete"} BY DEF RmObjectFails, At, Runs
<1>1. /\ k \in Key /\ Place(c) /\ job[c].op \in {"write", "remove"} /\ call[c].part \in {"data", "meta"}
  <2>1. Place(c) /\ k \in Key BY <1>0, Here
  <2>2. job[c].op \in {"write", "remove"} BY <1>0, <2>1, Here DEF Place
  <2> QED BY <1>0, <2>1, <2>2, Here
<1>2. Bounded(c) /\ object' = object /\ cache' = cache BY DEF RmObjectFails, Bounded, Fault
<1>3. Touches(c) /\ Deposits(c) BY <1>2, Untouched
<1>4. k \in marred' BY DEF RmObjectFails
<1>5. ASSUME NEW pc \in {"look", "raise"}, NEW part \in Part, Except(c, pc, part),
             pc = "raise" => part = "data"
      PROVE  IInv'
  <2>1. /\ Frame(c) /\ Stays(c) /\ Types' /\ job'[c].bad
        /\ job'[c].op = job[c].op /\ job'[c].key = job[c].key /\ job'[c].arg = job[c].arg
        /\ job'[c].res = job[c].res
        /\ call'[c].mode = call[c].mode /\ call'[c].pc = pc /\ call'[c].part = part
    BY <1>0, <1>2, <1>3, <1>5, GoesWrong DEF PCs
  <2>2. Place(c)' BY <1>0, <1>1, <1>5, <2>1 DEF Place, PCs, Runs
  <2>3. Mine(c)' BY <1>1, <1>5, <2>1 DEF Mine
  <2>4. \A a \in Content, i \in Nat : Faithful(c, k, a, i)' BY <1>5, <2>1 DEF Faithful
  <2>5. Cached' BY <1>2, CacheKept DEF Bounded
  <2>6. marred \subseteq marred' BY <1>2 DEF Bounded
  <2> QED BY <1>2, <1>3, <1>4, <2>1, <2>2, <2>3, <2>4, <2>5, <2>6, StayKeeps DEF Bounded
<1> QED BY <1>5 DEF RmObjectFails, Part

-----------------------------------------------------------------------------
(* Reading, and the ends of calls.                                         *)

\* A call at pc "cache" or "get" reads.
LEMMA Reading ==
    ASSUME IInv, NEW c \in Client, At(c, "cache") \/ At(c, "get")
    PROVE  /\ Runs(c) /\ job[c].key \in Key /\ Place(c) /\ job[c].op = "read" /\ job[c].arg = None
           /\ call[c].part \in {"data", "meta"} /\ call[c].mode \in Modes
           /\ call[c].got \in DataObject \cup {None, "found"}
           /\ object[job[c].key]["data"] \in DataObject \cup {None}
           /\ object[job[c].key]["meta"] \in MetaObject \cup {None}
<1>0. Runs(c) /\ call[c].pc \in {"cache", "get"} BY DEF At, Runs
<1>1. job[c].key \in Key /\ Place(c) BY <1>0, Here
<1>2. job[c].op = "read" /\ job[c].arg = None BY <1>0, <1>1, Here DEF Place
<1>3. call[c].mode \in Modes BY CallRecord DEF IInv, Calls
<1> QED BY <1>0, <1>1, <1>2, <1>3, Here

\* A step of a read that goes on keeps the invariant when what it has got is
\* what its key holds.
LEMMA ReadStays ==
    ASSUME IInv, NEW c \in Client, Frame(c), Stays(c), Types', Bounded(c),
           object' = object, cache' = cache, marred' = marred, job[c].op = "read", Place(c)',
           call'[c].pc = "get" /\ call'[c].part = "meta" =>
               \/ call'[c].got = object[job[c].key]["data"]
               \/ call[c].pc = "get" /\ call[c].part = "meta" /\ call'[c].got = call[c].got,
           call'[c].pc # "delete"
    PROVE  IInv'
<1> DEFINE k == job[c].key
<1>1. Runs(c) /\ k \in Key /\ Place(c) BY Here DEF Stays
<1>2. Record /\ Cached' /\ Deposits(c) BY CacheKept, Untouched DEF Bounded
<1>3. job'[c].op = "read" /\ job'[c].key = k /\ Runs(c)' BY DEF Stays
<1>4. c \notin contested => Mine(c)'
  BY <1>1, <1>3, Here DEF Mine
<1>5. k \notin marred => Halves(c)' BY <1>3 DEF Halves
<1>6. ASSUME NEW a \in Content, NEW i \in Nat, KeptAs(k, a, i),
             call'[c].pc = "get", call'[c].part = "meta"
      PROVE  call'[c].got = Encapsulate(a, i) /\ (object'[k]["meta"] # None => a \in seen'[c])
  <2>1. seen[c] \subseteq seen'[c] /\ Readable(job[c].key)' \in seen'[c] BY <1>2, <1>3, SeenNow
  <2>2. CASE call[c].pc = "get" /\ call[c].part = "meta" /\ call'[c].got = call[c].got
    <3>1. Faithful(c, k, a, i) BY <1>1, <1>6, Here DEF KeptAs
    <3> QED BY <2>1, <2>2, <3>1 DEF Faithful
  <2>3. CASE call'[c].got = object[k]["data"] /\ object[k]["data"] # None
    <3>1. object[k]["data"] = Encapsulate(a, i) BY <1>6, <2>3 DEF KeptAs
    <3>2. ASSUME object'[k]["meta"] # None PROVE a \in seen'[c]
      <4>1. object[k]["meta"] = BuildMetadata(a, Encapsulate(a, i)) BY <1>6, <3>2 DEF KeptAs
      <4>2. Readable(job[c].key)' = Decode(k, object[k]["data"], object[k]["meta"])
        BY <1>3 DEF Readable
      <4>3. Readable(job[c].key)' = a BY <3>1, <4>1, <4>2, DecodesOwn
      <4> QED BY <2>1, <4>3
    <3> QED BY <2>3, <3>1, <3>2
  <2>4. call'[c].got # None
    <3>1. call'[c].got \in DataObject BY <1>6 DEF Place
    <3> QED BY <3>1, Constants
  <2> QED BY <1>6, <2>2, <2>3, <2>4
<1>7. \A a \in Content, i \in Nat : k \in named /\ KeptAs(k, a, i) => Faithful(c, k, a, i)'
  BY <1>3, <1>6 DEF Faithful
<1> QED BY <1>2, <1>4, <1>5, <1>7, StayKeeps DEF Bounded

LEMMA ReadCacheKeeps ==
    ASSUME IInv, NEW c \in Client, ReadCache(c)
    PROVE  IInv'
<1> DEFINE k == job[c].key
<1> DEFINE e == cache[k]
<1>0. At(c, "cache") /\ call[c].pc = "cache" BY DEF ReadCache, At
<1>1. Runs(c) /\ k \in Key /\ k \in Block /\ Place(c) /\ job[c].op = "read" /\ job[c].arg = None
      /\ call[c].got \in DataObject \cup {None, "found"}
  BY <1>0, Reading DEF Place
<1>2. Bounded(c) /\ object' = object /\ cache' = cache /\ marred' = marred BY DEF ReadCache, Bounded
<1>3. Touches(c) /\ Deposits(c) BY <1>2, Untouched
<1>4. ASSUME NEW r \in Results, Return(c, r) PROVE IInv'
  <2>1. Cached' BY <1>2, CacheKept DEF Bounded
  <2> QED BY <1>1, <1>2, <1>4, <2>1, ReturnKeeps
<1>5. CASE Goto(c, "get", "data")
  <2>1. /\ Frame(c) /\ Stays(c) /\ Types' /\ job' = job
        /\ call'[c].mode = call[c].mode /\ call'[c].pc = "get" /\ call'[c].part = "data"
    BY <1>1, <1>2, <1>3, <1>5, GoesOn DEF Goto, PCs, Part
  <2>2. Place(c)' BY <1>1, <2>1 DEF Place, Runs
  <2> QED BY <1>1, <1>2, <2>1, <2>2, ReadStays
<1>6. known[k] \subseteq Results
  BY <1>1 DEF IInv, Cached, Results
<1>7. /\ e["meta"] # None => e["meta"].checksum \in Results
      /\ e["data"] # None => e["data"] \in Results
  BY <1>1, <1>6 DEF IInv, Cached
<1> QED BY <1>4, <1>5, <1>7 DEF ReadCache

LEMMA ReadDataKeeps ==
    ASSUME IInv, NEW c \in Client, ReadData(c)
    PROVE  IInv'
<1> DEFINE k == job[c].key
<1>0. At(c, "get") /\ call[c].pc = "get" /\ call[c].part = "data" BY DEF ReadData, At
<1>1. Runs(c) /\ k \in Key /\ Place(c) /\ job[c].op = "read" /\ job[c].arg = None
      /\ object[k]["data"] \in DataObject \cup {None}
  BY <1>0, Reading
<1>2. Bounded(c) /\ object' = object /\ cache' = cache /\ marred' = marred BY DEF ReadData, Bounded
<1>3. Touches(c) /\ Deposits(c) BY <1>2, Untouched
<1>4. CASE Return(c, "failed")
  <2>1. Cached' BY <1>2, CacheKept DEF Bounded
  <2>2. "failed" \in Results BY DEF Results, Outcomes
  <2> QED BY <1>1, <1>2, <1>4, <2>1, <2>2, ReturnKeeps
<1>5. CASE Held(c) # None /\ Keeping(c, "get", "meta", Held(c))
  <2>0. Held(c) \in DataObject /\ Held(c) = object[k]["data"] BY <1>0, <1>1, <1>5 DEF Held
  <2>1. /\ Frame(c) /\ Stays(c) /\ Types' /\ job' = job
        /\ call'[c].mode = call[c].mode /\ call'[c].pc = "get" /\ call'[c].part = "meta"
        /\ call'[c].got = Held(c)
    BY <1>1, <1>2, <1>3, <1>5, <2>0, GoesOn DEF PCs, Part
  <2>2. Place(c)' BY <1>1, <2>0, <2>1 DEF Place, Runs
  <2> QED BY <1>1, <1>2, <2>0, <2>1, <2>2, ReadStays
<1> QED BY <1>4, <1>5 DEF ReadData

\* What is answered of a block that a row names is what its metadata tells.
LEMMA AnswerIs ==
    ASSUME IInv, NEW c \in Client, At(c, "get"), call[c].part = "meta"
    PROVE  /\ Answer(c) \in Content \cup {Garbled, None}
           /\ Answer(c) # None =>
                 /\ Held(c) \in MetaObject
                 /\ job[c].key \in Block => Answer(c) = Held(c).checksum
<1> DEFINE k == job[c].key
<1>1. Runs(c) /\ k \in Key /\ Place(c) /\ job[c].op = "read" /\ call[c].pc = "get"
      /\ object[k]["meta"] \in MetaObject \cup {None}
  BY Reading DEF At
<1>2. call[c].got \in DataObject BY <1>1 DEF Place
<1>3. Held(c) = object[k]["meta"] BY DEF Held
<1>4. CASE Held(c) = None \/ S3(c) BY <1>4 DEF Answer
<1>5. CASE ~ (Held(c) = None \/ S3(c)) /\ "meta" \in call[c].mode
  <2>1. Held(c).checksum \in Content \cup {Garbled} BY <1>1, <1>3, <1>5 DEF MetaObject
  <2> QED BY <1>1, <1>3, <1>5, <2>1 DEF Answer
<1>6. CASE ~ (Held(c) = None \/ S3(c)) /\ "meta" \notin call[c].mode
  <2>1. Answer(c) = Decode(k, call[c].got, Held(c)) BY <1>6 DEF Answer
  <2>2. Answer(c) \in Content \cup {Garbled, None} BY <1>1, <1>2, <1>3, <2>1, Decoded
  <2>3. ASSUME k \in Block PROVE Answer(c) = Held(c).checksum
    <3>1. k \in named BY <1>1, <2>3 DEF IInv, Uids
    <3>2. PICK a \in Content, i \in 0 .. calls : KeptAs(k, a, i) BY <3>1 DEF IInv, Kept
    <3>3. i \in Nat BY <3>2
    <3>4. Faithful(c, k, a, i) BY <1>1, <3>2, Here DEF KeptAs
    <3>5. call[c].got = Encapsulate(a, i) BY <1>1, <3>4 DEF Faithful
    <3>6. Held(c) = BuildMetadata(a, Encapsulate(a, i)) BY <1>3, <1>6, <3>2 DEF KeptAs
    <3>7. Answer(c) = a BY <2>1, <3>3, <3>5, <3>6, DecodesOwn
    <3>8. Held(c).checksum = a BY <3>6 DEF BuildMetadata
    <3> QED BY <3>7, <3>8
  <2> QED BY <1>1, <1>3, <1>6, <2>2, <2>3
<1> QED BY <1>4, <1>5, <1>6

LEMMA ReadMetaKeeps ==
    ASSUME IInv, NEW c \in Client, ReadMeta(c)
    PROVE  IInv'
<1> DEFINE k == job[c].key
<1> DEFINE a == Answer(c)
<1> DEFINE r == IF a = None THEN "failed" ELSE a
<1>0. At(c, "get") /\ call[c].part = "meta" BY DEF ReadMeta
<1>1. Runs(c) /\ k \in Key /\ job[c].op = "read" BY <1>0, Reading
<1>2. Bounded(c) /\ object' = object /\ marred' = marred BY DEF ReadMeta, Bounded
<1>3. /\ a \in Content \cup {Garbled, None}
      /\ a # None => Held(c) \in MetaObject /\ (k \in Block => a = Held(c).checksum)
  BY <1>0, AnswerIs
<1>4. r \in Results BY <1>3 DEF Results, Outcomes
<1>5. Return(c, r) BY DEF ReadMeta
<1>6. /\ cache' = IF a # None /\ k \in Block /\ Module[k] # "file"
                  THEN [cache EXCEPT ![k] = [meta |-> Held(c),
                          data |-> IF "meta" \in call[c].mode THEN @["data"] ELSE a]]
                  ELSE cache
  BY DEF ReadMeta
<1> HIDE DEF a
<1>7. Cached'
  <2>1. CASE cache' = cache BY <1>2, <2>1, CacheKept DEF Bounded
  <2>2. CASE a # None /\ k \in Block
             /\ cache' = [cache EXCEPT ![k] = [meta |-> Held(c),
                          data |-> IF "meta" \in call[c].mode THEN @["data"] ELSE a]]
    <3> DEFINE v == IF "meta" \in call[c].mode THEN cache[k]["data"] ELSE a
    <3> DEFINE n == [meta |-> Held(c), data |-> v]
    <3>0. cache' = [cache EXCEPT ![k] = n] BY <2>2
    <3>1. known' = [l \in Key |-> known[l] \cup
            {job'[d].res : d \in {e \in Client :
                job[e].key = l /\ job'[e].res \in Content \cup {Garbled}}}]
      BY <1>2 DEF Bounded, Record
    <3>2. known \in [Key -> SUBSET (Content \cup {Garbled})]
          /\ cache \in [Block -> [Part -> MetaObject \cup Content \cup {None, Garbled}]]
      BY DEF IInv, Cached
    <3>3. known' \in [Key -> SUBSET (Content \cup {Garbled})] /\ \A l \in Key : known[l] \subseteq known'[l]
      BY <3>1, <3>2
    <3>4. job'[c].res = a
      <4>1. job'[c].res = r BY <1>4, <1>5, ReturnDoes DEF IInv
      <4> QED BY <2>2, <4>1
    <3>5. a \in known'[k] BY <1>1, <1>3, <2>2, <3>1, <3>4
    <3>6. v \in MetaObject \cup Content \cup {None, Garbled}
          /\ (v # None => v \in known'[k])
      <4>1. CASE "meta" \in call[c].mode
        <5>1. cache[k]["data"] # None => cache[k]["data"] \in known[k] BY <2>2 DEF IInv, Cached
        <5>2. cache[k]["data"] \in MetaObject \cup Content \cup {None, Garbled} BY <2>2, <3>2 DEF Part
        <5> QED BY <1>1, <3>3, <4>1, <5>1, <5>2
      <4>2. CASE "meta" \notin call[c].mode BY <1>3, <3>5, <4>2
      <4> QED BY <4>1, <4>2
    <3>7. Held(c) \in MetaObject /\ Held(c).checksum \in known'[k] BY <1>3, <2>2, <3>5
    <3>8. n \in [Part -> MetaObject \cup Content \cup {None, Garbled}]
      <4> HIDE DEF v
      <4>1. n = [p \in Part |-> IF p = "meta" THEN Held(c) ELSE v] BY DEF Part
      <4> QED BY <3>6, <3>7, <4>1
    <3>9. n["meta"] = Held(c) /\ n["data"] = v OBVIOUS
    <3> HIDE DEF n, v
    <3>10. /\ cache' \in [Block -> [Part -> MetaObject \cup Content \cup {None, Garbled}]]
           /\ cache'[k] = n /\ \A l \in Block \ {k} : cache'[l] = cache[l]
      BY <2>2, <3>0, <3>2, <3>8
    <3>11. ASSUME NEW l \in Block
           PROVE  /\ cache'[l]["meta"] # None => cache'[l]["meta"].checksum \in known'[l]
                  /\ cache'[l]["data"] # None => cache'[l]["data"] \in known'[l]
      <4>1. CASE l = k BY <3>6, <3>7, <3>9, <3>10, <4>1
      <4>2. CASE l # k
        <5>1. l \in Key BY Constants
        <5> QED BY <3>3, <3>10, <4>2, <5>1 DEF IInv, Cached
      <4> QED BY <4>1, <4>2
    <3> QED BY <3>3, <3>10, <3>11 DEF Cached
  <2> QED BY <1>6, <2>1, <2>2
<1> HIDE DEF r
<1> QED BY <1>1, <1>2, <1>4, <1>5, <1>7, ReturnKeeps

LEMMA ReadObjectFailsKeeps ==
    ASSUME IInv, NEW c \in Client, ReadObjectFails(c)
    PROVE  IInv'
<1> DEFINE k == job[c].key
<1>0. At(c, "get") /\ call[c].pc = "get" BY DEF ReadObjectFails, At
<1>1. Runs(c) /\ k \in Key /\ Place(c) /\ job[c].op = "read" /\ job[c].arg = None
  BY <1>0, Reading
<1>2. Bounded(c) /\ object' = object /\ cache' = cache /\ marred' = marred
  BY DEF ReadObjectFails, Bounded, Fault
<1>3. Touches(c) /\ Deposits(c) BY <1>2, Untouched
<1>4. CASE TryAgain(c)
  <2>1. /\ Frame(c) /\ Stays(c) /\ Types' /\ job'[c].bad
        /\ job'[c].op = job[c].op /\ job'[c].key = job[c].key /\ job'[c].arg = job[c].arg
        /\ job'[c].res = job[c].res
        /\ call'[c].mode = call[c].mode
        /\ call'[c].pc = call[c].pc /\ call'[c].part = call[c].part /\ call'[c].got = call[c].got
    BY <1>1, <1>2, <1>3, <1>4, GoesAgain
  <2>2. Place(c)' BY <1>0, <1>1, <2>1 DEF Place, Runs
  <2> QED BY <1>0, <1>1, <1>2, <2>1, <2>2, ReadStays
<1>5. CASE Except(c, "raise", "data")
  <2>1. /\ Frame(c) /\ Stays(c) /\ Types' /\ job'[c].bad
        /\ job'[c].op = job[c].op /\ job'[c].key = job[c].key /\ job'[c].arg = job[c].arg
        /\ job'[c].res = job[c].res
        /\ call'[c].mode = call[c].mode /\ call'[c].pc = "raise" /\ call'[c].part = "data"
    BY <1>1, <1>2, <1>3, <1>5, GoesWrong DEF PCs, Part
  <2>2. Place(c)' BY <1>1, <2>1 DEF Place, Runs
  <2> QED BY <1>1, <1>2, <2>1, <2>2, ReadStays
<1> QED BY <1>4, <1>5 DEF ReadObjectFails

LEMMA EndKeeps ==
    ASSUME IInv, NEW c \in Client, End(c)
    PROVE  IInv'
<1> DEFINE k == job[c].key
<1>0. Runs(c) /\ call[c].pc = "end" BY DEF End, At, Runs
<1>1. k \in Key /\ Place(c) /\ job[c].op \in {"write", "remove"}
  <2>1. Place(c) /\ k \in Key BY <1>0, Here
  <2>2. job[c].op \in {"write", "remove"} BY <1>0, <2>1, Here DEF Place
  <2> QED BY <2>1, <2>2
<1>2. /\ object' = object /\ cache' = cache /\ calls' = calls /\ faults' = faults
      /\ born' = born /\ marred' = marred /\ Record
  BY DEF End
<1>3. PICK r \in Results : Return(c, r)
  BY DEF End, Results, Outcomes
<1>4. \/ named' = named
      \/ job[c].op = "write" /\ named' = named \cup ({k} \cap Block)
  BY DEF End
<1>5. named' \subseteq born
  <2>1. k \in Block => k \in born BY <1>0, Here DEF IInv, Uids
  <2> QED BY <1>4, <2>1 DEF IInv, Types
<1>6. Frame(c) /\ Leaves(c) /\ Types' BY <1>0, <1>2, <1>3, <1>5, ComesBack
<1>7. Cached' BY <1>2, CacheKept
<1>8. k \notin marred => Paired(k) BY <1>0, <1>1, Here DEF Halves, Paired
<1> QED BY <1>0, <1>2, <1>4, <1>6, <1>7, <1>8, LeaveKeeps

LEMMA RaiseKeeps ==
    ASSUME IInv, NEW c \in Client, Raise(c)
    PROVE  IInv'
<1>0. Runs(c) /\ call[c].pc = "raise" /\ Return(c, "failed") BY DEF Raise, At, Runs
<1>1. Bounded(c) /\ object' = object /\ cache' = cache /\ marred' = marred BY DEF Raise, Bounded
<1>2. "failed" \in Results BY DEF Results, Outcomes
<1>3. Cached' BY <1>1, CacheKept DEF Bounded
<1>4. job[c].key \notin marred => job[c].op = "read" \/ Paired(job[c].key)
  BY <1>0, Here DEF Halves
<1> QED BY <1>0, <1>1, <1>2, <1>3, <1>4, ReturnKeeps

LEMMA DieKeeps ==
    ASSUME IInv, NEW c \in Client, Die(c)
    PROVE  IInv'
<1>0. Runs(c) /\ Return(c, "died") BY DEF Die, Runs
<1>1. Bounded(c) /\ object' = object /\ cache' = cache /\ job[c].key \in marred'
  BY DEF Die, Bounded, Fault
<1>2. "died" \in Results BY DEF Results, Outcomes
<1>3. Cached' BY <1>1, CacheKept DEF Bounded
<1> QED BY <1>0, <1>1, <1>2, <1>3, ReturnKeeps

LEMMA EvictKeeps ==
    ASSUME IInv, NEW k \in Block, Evict(k)
    PROVE  IInv'
<1>1. PICK p \in Part : cache' = [cache EXCEPT ![k][p] = None] BY DEF Evict
<1>2. UNCHANGED <<object, job, call, calls, faults, born, named, seen, known, contested, marred>>
  BY DEF Evict
<1>3. cache \in [Block -> [Part -> MetaObject \cup Content \cup {None, Garbled}]] BY DEF IInv, Cached
<1>4. /\ cache' \in [Block -> [Part -> MetaObject \cup Content \cup {None, Garbled}]]
      /\ \A l \in Block, q \in Part : cache'[l][q] \in {None, cache[l][q]}
  BY <1>1, <1>3
<1>5. Cached'
  <2>1. "meta" \in Part /\ "data" \in Part BY DEF Part
  <2>2. ASSUME NEW l \in Block
        PROVE  /\ cache'[l]["meta"] # None => cache'[l]["meta"].checksum \in known[l]
               /\ cache'[l]["data"] # None => cache'[l]["data"] \in known[l]
    <3>1. cache'[l]["meta"] \in {None, cache[l]["meta"]} /\ cache'[l]["data"] \in {None, cache[l]["data"]}
      BY <1>4, <2>1
    <3> QED BY <3>1 DEF IInv, Cached
  <2> QED BY <1>2, <1>4, <2>2 DEF IInv, Cached
<1>6. Types' /\ Places' /\ Apart' /\ Contests'
  BY <1>2 DEF IInv, Types, Places, Place, Runs, Apart, Busy, Contests
<1>7. Uids' /\ Ids' BY <1>2 DEF IInv, Uids, Ids, Runs, Busy
<1>8. Sights' BY <1>2 DEF IInv, Sights, Readable, Runs
<1>9. Kept' BY <1>2 DEF IInv, Kept, KeptAs, Faithful, Busy, Runs
<1>10. Alone' BY <1>2 DEF IInv, Alone, Mine, DataOf, MetaOf, Held, Runs
<1>11. Whole' BY <1>2 DEF IInv, Whole, Halves, Paired, Busy, Runs
<1> QED BY <1>5, <1>6, <1>7, <1>8, <1>9, <1>10, <1>11 DEF IInv

-----------------------------------------------------------------------------
(* A call begins.                                                          *)

\* What a call of each kind begins with.
Entering(c, op, k, a, mode, pc) ==
    /\ op \in {"read", "write", "remove"} /\ a \in Content \cup {None} /\ mode \in Modes
    /\ op = "write" => a \in Content /\ (pc = "put" \/ (pc = "probe" /\ k \in Version))
    /\ op = "read" => a = None /\ (pc = "get" \/ (pc = "cache" /\ k \in Block))
    /\ op = "remove" => a = None /\ pc = "look"
    /\ "meta" \in mode => k \in Block
    /\ IF k \in Block
       THEN /\ IF op = "write" THEN k \notin born /\ born' = born \cup {k} ELSE k \in named /\ born' = born
            /\ faults' = faults /\ marred' = marred
       ELSE k \in Version /\ born' = born /\ LockVersion(k)

LEMMA EnterDoes ==
    ASSUME IInv, NEW c \in Client, NEW k \in Key, NEW op, NEW a, NEW mode, NEW pc,
           Entering(c, op, k, a, mode, pc), Enter(c, op, k, a, mode, pc)
    PROVE  /\ ~ Runs(c) /\ calls' = calls + 1 /\ calls \in Nat
           /\ job' \in [Client -> Jobs] /\ call' \in [Client -> Calls]
           /\ \A d \in Client \ {c} : job'[d] = job[d] /\ call'[d] = call[d]
           /\ job'[c] = [op |-> op, key |-> k, arg |-> a, bad |-> FALSE, res |-> "none"]
           /\ call'[c].id = calls + 1 /\ call'[c].mode = mode /\ call'[c].pc = pc
           /\ call'[c].part = "data" /\ call'[c].got = None
           /\ object' = object /\ cache' = cache
<1> DEFINE j == [op |-> op, key |-> k, arg |-> a, bad |-> FALSE, res |-> "none"]
<1> DEFINE n == calls + 1
<1>1. calls \in Nat /\ job \in [Client -> Jobs] /\ call \in [Client -> Calls]
  BY Constants DEF IInv, Types
<1>2. j \in Jobs BY DEF Jobs, Results, Outcomes, Entering
<1>3. pc \in PCs /\ mode \in Modes BY DEF Entering, PCs
<1>o. PICK o : o = Idle OBVIOUS
<1>4. o = [id |-> 0, mode |-> {}, pc |-> "none", part |-> "data", got |-> None, try |-> 0]
  BY <1>o DEF Idle
<1> DEFINE o1 == [o EXCEPT !.id = n]
<1> DEFINE o2 == [o1 EXCEPT !.mode = mode]
<1> DEFINE o3 == [o2 EXCEPT !.pc = pc]
<1>5. call' = [call EXCEPT ![c] = o3] /\ job' = [job EXCEPT ![c] = j]
  <2>1. call' = [call EXCEPT ![c] = [o EXCEPT !.id = n, !.mode = mode, !.pc = pc]]
    BY Zenon, <1>o DEF Enter
  <2> QED BY Zenon, <2>1 DEF Enter
<1>6. n \in Nat BY <1>1
<1> HIDE DEF n, o1, j
<1>7. o1 = [id |-> n, mode |-> {}, pc |-> "none", part |-> "data", got |-> None, try |-> 0]
  BY <1>4 DEF o1
<1> HIDE DEF o2
<1>8. o2 = [id |-> n, mode |-> mode, pc |-> "none", part |-> "data", got |-> None, try |-> 0]
  BY <1>7 DEF o2
<1> HIDE DEF o3
<1>9. o3 = [id |-> n, mode |-> mode, pc |-> pc, part |-> "data", got |-> None, try |-> 0]
  BY <1>8 DEF o3
<1>10. o3 \in Calls BY <1>3, <1>6, <1>9 DEF Calls, Part
<1>11. /\ call' \in [Client -> Calls] /\ call'[c] = o3
       /\ job' \in [Client -> Jobs] /\ job'[c] = j
       /\ \A d \in Client \ {c} : job'[d] = job[d] /\ call'[d] = call[d]
  BY <1>1, <1>2, <1>5, <1>10
<1>12. ~ Runs(c) /\ calls' = calls + 1 /\ object' = object /\ cache' = cache BY DEF Enter, Runs
<1> QED BY <1>1, <1>9, <1>11, <1>12 DEF j, n

\* A call of any kind that begins keeps the invariant.
LEMMA EnterKeeps ==
    ASSUME IInv, NEW c \in Client, NEW k \in Key, NEW op, NEW a, NEW mode, NEW pc,
           Entering(c, op, k, a, mode, pc), Enter(c, op, k, a, mode, pc), named' = named, Record
    PROVE  IInv'
<1>1. /\ ~ Runs(c) /\ calls' = calls + 1 /\ calls \in Nat
      /\ job' \in [Client -> Jobs] /\ call' \in [Client -> Calls]
      /\ \A d \in Client \ {c} : job'[d] = job[d] /\ call'[d] = call[d]
      /\ job'[c] = [op |-> op, key |-> k, arg |-> a, bad |-> FALSE, res |-> "none"]
      /\ call'[c].id = calls + 1 /\ call'[c].mode = mode /\ call'[c].pc = pc
      /\ call'[c].part = "data" /\ call'[c].got = None
      /\ object' = object /\ cache' = cache
  BY EnterDoes
<1>2. /\ job'[c].op = op /\ job'[c].key = k /\ job'[c].arg = a /\ job'[c].bad = FALSE
      /\ job'[c].res = "none" /\ op # "rest" /\ Runs(c)'
  BY <1>1 DEF Entering, Runs
<1>3. /\ marred \subseteq marred' /\ marred' \subseteq marred \cup {k}
      /\ k \in Version /\ Locked(k) => k \in marred'
      /\ born \subseteq born' /\ born' \subseteq born \cup ({k} \cap Block)
      /\ k \in Block => k \in born'
      /\ faults' \in 0 .. MaxFaults
  <2>1. k \in Version => k \notin Block BY Constants
  <2>2. faults' = faults \/ Fault BY DEF Entering, LockVersion, NoFault
  <2>3. faults' \in 0 .. MaxFaults BY <2>2, Constants DEF IInv, Types, Fault
  <2> QED BY <2>1, <2>3 DEF Entering, LockVersion, IInv, Types
<1>4. k \in Block \cup Version /\ Block \cap Version = {} BY Constants
<1>5. Types'
  <2>1. calls' \in 0 .. MaxCalls BY <1>1, Constants DEF Enter, IInv, Types
  <2>2. marred' \subseteq Key /\ born' \subseteq Block /\ named' \subseteq born'
    BY <1>3 DEF IInv, Types
  <2>3. contested' \subseteq Client BY DEF Record
  <2>4. /\ object' \in [Key -> [Part -> Stored]]
        /\ \A l \in Key : /\ object'[l]["data"] \in DataObject \cup {None}
                          /\ object'[l]["meta"] \in MetaObject \cup {None}
    BY <1>1 DEF IInv, Types
  <2> QED BY <1>1, <1>3, <2>1, <2>2, <2>3, <2>4 DEF Types
<1>6. Places'
  <2>1. \A d \in Client \ {c} : Place(d) => Place(d)' BY <1>1 DEF Place, Runs
  <2>2. Place(c)' BY <1>1, <1>2 DEF Place, Runs, Entering, PCs
  <2> QED BY <2>1, <2>2 DEF IInv, Places
<1>7. Sights' BY <1>5, <1>6, RecordDoes
<1>8. contested' = {x \in Client : job'[x].op # "rest" /\
          \/ x \in contested
          \/ /\ job'[x].key \in Version
             /\ \E d \in Client \ {x} : job'[d].op # "rest" /\ job'[d].key = job'[x].key}
  BY DEF Record
<1>9. \A d \in Client : Busy(d, k) => Locked(k) BY DEF Busy, Runs, Locked
<1>10. Apart'
  <2> SUFFICES ASSUME NEW x \in Client, NEW d \in Client, x # d, Runs(x)', Busy(d, job[x].key)'
               PROVE  IF job'[x].key \in Block THEN job'[x].op # "write"
                      ELSE x \in contested' /\ job'[x].key \in marred'
    BY DEF Apart, Busy
  <2>1. Runs(d)' /\ job'[d].key = job'[x].key BY DEF Busy
  <2>0. job'[x].key \in Block \cup Version
    BY <1>6 DEF Places, Place, Key
  <2>2. job'[x].key \in Version => x \in contested' BY <1>8, <2>1 DEF Runs
  <2>3. CASE x # c /\ d # c
    <3>1. Runs(x) /\ Busy(d, job[x].key) /\ job'[x] = job[x] BY <1>1, <2>1, <2>3 DEF Runs, Busy
    <3>2. IF job[x].key \in Block THEN job[x].op # "write"
                      ELSE x \in contested /\ job[x].key \in marred
      BY <3>1 DEF IInv, Apart
    <3> QED BY <1>3, <2>0, <2>2, <3>1, <3>2
  <2>4. CASE x = c
    <3>1. Busy(d, k) BY <1>1, <1>2, <2>1, <2>4 DEF Runs, Busy
    <3>2. k \in Block => op # "write"
      BY <3>1 DEF Entering, IInv, Uids
    <3>3. k \in Version => k \in marred' BY <1>3, <1>9, <3>1
    <3> QED BY <1>2, <1>4, <2>2, <2>4, <3>2, <3>3
  <2>5. CASE d = c
    <3>1. Busy(x, k) /\ job'[x] = job[x] BY <1>1, <1>2, <2>1, <2>5 DEF Runs, Busy
    <3>2. k \in Block => job[x].op # "write"
      <4> SUFFICES ASSUME k \in Block, job[x].op = "write" PROVE FALSE
        OBVIOUS
      <4>1. k \notin named BY <3>1 DEF Busy, IInv, Uids
      <4>2. k \notin born BY <4>1 DEF Entering
      <4> QED BY <3>1, <4>2 DEF IInv, Uids
    <3>3. k \in Version => k \in marred' BY <1>3, <1>9, <3>1
    <3> QED BY <1>2, <1>4, <2>1, <2>2, <2>5, <3>1, <3>2, <3>3
  <2> QED BY <2>3, <2>4, <2>5
<1>11. Contests'
  <2> SUFFICES ASSUME NEW x \in contested'
               PROVE  Runs(x)' /\ job'[x].key \in Version /\ job'[x].key \in marred'
    BY DEF Contests
  <2>1. x \in Client /\ Runs(x)' BY <1>8 DEF Runs
  <2>2. CASE x \in contested
    <3>1. Runs(x) /\ job[x].key \in Version /\ job[x].key \in marred BY <2>2 DEF IInv, Contests
    <3>2. job'[x] = job[x] BY <1>1, <2>1, <3>1
    <3> QED BY <1>3, <2>1, <3>1, <3>2
  <2>3. CASE x \notin contested
    <3>1. /\ job'[x].key \in Version
          /\ \E d \in Client \ {x} : job'[d].op # "rest" /\ job'[d].key = job'[x].key
      BY <1>8, <2>3
    <3>2. PICK d \in Client : d # x /\ Busy(d, job[x].key)' BY <3>1 DEF Busy, Runs
    <3>3. job'[x].key \notin Block BY <1>4, <3>1
    <3> QED BY <1>10, <2>1, <3>1, <3>2, <3>3 DEF Apart
  <2> QED BY <2>2, <2>3
<1>12. Uids'
  <2>1. ASSUME NEW l \in Block \ born'
        PROVE  /\ object'[l]["data"] = None /\ object'[l]["meta"] = None
               /\ \A d \in Client : ~ Busy(d, l)'
    <3>1. l \in Block \ born /\ l # k BY <1>3, <2>1
    <3>2. \A d \in Client : ~ Busy(d, l) BY <3>1 DEF IInv, Uids
    <3>3. ASSUME NEW d \in Client, Busy(d, l)' PROVE FALSE
      <4>1. d # c BY <1>2, <3>1, <3>3 DEF Busy
      <4>2. Busy(d, l) BY <1>1, <3>3, <4>1 DEF Busy, Runs
      <4> QED BY <3>2, <4>2
    <3> QED BY <1>1, <3>1, <3>3 DEF IInv, Uids
  <2>2. ASSUME NEW d \in Client, Runs(d)', job'[d].key \in Block
        PROVE  IF job'[d].op = "write" THEN job'[d].key \notin named' ELSE job'[d].key \in named'
    <3>1. CASE d # c
      <4>1. job'[d] = job[d] /\ Runs(d) BY <1>1, <2>2, <3>1 DEF Runs
      <4> QED BY <2>2, <4>1 DEF IInv, Uids
    <3>2. CASE d = c
      BY <1>2, <2>2, <3>2 DEF Entering, IInv, Types
    <3> QED BY <3>1, <3>2
  <2> QED BY <2>1, <2>2 DEF Uids
<1>13. Ids'
  <2>1. \A l \in Key : object'[l]["data"] # None =>
            object'[l]["data"].id <= calls /\ object'[l]["data"].id \in Nat
    <3>1. \A l \in Key : object[l]["data"] # None => object[l]["data"] \in DataObject
      BY DEF IInv, Types
    <3>2. \A l \in Key : object[l]["data"] # None => object[l]["data"].id \in Nat
      BY <3>1 DEF DataObject
    <3> QED BY <1>1, <3>2 DEF IInv, Ids
  <2>2. \A d \in Client : call[d].id \in Nat
    BY CallRecord DEF IInv, Calls
  <2>3. \A d \in Client : Runs(d) => call[d].id <= calls BY DEF IInv, Ids
  <2>4. \A d \in Client \ {c} : Runs(d)' => Runs(d) /\ job'[d] = job[d] /\ call'[d] = call[d]
    BY <1>1 DEF Runs
  <2>5. \A l \in Key : object'[l]["data"] # None => object'[l]["data"].id <= calls'
    BY <1>1, <2>1
  <2>6. \A d \in Client : Runs(d)' => call'[d].id <= calls'
    BY <1>1, <2>2, <2>3, <2>4
  <2>7. \A d, e \in Client : d # e /\ Runs(d)' /\ Runs(e)' => call'[d].id # call'[e].id
    <3>1. \A d, e \in Client : d # e /\ Runs(d) /\ Runs(e) => call[d].id # call[e].id
      BY DEF IInv, Ids
    <3>2. \A d \in Client \ {c} : Runs(d)' => call'[d].id # calls + 1 BY <1>1, <2>2, <2>3, <2>4
    <3> QED BY <1>1, <2>4, <3>1, <3>2
  <2>8. ASSUME NEW d \in Client, job'[d].op = "write",
               object'[job'[d].key]["data"] # None, object'[job'[d].key]["data"].id = call'[d].id
        PROVE  object'[job'[d].key]["data"].text \in {job'[d].arg, Garbled}
    <3>1. CASE d = c
      <4>1. object'[k]["data"].id \in Nat /\ object'[k]["data"].id <= calls BY <1>2, <2>1, <2>8, <3>1
      <4>2. object'[k]["data"].id = calls + 1 BY <1>1, <1>2, <2>8, <3>1
      <4> QED BY <1>1, <4>1, <4>2
    <3>2. CASE d # c
      <4>1. job'[d] = job[d] /\ call'[d] = call[d] BY <1>1, <3>2
      <4> QED BY <1>1, <2>8, <4>1 DEF IInv, Ids
    <3> QED BY <3>1, <3>2
  <2> QED BY <2>5, <2>6, <2>7, <2>8 DEF Ids
<1>14. Kept'
  <2> SUFFICES ASSUME NEW l \in named PROVE \E b \in Content, i \in 0 .. calls' : KeptAs(l, b, i)'
    BY DEF Kept
  <2>1. PICK b \in Content, i \in 0 .. calls : KeptAs(l, b, i) BY DEF IInv, Kept
  <2>2. i \in 0 .. calls' BY <1>1, <2>1
  <2>3. ASSUME NEW d \in Client, Busy(d, l)' PROVE Faithful(d, l, b, i)'
    <3>1. CASE d = c BY <1>1, <1>2, <3>1 DEF Faithful, Entering
    <3>2. CASE d # c
      <4>1. job'[d] = job[d] /\ call'[d] = call[d] /\ Busy(d, l) /\ Runs(d)'
        BY <1>1, <2>3, <3>2 DEF Busy, Runs
      <4>2. Faithful(d, l, b, i) BY <2>1, <4>1 DEF KeptAs
      <4>3. seen[d] \subseteq seen'[d] BY <4>1, SeenNow
      <4> QED BY <1>1, <4>1, <4>2, <4>3 DEF Faithful
    <3> QED BY <3>1, <3>2
  <2>4. KeptAs(l, b, i)' BY <1>1, <2>1, <2>3 DEF KeptAs
  <2> QED BY <2>1, <2>2, <2>4
<1>15. Cached' BY <1>1, CacheKept
<1>16. Alone'
  <2> SUFFICES ASSUME NEW d \in Client, Runs(d)', d \notin contested' PROVE Mine(d)'
    BY DEF Alone
  <2>1. CASE d = c
    <3>1. k \in Block /\ op = "write" => object[k]["meta"] = None
      BY DEF Entering, IInv, Uids
    <3> QED BY <1>1, <1>2, <2>1, <3>1 DEF Mine, Entering
  <2>2. CASE d # c
    <3>1. job'[d] = job[d] /\ call'[d] = call[d] /\ Runs(d) BY <1>1, <2>2 DEF Runs
    <3>2. d \notin contested BY <1>8, <3>1 DEF Runs
    <3>3. Mine(d) BY <3>1, <3>2, Here
    <3>4. seen[d] \subseteq seen'[d] BY SeenNow
    <3> QED BY <1>1, <3>1, <3>3, <3>4 DEF Mine, DataOf, MetaOf, Held
  <2> QED BY <2>1, <2>2
<1>17. Whole'
  <2> SUFFICES ASSUME NEW l \in Key \ marred'
               PROVE  /\ \A d \in Client : Busy(d, l)' => Halves(d)'
                      /\ ~ Paired(l)' => \E d \in Client : Busy(d, l)' /\
                            \/ job'[d].op = "write"
                            \/ job'[d].op = "remove" /\ call'[d].part = "meta" /\ object'[l]["data"] = None
    BY DEF Whole
  <2>0. l \in Key \ marred BY <1>3
  <2>1. ASSUME NEW d \in Client \ {c} PROVE Busy(d, l)' => Busy(d, l) /\ Halves(d)'
    <3>1. job'[d] = job[d] /\ call'[d] = call[d] BY <1>1
    <3>2. Busy(d, l) => Halves(d) BY <2>0 DEF IInv, Whole
    <3> QED BY <1>1, <3>1, <3>2 DEF Halves, Busy, Runs, Paired
  <2>2. ASSUME l = k, k \in Version \/ op = "write" PROVE Paired(k)
    <3>1. CASE k \in Block
      <4>1. k \notin born BY <1>4, <2>2, <3>1 DEF Entering
      <4> QED BY <3>1, <4>1 DEF IInv, Uids, Paired
    <3>2. CASE k \in Version
      <4>1. ~ Locked(k) BY <1>3, <2>2, <3>2
      <4> QED BY <1>9, <2>0, <2>2, <4>1 DEF IInv, Whole
    <3> QED BY <1>4, <3>1, <3>2
  <2>3. ASSUME Busy(c, l)' PROVE Halves(c)'
    <3>1. l = k BY <1>2, <2>3 DEF Busy
    <3> QED BY <1>1, <1>2, <2>2, <3>1 DEF Halves, Entering, Paired
  <2>4. ASSUME ~ Paired(l)'
        PROVE  \E d \in Client : Busy(d, l)' /\
                            \/ job'[d].op = "write"
                            \/ job'[d].op = "remove" /\ call'[d].part = "meta" /\ object'[l]["data"] = None
    <3>1. ~ Paired(l) BY <1>1, <2>4 DEF Paired
    <3>2. PICK d \in Client : Busy(d, l) /\
                            \/ job[d].op = "write"
                            \/ job[d].op = "remove" /\ call[d].part = "meta" /\ object[l]["data"] = None
      BY <2>0, <3>1 DEF IInv, Whole
    <3>3. d # c BY <1>1, <3>2 DEF Busy
    <3>4. job'[d] = job[d] /\ call'[d] = call[d] BY <1>1, <3>3
    <3> QED BY <1>1, <3>2, <3>4 DEF Busy, Runs
  <2> QED BY <2>1, <2>3, <2>4
<1> QED BY <1>5, <1>6, <1>7, <1>10, <1>11, <1>12, <1>13, <1>14, <1>15, <1>16, <1>17 DEF IInv

\* The six calls begin in one of these ways.
LEMMA BeginIs ==
    ASSUME IInv, NEW c \in Client, Begin(c)
    PROVE  /\ \E k \in Key, op \in {"read", "write", "remove"}, a \in Content \cup {None},
                 mode \in Modes, pc \in PCs :
                 Entering(c, op, k, a, mode, pc) /\ Enter(c, op, k, a, mode, pc)
           /\ named' = named /\ Record
<1>0. named' = named /\ Record BY DEF Begin
<1>1. {} \in Modes /\ Modes = SUBSET {"meta", "nocache"} BY DEF Modes
<1>2. {"put", "probe", "get", "cache", "look"} \subseteq PCs BY DEF PCs
<1>3. \A k \in Version : k \in Key /\ k \notin Block BY Constants
<1>4. \A k \in Block : k \in Key BY Constants
<1>5. ASSUME NEW k \in Block, NEW a \in Content, WriteBlock(c, k, a)
      PROVE  Entering(c, "write", k, a, {}, "put") /\ Enter(c, "write", k, a, {}, "put")
  BY <1>1, <1>5 DEF WriteBlock, Entering, NoFault
<1>6. ASSUME NEW k \in Block, NEW mode \in Modes, ReadBlock(c, k, mode)
      PROVE  \E pc \in {"get", "cache"} :
                Entering(c, "read", k, None, mode, pc) /\ Enter(c, "read", k, None, mode, pc)
  BY <1>1, <1>6 DEF ReadBlock, Entering, NoFault
<1>7. ASSUME NEW k \in Block, RmBlock(c, k)
      PROVE  Entering(c, "remove", k, None, {}, "look") /\ Enter(c, "remove", k, None, {}, "look")
  BY <1>1, <1>7 DEF RmBlock, Entering, NoFault
<1>8. ASSUME NEW k \in Version, NEW a \in Content, NEW o \in BOOLEAN, WriteVersion(c, k, a, o)
      PROVE  \E pc \in {"put", "probe"} :
                Entering(c, "write", k, a, {}, pc) /\ Enter(c, "write", k, a, {}, pc)
  BY <1>1, <1>3, <1>8 DEF WriteVersion, Entering
<1>9. ASSUME NEW k \in Version, ReadVersion(c, k)
      PROVE  Entering(c, "read", k, None, {}, "get") /\ Enter(c, "read", k, None, {}, "get")
  BY <1>1, <1>3, <1>9 DEF ReadVersion, Entering
<1>10. ASSUME NEW k \in Version, RmVersion(c, k)
      PROVE  Entering(c, "remove", k, None, {}, "look") /\ Enter(c, "remove", k, None, {}, "look")
  BY <1>1, <1>3, <1>10 DEF RmVersion, Entering
<1>11. \/ \E k \in Block :
             \/ \E a \in Content : WriteBlock(c, k, a)
             \/ \E mode \in Modes : ReadBlock(c, k, mode)
             \/ RmBlock(c, k)
       \/ \E k \in Version :
             \/ \E a \in Content, o \in BOOLEAN : WriteVersion(c, k, a, o)
             \/ ReadVersion(c, k)
             \/ RmVersion(c, k)
  BY DEF Begin
<1> HIDE DEF Modes
<1>12. CASE \E k \in Block, a \in Content : WriteBlock(c, k, a)
  BY <1>0, <1>1, <1>2, <1>4, <1>5, <1>12
<1>13. CASE \E k \in Block, mode \in Modes : ReadBlock(c, k, mode)
  BY <1>0, <1>1, <1>2, <1>4, <1>6, <1>13
<1>14. CASE \E k \in Block : RmBlock(c, k)
  BY <1>0, <1>1, <1>2, <1>4, <1>7, <1>14
<1>15. CASE \E k \in Version, a \in Content, o \in BOOLEAN : WriteVersion(c, k, a, o)
  BY <1>0, <1>1, <1>2, <1>3, <1>8, <1>15
<1>16. CASE \E k \in Version : ReadVersion(c, k)
  BY <1>0, <1>1, <1>2, <1>3, <1>9, <1>16
<1>17. CASE \E k \in Version : RmVersion(c, k)
  BY <1>0, <1>1, <1>2, <1>3, <1>10, <1>17
<1> QED BY <1>11, <1>12, <1>13, <1>14, <1>15, <1>16, <1>17

LEMMA BeginKeeps ==
    ASSUME IInv, NEW c \in Client, Begin(c)
    PROVE  IInv'
<1>1. PICK k \in Key, op \in {"read", "write", "remove"}, a \in Content \cup {None},
           mode \in Modes, pc \in PCs :
           Entering(c, op, k, a, mode, pc) /\ Enter(c, op, k, a, mode, pc)
  BY BeginIs
<1>2. named' = named /\ Record BY BeginIs
<1> QED BY <1>1, <1>2, EnterKeeps

-----------------------------------------------------------------------------
(* The invariant holds, and with it the pairing of the objects.            *)

LEMMA InitHolds == Init => IInv
<1> SUFFICES ASSUME Init PROVE IInv
  OBVIOUS
<1>1. "data" \in Part /\ "meta" \in Part BY DEF Part
<1>2. \A k \in Key : object[k]["data"] = None /\ object[k]["meta"] = None
  BY <1>1 DEF Init
<1>3. \A c \in Client : job[c] = Resting("new") /\ call[c] = Idle
  BY DEF Init
<1>4. Resting("new") \in Jobs /\ Resting("new").op = "rest" /\ Resting("new").res = "new"
  BY DEF Resting, Jobs, Results, Outcomes
<1>5. Idle \in Calls /\ Idle.pc = "none" /\ Idle.part = "data" /\ Idle.mode = {}
  BY DEF Idle, Calls, Modes, PCs, Part
<1>6. \A c \in Client : ~ Runs(c) /\ job[c].op = "rest" /\ job[c].res = "new"
  BY <1>3, <1>4 DEF Runs
<1>7. Types
  <2>1. object \in [Key -> [Part -> Stored]] BY DEF Init, Stored
  <2>2. job \in [Client -> Jobs] /\ call \in [Client -> Calls] BY <1>4, <1>5 DEF Init
  <2>3. calls \in 0 .. MaxCalls /\ faults \in 0 .. MaxFaults BY Constants DEF Init
  <2>4. born \subseteq Block /\ named \subseteq born /\ marred \subseteq Key /\ contested \subseteq Client
    BY DEF Init
  <2> QED BY <1>2, <2>1, <2>2, <2>3, <2>4 DEF Types
<1>8. Places
  <2> SUFFICES ASSUME NEW c \in Client PROVE Place(c)
    BY DEF Places
  <2>1. call[c].pc = "none" /\ call[c].part = "data" /\ call[c].mode = {} BY <1>3, <1>5
  <2>2. job[c] = Resting(job[c].res) BY <1>3, <1>6
  <2> QED BY <1>6, <2>1, <2>2 DEF Place
<1>9. Apart /\ Contests BY <1>6 DEF Apart, Contests, Init, Busy
<1>10. Uids
  <2>1. \A k \in Block : k \in Key BY Constants
  <2> QED BY <1>2, <1>6, <2>1 DEF Uids, Busy
<1>11. Ids BY <1>2, <1>6 DEF Ids
<1>12. Sights BY <1>6 DEF Sights, Init
<1>13. Kept BY DEF Kept, Init
<1>14. Cached BY <1>1, Constants DEF Cached, Init
<1>15. Alone BY <1>6 DEF Alone
<1>16. Whole BY <1>2, <1>6 DEF Whole, Busy, Paired
<1> QED BY <1>7, <1>8, <1>9, <1>10, <1>11, <1>12, <1>13, <1>14, <1>15, <1>16 DEF IInv

LEMMA NextKeeps == IInv /\ [Next]_vars => IInv'
<1> SUFFICES ASSUME IInv, [Next]_vars PROVE IInv'
  OBVIOUS
<1>1. CASE UNCHANGED vars
  <2>1. UNCHANGED <<object, cache, job, call, calls, faults, born, named, seen, known, contested, marred>>
    BY <1>1 DEF vars
  <2>2. Types' /\ Places' /\ Apart' /\ Contests'
    BY <2>1 DEF IInv, Types, Places, Place, Runs, Apart, Busy, Contests
  <2>3. Uids' /\ Ids' BY <2>1 DEF IInv, Uids, Ids, Runs, Busy
  <2>4. Sights' BY <2>1 DEF IInv, Sights, Readable, Runs
  <2>5. Kept' BY <2>1 DEF IInv, Kept, KeptAs, Faithful, Busy, Runs
  <2>6. Alone' BY <2>1 DEF IInv, Alone, Mine, DataOf, MetaOf, Held, Runs
  <2>7. Whole' BY <2>1 DEF IInv, Whole, Halves, Paired, Busy, Runs
  <2>8. Cached' BY <2>1 DEF IInv, Cached
  <2> QED BY <2>2, <2>3, <2>4, <2>5, <2>6, <2>7, <2>8 DEF IInv
<1>2. ASSUME NEW k \in Block, Evict(k) PROVE IInv'
  BY <1>2, EvictKeeps
<1>3. ASSUME NEW c \in Client, Begin(c) \/ Die(c) PROVE IInv'
  BY <1>3, BeginKeeps, DieKeeps
<1>4. ASSUME NEW c \in Client, Fails(c) PROVE IInv'
  BY <1>4, WriteObjectFailsKeeps, RmObjectFailsKeeps, ReadObjectFailsKeeps DEF Fails
<1>5. ASSUME NEW c \in Client, Step(c) PROVE IInv'
  <2>1. CASE Probe(c) \/ FileWriteObject(c) \/ FillObject(c) \/ BucketWriteObject(c) \/ CheckWrite(c)
    BY <2>1, ProbeKeeps, FileWriteObjectKeeps, FillObjectKeeps, BucketWriteObjectKeeps, CheckWriteKeeps
  <2>2. CASE LookObject(c) \/ FileRmObject(c) \/ S3RmObject(c) \/ B2RmObject(c)
    BY <2>2, LookObjectKeeps, RmObjectKeeps
  <2>3. CASE ReadCache(c) \/ ReadData(c) \/ ReadMeta(c) \/ End(c) \/ Raise(c)
    BY <2>3, ReadCacheKeeps, ReadDataKeeps, ReadMetaKeeps, EndKeeps, RaiseKeeps
  <2> QED BY <1>5, <2>1, <2>2, <2>3 DEF Step
<1> QED BY <1>1, <1>2, <1>3, <1>4, <1>5 DEF Next

\* The invariant that the two theorems below rest on: what the calls are in the
\* middle of, what they have seen, what a row that names a block may rely on and
\* what one call may rely on while no other works on its key, for every step of
\* base.py, file.py, s3.py and b2.py.
THEOREM Invariance == Spec => []IInv
BY InitHolds, NextKeeps, PTL DEF Spec

\* No call of the storage layer leaves one of the two objects of a key behind,
\* unless a process died over it, the cleanup or a removal failed, or the lock
\* of the version was overridden (base.py _write, _rm_block).
THEOREM ObjectsArePaired == Spec => []NoHalfObjects
<1>1. ASSUME IInv PROVE NoHalfObjects
  <2>1. TypeOK
    <3>1. \A k \in Key : /\ object[k]["data"] \in DataObject \cup {None}
                         /\ object[k]["meta"] \in MetaObject \cup {None}
      BY <1>1 DEF IInv, Types
    <3>2. ASSUME NEW c \in Client
          PROVE  /\ job[c].op \in {"rest", "read", "write", "remove"}
                 /\ job[c].key \in Key \cup {None} /\ call[c].part \in Part
                 /\ call[c].try \in Nat /\ job[c].bad \in BOOLEAN
      <4>1. job[c] \in Jobs /\ call[c] \in Calls BY <1>1, JobRecord, CallRecord DEF IInv
      <4> QED BY <4>1 DEF Jobs, Calls
    <3>3. /\ calls \in 0 .. MaxCalls /\ faults \in 0 .. MaxFaults
          /\ born \subseteq Block /\ marred \subseteq Key
      BY <1>1 DEF IInv, Types
    <3> QED BY <3>1, <3>2, <3>3 DEF TypeOK
  <2>2. ASSUME NEW k \in Key PROVE Locked(k) \/ Paired(k) \/ k \in marred
    BY <1>1 DEF IInv, Whole, Busy, Runs, Locked
  <2> QED BY <2>1, <2>2 DEF NoHalfObjects
<1> QED BY <1>1, Invariance, PTL

-----------------------------------------------------------------------------
(* Two objects per key are a regular store.                                *)

\* What a read of a key would return after a step.
After(k) == Decode(k, object'[k]["data"], object'[k]["meta"])

LEMMA Contents ==
    ASSUME IInv, IInv'
    PROVE  \A k \in Key : Readable(k)' = After(k) /\ After(k) \in Content \cup {None, Garbled}
<1> SUFFICES ASSUME NEW k \in Key
             PROVE  Readable(k)' = After(k) /\ After(k) \in Content \cup {None, Garbled}
  OBVIOUS
<1>1. Readable(k)' = After(k) BY DEF Readable, After
<1>2. /\ object'[k]["data"] \in DataObject \cup {None}
      /\ object'[k]["meta"] \in MetaObject \cup {None}
  BY DEF IInv, Types
<1> QED BY <1>1, <1>2, Decoded DEF After

\* A client between two calls has no key.
LEMMA RestingKey ==
    ASSUME IInv, NEW d \in Client, ~ Runs(d)
    PROVE  job[d].key \notin Key /\ job[d].res \in Results /\ seen[d] = {}
<1>1. job[d] = Resting(job[d].res) BY DEF IInv, Places, Place, Runs
<1>2. job[d].key = None BY <1>1 DEF Resting
<1>3. job[d].res \in Results BY JobRecord DEF IInv, Jobs
<1> QED BY <1>2, <1>3, Constants DEF IInv, Sights

\* Nothing becomes known unless a call that had a key returns a content.
LEMMA KnownStays ==
    ASSUME IInv, Record,
           \A d \in Client : job[d].key \in Key => job'[d].res \notin Content \cup {Garbled}
    PROVE  known' = known
<1>1. known' = [k \in Key |-> known[k] \cup
          {job'[d].res : d \in {e \in Client :
              job[e].key = k /\ job'[e].res \in Content \cup {Garbled}}}]
  BY DEF Record
<1>2. known \in [Key -> SUBSET (Content \cup {Garbled})] BY DEF IInv, Cached
<1>3. \A k \in Key : known'[k] = known[k] BY <1>1
<1>4. known' \in [Key -> SUBSET (Content \cup {Garbled})] BY <1>1, <1>2
<1> QED BY <1>2, <1>3, <1>4

\* What the calls have seen after a step.
LEMMA SeenIs ==
    ASSUME IInv, IInv', Record
    PROVE  seen' = [d \in Client |-> IF job'[d].op = "rest" THEN {} ELSE seen[d] \cup {After(job'[d].key)}]
BY DEF Record, After

\* A step in the middle of a call is one of the three of the abstract store, or
\* none, when it changes what its key holds only as such a call may.
LEMMA StaysRefines ==
    ASSUME IInv, IInv', NEW c \in Client, Frame(c), Stays(c), Record, marred \subseteq marred',
           \/ object' = object /\ (job' = job \/ job' = [job EXCEPT ![c].bad = TRUE])
           \/ /\ job[c].op \in {"write", "remove"}
              /\ After(job[c].key) \in {None, job[c].arg}
                    \cup (IF job[c].key \in Version /\ job[c].op = "write" THEN {Garbled} ELSE {})
    PROVE  [Abstract!ObjNext]_(Abstract!avars)
<1> DEFINE k == job[c].key
<1> DEFINE content == [l \in Key |-> Readable(l)]
<1> DEFINE v == After(k)
<1>1. k \in Key /\ Runs(c) BY Here DEF Stays
<1>2. contested' = contested BY StaysApart
<1>3. \A d \in Client : job'[d].op = job[d].op /\ job'[d].key = job[d].key /\ job'[d].res = job[d].res
  BY DEF Frame, Stays
<1>4. known' = known
  <2>1. ASSUME NEW d \in Client, job[d].key \in Key PROVE job'[d].res \notin Content \cup {Garbled}
    <3>1. Runs(d) BY <2>1, RestingKey
    <3>2. job'[d].res = "none" BY <1>3, <3>1, Here DEF Place
    <3>3. "none" \in Outcomes BY DEF Outcomes
    <3> QED BY <3>2, <3>3, NoContents
  <2> QED BY <2>1, KnownStays
<1>5. \A l \in Key \ {k} : After(l) = Readable(l) BY DEF Frame, After, Readable
<1>6. content' = [l \in Key |-> After(l)] BY Contents
<1>7. content' = [content EXCEPT ![k] = v] BY <1>5, <1>6
<1>8. seen \in [Client -> SUBSET (Content \cup {None, Garbled})]
      /\ \A d \in Client : IF Runs(d) THEN Readable(job[d].key) \in seen[d] ELSE seen[d] = {}
  BY DEF IInv, Sights
<1>9. \A d \in Client : Runs(d) => job[d].key \in Key BY Here
<1>10. seen' = [d \in Client |-> IF Busy(d, k) THEN seen[d] \cup {v} ELSE seen[d]]
  <2>1. seen' = [d \in Client |-> IF job'[d].op = "rest" THEN {} ELSE seen[d] \cup {After(job'[d].key)}]
    BY SeenIs
  <2>2. ASSUME NEW d \in Client
        PROVE  (IF job'[d].op = "rest" THEN {} ELSE seen[d] \cup {After(job'[d].key)})
                  = IF Busy(d, k) THEN seen[d] \cup {v} ELSE seen[d]
    <3>1. CASE Busy(d, k) BY <1>3, <3>1 DEF Busy, Runs
    <3>2. CASE ~ Runs(d) BY <1>3, <1>8, <3>2 DEF Runs, Busy
    <3>3. CASE Runs(d) /\ job[d].key # k
      <4>1. After(job[d].key) = Readable(job[d].key) BY <1>5, <1>9, <3>3
      <4>2. Readable(job[d].key) \in seen[d] BY <1>8, <3>3
      <4> QED BY <1>3, <3>3, <4>1, <4>2 DEF Runs, Busy
    <3> QED BY <3>1, <3>2, <3>3 DEF Busy
  <2> QED BY <2>1, <2>2
<1>11. ASSUME job[c].op \in {"write", "remove"},
              v \in {None, job[c].arg} \cup (IF k \in Version /\ job[c].op = "write" THEN {Garbled} ELSE {})
       PROVE  Abstract!Change(c)
  <2>1. \E b \in BOOLEAN : job' = [job EXCEPT ![c].bad = b \/ @]
    <3>1. PICK b \in BOOLEAN : job' = [job EXCEPT ![c].bad = b] /\ (job[c].bad => b) BY DEF Stays
    <3>2. job[c].bad \in BOOLEAN BY JobRecord DEF IInv, Jobs
    <3>3. (b \/ job[c].bad) = b BY <3>1, <3>2
    <3>4. job' = [job EXCEPT ![c].bad = b \/ job[c].bad] BY Zenon, <3>1, <3>3
    <3> QED BY Zenon, <3>4
  <2>2. seen' = [d \in Client |-> IF Abstract!Busy(d, k) THEN seen[d] \cup {v} ELSE seen[d]]
    BY <1>10 DEF Abstract!Busy, Busy, Runs
  <2> HIDE DEF v, content
  <2>3. /\ content' = [content EXCEPT ![k] = v]
        /\ v \in {None, job[c].arg} \cup (IF k \in Version /\ job[c].op = "write" THEN {Garbled} ELSE {})
    BY <1>7, <1>11
  <2>4. [l \in Abstract!Key |-> Readable(l)]' = content' /\ [l \in Abstract!Key |-> Readable(l)] = content
    BY DEF content, Abstract!Key, Key
  <2> QED BY <1>2, <1>4, <1>11, <2>1, <2>2, <2>3, <2>4 DEF Abstract!Change, content
<1>12. CASE object' = object
  <2>1. v = Readable(k) BY <1>12 DEF After, Readable
  <2>2. content' = content BY <1>5, <1>6, <1>12 DEF After, Readable
  <2>3. seen' = seen
    <3>1. \A d \in Client : Busy(d, k) => seen[d] \cup {v} = seen[d] BY <1>8, <2>1 DEF Busy
    <3>2. \A d \in Client : seen'[d] = seen[d] BY <1>10, <3>1
    <3> QED BY <1>8, <1>10, <3>2
  <2>4. CASE job' = job
    BY <1>2, <1>4, <2>2, <2>3, <2>4 DEF Abstract!avars, Abstract!Key, Key
  <2>5. CASE job' = [job EXCEPT ![c].bad = TRUE]
    <3>1. Abstract!Trouble(c)
      BY <1>1, <1>2, <1>4, <2>2, <2>3, <2>5 DEF Abstract!Trouble, Abstract!Key, Key, Runs
    <3> QED BY <3>1 DEF Abstract!ObjNext
  <2>6. CASE job[c].op \in {"write", "remove"}
             /\ v \in {None, job[c].arg} \cup (IF k \in Version /\ job[c].op = "write" THEN {Garbled} ELSE {})
    BY <1>11, <2>6 DEF Abstract!ObjNext
  <2> QED BY <2>4, <2>5, <2>6
<1> QED BY <1>11, <1>12 DEF Abstract!ObjNext

\* A step that ends a call ends it as the abstract store allows.
LEMMA LeavesRefines ==
    ASSUME IInv, IInv', NEW c \in Client, Frame(c), Leaves(c), Record, marred \subseteq marred',
           NEW r \in Content \cup {Garbled, "failed", "done", "missing", "died"},
           job' = [job EXCEPT ![c] = Resting(r)], Abstract!Allowed(c, r)
    PROVE  Abstract!Finish(c)
<1> DEFINE k == job[c].key
<1>1. k \in Key /\ Runs(c) BY Here DEF Leaves
<1>2. contested' = contested \ {c} BY LeavesApart
<1>3. Resting(r).op = "rest" /\ Resting(r).res = r BY DEF Resting
<1>4. job \in [Client -> Jobs] BY DEF IInv, Types
<1>5. job'[c] = Resting(r) /\ \A d \in Client \ {c} : job'[d] = job[d] BY <1>4
<1>6. object' = object BY DEF Leaves
<1>7. seen \in [Client -> SUBSET (Content \cup {None, Garbled})]
      /\ \A d \in Client : IF Runs(d) THEN Readable(job[d].key) \in seen[d] ELSE seen[d] = {}
  BY DEF IInv, Sights
<1>8. seen' = [seen EXCEPT ![c] = {}]
  <2>1. seen' = [d \in Client |-> IF job'[d].op = "rest" THEN {} ELSE seen[d] \cup {After(job'[d].key)}]
    BY SeenIs
  <2>2. ASSUME NEW d \in Client
        PROVE  seen'[d] = IF d = c THEN {} ELSE seen[d]
    <3>1. CASE d = c BY <1>3, <1>5, <2>1, <3>1
    <3>2. CASE d # c /\ ~ Runs(d) BY <1>5, <1>7, <2>1, <3>2 DEF Runs
    <3>3. CASE d # c /\ Runs(d)
      <4>1. After(job[d].key) = Readable(job[d].key) BY <1>6 DEF After, Readable
      <4>2. Readable(job[d].key) \in seen[d] BY <1>7, <3>3
      <4> QED BY <1>5, <2>1, <3>3, <4>1, <4>2 DEF Runs
    <3> QED BY <3>1, <3>2, <3>3
  <2> QED BY <1>7, <2>1, <2>2
<1>9. known' = [known EXCEPT ![k] = IF r \in Content \cup {Garbled} THEN @ \cup {r} ELSE @]
  <2>1. known' = [l \in Key |-> known[l] \cup
          {job'[d].res : d \in {e \in Client :
              job[e].key = l /\ job'[e].res \in Content \cup {Garbled}}}]
    BY DEF Record
  <2>2. known \in [Key -> SUBSET (Content \cup {Garbled})] BY DEF IInv, Cached
  <2>3. ASSUME NEW d \in Client \ {c}, job[d].key \in Key PROVE job'[d].res \notin Content \cup {Garbled}
    <3>1. Runs(d) BY <2>3, RestingKey
    <3>2. job'[d].res = "none" BY <1>5, <3>1, Here DEF Place
    <3>3. "none" \in Outcomes BY DEF Outcomes
    <3> QED BY <3>2, <3>3, NoContents
  <2>4. ASSUME NEW l \in Key
        PROVE  known'[l] = IF l = k /\ r \in Content \cup {Garbled} THEN known[l] \cup {r} ELSE known[l]
    <3>1. {job'[d].res : d \in {e \in Client : job[e].key = l /\ job'[e].res \in Content \cup {Garbled}}}
             = IF l = k /\ r \in Content \cup {Garbled} THEN {r} ELSE {}
      <4>1. \A d \in Client : job[d].key = l /\ job'[d].res \in Content \cup {Garbled} => d = c
        BY <2>3
      <4>2. job'[c].res = r BY <1>3, <1>5
      <4> QED BY <4>1, <4>2
    <3> QED BY <2>1, <3>1
  <2>5. known' = [l \in Key |->
           IF l = k /\ r \in Content \cup {Garbled} THEN known[l] \cup {r} ELSE known[l]]
    BY <2>1, <2>4
  <2> QED BY <1>1, <2>2, <2>5
<1>10. [l \in Key |-> Readable(l)]' = [l \in Key |-> Readable(l)]
  BY <1>6 DEF Readable
<1>11. Abstract!Resting(r) = Resting(r) BY DEF Abstract!Resting, Resting
<1>12. job' = [job EXCEPT ![c] = Abstract!Resting(r)] BY <1>11
<1>13. \E q \in Content \cup {Garbled, "failed", "done", "missing", "died"} :
          /\ Abstract!Allowed(c, q)
          /\ job' = [job EXCEPT ![c] = Abstract!Resting(q)]
          /\ known' = [known EXCEPT ![job[c].key] =
                IF q \in Content \cup {Garbled} THEN @ \cup {q} ELSE @]
  BY Zenon, <1>9, <1>12
<1>14. job[c].op # "rest" BY <1>1 DEF Runs
<1> QED BY Zenon, <1>2, <1>8, <1>10, <1>13, <1>14 DEF Abstract!Finish

\* A call that begins is one that starts in the abstract store.
LEMMA BeginRefines ==
    ASSUME IInv, IInv', NEW c \in Client, Begin(c)
    PROVE  Abstract!Start(c)
<1>1. PICK k \in Key, op \in {"read", "write", "remove"}, a \in Content \cup {None},
           mode \in Modes, pc \in PCs :
           Entering(c, op, k, a, mode, pc) /\ Enter(c, op, k, a, mode, pc)
  BY BeginIs
<1>2. named' = named /\ Record BY BeginIs
<1>3. /\ ~ Runs(c)
      /\ \A d \in Client \ {c} : job'[d] = job[d]
      /\ job'[c] = [op |-> op, key |-> k, arg |-> a, bad |-> FALSE, res |-> "none"]
      /\ object' = object
  BY <1>1, EnterDoes
<1>4. job'[c].op = op /\ job'[c].key = k /\ job'[c].res = "none" /\ op # "rest" BY <1>3
<1>5. job' = [job EXCEPT ![c] = job'[c]]
  <2>1. job \in [Client -> Jobs] /\ job' \in [Client -> Jobs] BY DEF IInv, Types
  <2> QED BY <1>3, <2>1
<1>6. (a = None) = (op # "write") BY <1>1, Constants DEF Entering
<1>7. known' = known
  <2>1. ASSUME NEW d \in Client, job[d].key \in Key PROVE job'[d].res \notin Content \cup {Garbled}
    <3>1. Runs(d) BY <2>1, RestingKey
    <3>2. job'[d].res = "none" BY <1>3, <3>1, Here DEF Place
    <3>3. "none" \in Outcomes BY DEF Outcomes
    <3> QED BY <3>2, <3>3, NoContents
  <2> QED BY <1>2, <2>1, KnownStays
<1>8. seen' = [seen EXCEPT ![c] = {Readable(k)}]
  <2>1. seen' = [d \in Client |-> IF job'[d].op = "rest" THEN {} ELSE seen[d] \cup {After(job'[d].key)}]
    BY <1>2, SeenIs
  <2>2. seen \in [Client -> SUBSET (Content \cup {None, Garbled})]
        /\ \A d \in Client : IF Runs(d) THEN Readable(job[d].key) \in seen[d] ELSE seen[d] = {}
    BY DEF IInv, Sights
  <2>3. \A l : After(l) = Readable(l) BY <1>3 DEF After, Readable
  <2>4. ASSUME NEW d \in Client
        PROVE  seen'[d] = IF d = c THEN {Readable(k)} ELSE seen[d]
    <3>1. CASE d = c BY <1>3, <1>4, <2>1, <2>2, <2>3, <3>1
    <3>2. CASE d # c /\ ~ Runs(d) BY <1>3, <2>1, <2>2, <3>2 DEF Runs
    <3>3. CASE d # c /\ Runs(d)
      <4>1. Readable(job[d].key) \in seen[d] BY <2>2, <3>3
      <4> QED BY <1>3, <2>1, <2>3, <3>3, <4>1 DEF Runs
    <3> QED BY <3>1, <3>2, <3>3
  <2> QED BY <2>1, <2>2, <2>4
<1>9. contested' = contested \cup Abstract!Crowd'
  <2>1. contested' = {x \in Client : job'[x].op # "rest" /\
          \/ x \in contested
          \/ /\ job'[x].key \in Version
             /\ \E d \in Client \ {x} : job'[d].op # "rest" /\ job'[d].key = job'[x].key}
    BY <1>2 DEF Record
  <2>2. Abstract!Crowd' = {x \in Client : job'[x].op # "rest" /\ job'[x].key \in Version
             /\ \E d \in Client \ {x} : job'[d].op # "rest" /\ job'[d].key = job'[x].key}
    BY DEF Abstract!Crowd, Abstract!Busy
  <2>3. \A x \in contested : x \in Client /\ job'[x].op # "rest"
    <3>1. \A x \in contested : x \in Client /\ Runs(x) BY DEF IInv, Types, Contests
    <3> QED BY <1>3, <3>1 DEF Runs
  <2> QED BY <2>1, <2>2, <2>3
<1>10. /\ [l \in Key |-> Readable(l)]' = [l \in Key |-> Readable(l)]
       /\ [l \in Key |-> Readable(l)][k] = Readable(k)
       /\ k \in Abstract!Key
  BY <1>3 DEF Readable, Abstract!Key, Key
<1>11. seen' = [seen EXCEPT ![c] = {[l \in Key |-> Readable(l)][k]}] BY <1>8, <1>10
<1>12. job[c].op = "rest" BY <1>3 DEF Runs
<1>13. \E l \in Abstract!Key, o \in {"read", "write", "remove"}, b \in Content \cup {None} :
          /\ job'[c] = [op |-> o, key |-> l, arg |-> b, bad |-> FALSE, res |-> "none"]
          /\ (b = None) = (o # "write")
          /\ job' = [job EXCEPT ![c] = job'[c]]
          /\ seen' = [seen EXCEPT ![c] = {[m \in Key |-> Readable(m)][l]}]
  BY <1>3, <1>5, <1>6, <1>10, <1>11
<1> QED BY Zenon, <1>7, <1>9, <1>10, <1>12, <1>13 DEF Abstract!Start

\* What a write makes of its key is what it writes, or nothing; only for a
\* version can it be what nobody wrote.
LEMMA StoringRefines ==
    ASSUME IInv, IInv', NEW c \in Client, job[c].op = "write", call[c].pc \in {"put", "fill"},
           NEW v, v = Payload(c) \/ v \in Prefixes(c), Store(c, v)
    PROVE  After(job[c].key) \in {None, job[c].arg}
               \cup (IF job[c].key \in Version /\ job[c].op = "write" THEN {Garbled} ELSE {})
<1> DEFINE k == job[c].key
<1> DEFINE d == object'[k]["data"]
<1> DEFINE m == object'[k]["meta"]
<1>1. Runs(c) /\ k \in Key /\ job[c].arg \in Content /\ call[c].part \in {"data", "meta"} /\ call[c].id \in Nat
  BY Here DEF Runs, Place
<1>2. /\ DataOf(c) \in DataObject /\ DataOf(c).id = call[c].id /\ DataOf(c).text = job[c].arg
      /\ MetaOf(c) \in MetaObject
      /\ Payload(c) = IF call[c].part = "data" THEN DataOf(c) ELSE MetaOf(c)
      /\ \A w \in Prefixes(c) :
            IF call[c].part = "data"
            THEN w \in DataObject /\ w.id = call[c].id /\ w.text = Garbled
            ELSE w \in MetaObject
  BY PayloadIs
<1>3. /\ object'[k][call[c].part] = v
      /\ \A q \in Part \ {call[c].part} : object'[k][q] = object[k][q]
  BY StoringDoes
<1>4. d \in DataObject \cup {None} /\ m \in MetaObject \cup {None} BY <1>1 DEF IInv, Types
<1>5. /\ After(k) \in Content \cup {None, Garbled}
      /\ d = None \/ m = None \/ m = Torn => After(k) = None
      /\ After(k) \notin {None, Garbled} => After(k) = d.text /\ d.id = m.id
  BY <1>4, Decoded DEF After
<1>6. CASE k \in Version
  <2>1. CASE call[c].part = "data"
    <3>1. d.text \in {job[c].arg, Garbled} BY <1>2, <1>3, <2>1
    <3>2. After(k) \notin {None, Garbled} => After(k) = job[c].arg
      <4>1. After(k) \notin {None, Garbled} => After(k) \in Content BY <1>5
      <4> QED BY <1>5, <3>1, <4>1, Constants
    <3> QED BY <1>6, <3>2
  <2>2. CASE call[c].part = "meta"
    <3>1. d = object[k]["data"] BY <1>3, <2>2 DEF Part
    <3>2. CASE v \in Prefixes(c)
      <4>1. m = Torn BY <1>3, <2>2, <3>2 DEF Prefixes
      <4> QED BY <1>5, <4>1
    <3>3. CASE v = Payload(c)
      <4>1. m = MetaOf(c) BY <1>2, <1>3, <2>2, <3>3
      <4>2. m.id = call[c].id BY <1>2, <4>1 DEF MetaOf, BuildMetadata
      <4>3. ASSUME After(k) \notin {None, Garbled} PROVE After(k) = job[c].arg
        <5>1. After(k) = d.text /\ d.id = call[c].id /\ d # None BY <1>5, <4>2, <4>3
        <5>2. d.text \in {job[c].arg, Garbled} BY <3>1, <5>1 DEF IInv, Ids
        <5> QED BY <4>3, <5>1, <5>2
      <4> QED BY <1>6, <4>3
    <3> QED BY <3>2, <3>3
  <2> QED BY <1>1, <2>1, <2>2
<1>7. CASE k \notin Version
  <2>0. c \notin contested /\ k \in Block BY <1>1, <1>7 DEF IInv, Contests, Key
  <2>00. Mine(c) BY <1>1, <2>0, Here
  <2>1. CASE call[c].part = "data"
    <3>1. m = object[k]["meta"] BY <1>3, <2>1 DEF Part
    <3>2. object[k]["meta"] = None BY <2>0, <2>00, <2>1 DEF Mine
    <3> QED BY <1>5, <3>1, <3>2
  <2>2. CASE call[c].part = "meta"
    <3>1. d = object[k]["data"] BY <1>3, <2>2 DEF Part
    <3>2. d = DataOf(c) BY <2>00, <2>2, <3>1 DEF Mine
    <3>3. CASE v \in Prefixes(c)
      <4>1. m = Torn BY <1>3, <2>2, <3>3 DEF Prefixes
      <4> QED BY <1>5, <4>1
    <3>4. CASE v = Payload(c)
      <4>1. m = MetaOf(c) BY <1>2, <1>3, <2>2, <3>4
      <4>2. After(k) = job[c].arg BY <1>1, <3>2, <4>1, DecodesOwn DEF After, DataOf, MetaOf
      <4> QED BY <4>2
    <3> QED BY <3>3, <3>4
  <2> QED BY <1>1, <2>1, <2>2
<1> QED BY <1>6, <1>7

-----------------------------------------------------------------------------
(* Every action is a step of the abstract store, or none.                  *)

\* A call that goes on, having done something to its key that the abstract
\* store lets it do, or nothing.
LEMMA MovesRefine ==
    ASSUME IInv, IInv', NEW c \in Client, Runs(c), Touches(c), Bounded(c),
           NEW pc \in PCs, NEW part \in Part, NEW v \in DataObject \cup {None, "found"},
           Keeping(c, pc, part, v),
           \/ object' = object
           \/ /\ job[c].op \in {"write", "remove"}
              /\ After(job[c].key) \in {None, job[c].arg}
                    \cup (IF job[c].key \in Version /\ job[c].op = "write" THEN {Garbled} ELSE {})
    PROVE  [Abstract!ObjNext]_(Abstract!avars)
<1>1. Frame(c) /\ Stays(c) /\ job' = job BY GoesOn
<1>2. Record /\ marred \subseteq marred' BY DEF Bounded
<1> QED BY <1>1, <1>2, StaysRefines

LEMMA TroubleRefines ==
    ASSUME IInv, IInv', NEW c \in Client, Runs(c), Touches(c), Bounded(c),
           TryAgain(c) \/ \E pc \in PCs, part \in Part : Except(c, pc, part),
           \/ object' = object
           \/ /\ job[c].op \in {"write", "remove"}
              /\ After(job[c].key) \in {None, job[c].arg}
                    \cup (IF job[c].key \in Version /\ job[c].op = "write" THEN {Garbled} ELSE {})
    PROVE  [Abstract!ObjNext]_(Abstract!avars)
<1>1. Frame(c) /\ Stays(c) /\ job' = [job EXCEPT ![c].bad = TRUE] BY GoesWrong, GoesAgain
<1>2. Record /\ marred \subseteq marred' BY DEF Bounded
<1> QED BY <1>1, <1>2, StaysRefines

LEMMA ReturnRefines ==
    ASSUME IInv, IInv', NEW c \in Client, Runs(c), object' = object,
           NEW r \in Content \cup {Garbled, "failed", "done", "missing", "died"},
           Return(c, r), Abstract!Allowed(c, r),
           calls' = calls, born' = born, named' \subseteq born, faults' = faults \/ Fault,
           marred' \in {marred, marred \cup {job[c].key}}, Record
    PROVE  [Abstract!ObjNext]_(Abstract!avars)
<1>1. r \in Results BY DEF Results, Outcomes
<1>2. Frame(c) /\ Leaves(c) /\ job' = [job EXCEPT ![c] = Resting(r)] BY <1>1, ComesBack
<1>3. Abstract!Finish(c) BY <1>2, LeavesRefines
<1> QED BY <1>3 DEF Abstract!ObjNext

LEMMA ProbeRefines ==
    ASSUME IInv, IInv', NEW c \in Client, Probe(c)
    PROVE  [Abstract!ObjNext]_(Abstract!avars)
<1>0. At(c, "probe") /\ Runs(c) BY DEF Probe, At, Runs
<1>1. job[c].op = "write" /\ call[c].got \in DataObject \cup {None, "found"} BY <1>0, Here DEF Place, At
<1>2. Bounded(c) /\ object' = object BY DEF Probe, Bounded, NoFault, Fault
<1>3. Touches(c) BY <1>2, Untouched
<1>4. CASE Goto(c, "put", "data")
  BY <1>0, <1>1, <1>2, <1>3, <1>4, MovesRefine DEF Goto, PCs, Part
<1>5. CASE Return(c, "failed")
  <2>1. Abstract!Allowed(c, "failed") BY <1>1 DEF Abstract!Allowed
  <2>2. named \subseteq born BY DEF IInv, Types
  <2> QED BY <1>0, <1>2, <1>5, <2>1, <2>2, ReturnRefines DEF Bounded
<1>6. CASE Except(c, "raise", "data")
  BY <1>0, <1>2, <1>3, <1>6, TroubleRefines DEF PCs, Part
<1> QED BY <1>4, <1>5, <1>6 DEF Probe

\* A call at pc "put", "fill" or "check" writes.
LEMMA Writing ==
    ASSUME IInv, NEW c \in Client, At(c, "put") \/ At(c, "fill") \/ At(c, "check")
    PROVE  /\ Runs(c) /\ job[c].op = "write" /\ call[c].part \in {"data", "meta"}
           /\ call[c].pc \in {"put", "fill", "check"} /\ call[c].got \in DataObject \cup {None, "found"}
BY Here DEF At, Runs, Place

LEMMA WrittenRefines ==
    ASSUME IInv, IInv', NEW c \in Client, At(c, "put") \/ At(c, "fill"), Bounded(c),
           \/ Store(c, Payload(c)) /\ Written(c)
           \/ \E v \in Prefixes(c) : Store(c, v) /\ Goto(c, "fill", call[c].part)
    PROVE  [Abstract!ObjNext]_(Abstract!avars)
<1>0. /\ Runs(c) /\ job[c].op = "write" /\ call[c].part \in {"data", "meta"} /\ call[c].pc \in {"put", "fill"}
      /\ call[c].got \in DataObject \cup {None, "found"}
  BY Writing DEF At
<1>1. PICK v : (v = Payload(c) \/ v \in Prefixes(c)) /\ Store(c, v)
  OBVIOUS
<1>2. Touches(c) BY <1>0, <1>1, StoringDoes
<1>3. After(job[c].key) \in {None, job[c].arg}
          \cup (IF job[c].key \in Version /\ job[c].op = "write" THEN {Garbled} ELSE {})
  BY <1>0, <1>1, StoringRefines
<1>4. \E pc \in PCs, part \in Part : Goto(c, pc, part)
  BY <1>0 DEF Written, PCs, Part
<1> QED BY <1>0, <1>2, <1>3, <1>4, MovesRefine DEF Goto

LEMMA WriteObjectRefines ==
    ASSUME IInv, IInv', NEW c \in Client, FileWriteObject(c) \/ FillObject(c) \/ BucketWriteObject(c)
    PROVE  [Abstract!ObjNext]_(Abstract!avars)
<1>1. At(c, "put") \/ At(c, "fill") BY DEF FileWriteObject, FillObject, BucketWriteObject
<1>2. Bounded(c) BY DEF FileWriteObject, FillObject, BucketWriteObject, Bounded
<1>3. \/ Store(c, Payload(c)) /\ Written(c)
      \/ \E v \in Prefixes(c) : Store(c, v) /\ Goto(c, "fill", call[c].part)
  BY DEF FileWriteObject, FillObject, BucketWriteObject
<1> QED BY <1>1, <1>2, <1>3, WrittenRefines

LEMMA WriteObjectFailsRefines ==
    ASSUME IInv, IInv', NEW c \in Client, WriteObjectFails(c)
    PROVE  [Abstract!ObjNext]_(Abstract!avars)
<1>0. /\ Runs(c) /\ job[c].op = "write" /\ call[c].pc \in {"put", "fill"}
  BY Writing DEF WriteObjectFails, At
<1>1. Bounded(c) BY DEF WriteObjectFails, Bounded, Fault
<1>2. TryAgain(c) \/ \E pc \in PCs, part \in Part : Except(c, pc, part)
  BY DEF WriteObjectFails, PCs, Part
<1>3. CASE object' = object
  <2>1. Touches(c) BY <1>3, Untouched
  <2> QED BY <1>0, <1>1, <1>2, <1>3, <2>1, TroubleRefines
<1>4. CASE Store(c, Payload(c))
  <2>1. Touches(c) BY <1>0, <1>4, StoringDoes
  <2>2. After(job[c].key) \in {None, job[c].arg}
            \cup (IF job[c].key \in Version /\ job[c].op = "write" THEN {Garbled} ELSE {})
    BY <1>0, <1>4, StoringRefines
  <2> QED BY <1>0, <1>1, <1>2, <2>1, <2>2, TroubleRefines
<1> QED BY <1>3, <1>4 DEF WriteObjectFails

LEMMA CheckWriteRefines ==
    ASSUME IInv, IInv', NEW c \in Client, CheckWrite(c)
    PROVE  [Abstract!ObjNext]_(Abstract!avars)
<1>0. /\ Runs(c) /\ job[c].op = "write" /\ call[c].part \in {"data", "meta"}
      /\ call[c].got \in DataObject \cup {None, "found"}
  BY Writing DEF CheckWrite
<1>1. Bounded(c) /\ object' = object BY DEF CheckWrite, Bounded, Fault, NoFault
<1>2. Touches(c) BY <1>1, Untouched
<1>3. CASE call[c].part = "data" /\ Keeping(c, "check", "meta", Held(c))
  <2>1. Held(c) \in DataObject \cup {None, "found"} BY <1>0, <1>3, Here DEF Held
  <2> QED BY <1>0, <1>1, <1>2, <1>3, <2>1, MovesRefine DEF PCs, Part
<1>4. CASE Goto(c, "end", "data")
  BY <1>0, <1>1, <1>2, <1>4, MovesRefine DEF Goto, PCs, Part
<1>5. CASE Return(c, "failed")
  <2>1. Abstract!Allowed(c, "failed") BY <1>0 DEF Abstract!Allowed
  <2>2. named \subseteq born BY DEF IInv, Types
  <2> QED BY <1>0, <1>1, <1>5, <2>1, <2>2, ReturnRefines DEF Bounded
<1>6. CASE Except(c, "raise", "data")
  BY <1>0, <1>1, <1>2, <1>6, TroubleRefines DEF PCs, Part
<1> QED BY <1>3, <1>4, <1>5, <1>6 DEF CheckWrite

\* What follows a removal moves the call.
LEMMA RemovedMoves ==
    ASSUME IInv, NEW c \in Client, Runs(c), NEW found, Removed(c, found)
    PROVE  /\ marred' = marred
           /\ \E pc \in PCs, part \in Part, v \in DataObject \cup {None, "found"} : Keeping(c, pc, part, v)
<1>1. call[c].got \in DataObject \cup {None, "found"} BY Here
<1> QED BY <1>1 DEF Removed, Goto, PCs, Part

LEMMA LookObjectRefines ==
    ASSUME IInv, IInv', NEW c \in Client, LookObject(c)
    PROVE  [Abstract!ObjNext]_(Abstract!avars)
<1>0. Runs(c) /\ object' = object BY DEF LookObject, At, Runs
<1>1. CASE Held(c) = None
  <2>1. Removed(c, FALSE) BY <1>1 DEF LookObject
  <2>2. /\ marred' = marred
        /\ \E pc \in PCs, part \in Part, v \in DataObject \cup {None, "found"} : Keeping(c, pc, part, v)
    BY <1>0, <2>1, RemovedMoves
  <2>3. Bounded(c) BY <2>2 DEF LookObject, Bounded
  <2>4. Touches(c) BY <1>0, Untouched
  <2> QED BY <1>0, <2>2, <2>3, <2>4, MovesRefine
<1>2. CASE Held(c) # None
  <2>1. Frame(c) /\ Stays(c) /\ job' = job /\ marred' = marred BY <1>2, LookFinds
  <2>2. Record BY DEF LookObject
  <2> QED BY <1>0, <2>1, <2>2, StaysRefines
<1> QED BY <1>1, <1>2

LEMMA DeletesRefines ==
    ASSUME IInv, IInv', NEW c \in Client, At(c, "delete"), NEW gone, NEW found, Deletes(c, gone, found)
    PROVE  [Abstract!ObjNext]_(Abstract!avars)
<1> DEFINE k == job[c].key
<1>0. Runs(c) /\ k \in Key /\ job[c].op \in {"write", "remove"} /\ call[c].part \in {"data", "meta"}
  BY Here DEF At, Runs, Place
<1>1. /\ marred' = marred
      /\ \E pc \in PCs, part \in Part, v \in DataObject \cup {None, "found"} : Keeping(c, pc, part, v)
  BY <1>0, RemovedMoves DEF Deletes
<1>2. Bounded(c) BY <1>1 DEF Deletes, Bounded
<1>3. Touches(c) BY DEF Deletes, Touches
<1>4. CASE object' = object BY <1>0, <1>1, <1>2, <1>3, <1>4, MovesRefine
<1>5. CASE Store(c, None)
  <2>1. object'[k][call[c].part] = None BY <1>0, <1>5, StoreDoes DEF IInv
  <2>2. object'[k]["data"] = None \/ object'[k]["meta"] = None BY <1>0, <2>1
  <2>3. object'[k]["data"] \in DataObject \cup {None} /\ object'[k]["meta"] \in MetaObject \cup {None}
    BY <1>0 DEF IInv, Types
  <2>4. After(k) = None BY <2>2, <2>3, Decoded DEF After
  <2> QED BY <1>0, <1>1, <1>2, <1>3, <2>4, MovesRefine
<1> QED BY <1>4, <1>5 DEF Deletes

LEMMA RmObjectRefines ==
    ASSUME IInv, IInv', NEW c \in Client, FileRmObject(c) \/ S3RmObject(c) \/ B2RmObject(c)
    PROVE  [Abstract!ObjNext]_(Abstract!avars)
<1>1. At(c, "delete") /\ \E gone, found \in BOOLEAN : Deletes(c, gone, found)
  BY Zenon DEF FileRmObject, S3RmObject, B2RmObject
<1> QED BY <1>1, DeletesRefines

LEMMA RmObjectFailsRefines ==
    ASSUME IInv, IInv', NEW c \in Client, RmObjectFails(c)
    PROVE  [Abstract!ObjNext]_(Abstract!avars)
<1>0. Runs(c) /\ object' = object BY DEF RmObjectFails, At, Runs
<1>1. Bounded(c) BY DEF RmObjectFails, Bounded, Fault
<1>2. Touches(c) BY <1>0, Untouched
<1>3. \E pc \in PCs, part \in Part : Except(c, pc, part) BY DEF RmObjectFails, PCs, Part
<1> QED BY <1>0, <1>1, <1>2, <1>3, TroubleRefines

LEMMA ReadCacheRefines ==
    ASSUME IInv, IInv', NEW c \in Client, ReadCache(c)
    PROVE  [Abstract!ObjNext]_(Abstract!avars)
<1> DEFINE k == job[c].key
<1> DEFINE e == cache[k]
<1>0. At(c, "cache") /\ call[c].pc = "cache" BY DEF ReadCache, At
<1>1. Runs(c) /\ k \in Key /\ k \in Block /\ job[c].op = "read" /\ call[c].got \in DataObject \cup {None, "found"}
  BY <1>0, Reading DEF Place
<1>2. Bounded(c) /\ object' = object BY DEF ReadCache, Bounded
<1>3. known[k] \subseteq Content \cup {Garbled} BY <1>1 DEF IInv, Cached
<1>4. ASSUME NEW r \in known[k], Return(c, r) PROVE [Abstract!ObjNext]_(Abstract!avars)
  <2>1. r \in Content \cup {Garbled} /\ r # None BY <1>3, Constants
  <2>2. Abstract!Allowed(c, r) BY <1>1, <2>1 DEF Abstract!Allowed
  <2>3. named \subseteq born BY DEF IInv, Types
  <2> QED BY <1>1, <1>2, <1>4, <2>1, <2>2, <2>3, ReturnRefines DEF Bounded
<1>5. /\ e["meta"] # None => e["meta"].checksum \in known[k]
      /\ e["data"] # None => e["data"] \in known[k]
  BY <1>1 DEF IInv, Cached
<1>6. CASE Goto(c, "get", "data")
  <2>1. Touches(c) BY <1>2, Untouched
  <2> QED BY <1>1, <1>2, <1>6, <2>1, MovesRefine DEF Goto, PCs, Part
<1> QED BY <1>4, <1>5, <1>6 DEF ReadCache

\* An object that is not there, or cannot be read, is what makes a read fail.
LEMMA FailingRead ==
    ASSUME IInv, NEW c \in Client, Runs(c), job[c].op = "read",
           \/ Readable(job[c].key) = None
           \/ S3(c)
           \/ c \in contested
    PROVE  Abstract!Allowed(c, "failed")
<1>1. job[c].key \in Key /\ Readable(job[c].key) \in seen[c] BY Here DEF IInv, Sights
<1>2. S3(c) => job[c].key \in Unreadable BY <1>1, Constants DEF S3
<1> QED BY <1>1, <1>2 DEF Abstract!Allowed

LEMMA ReadDataRefines ==
    ASSUME IInv, IInv', NEW c \in Client, ReadData(c)
    PROVE  [Abstract!ObjNext]_(Abstract!avars)
<1> DEFINE k == job[c].key
<1>0. At(c, "get") /\ call[c].part = "data" BY DEF ReadData
<1>1. Runs(c) /\ k \in Key /\ job[c].op = "read" /\ object[k]["data"] \in DataObject \cup {None}
  BY <1>0, Reading
<1>2. Bounded(c) /\ object' = object BY DEF ReadData, Bounded
<1>3. CASE Held(c) # None /\ Keeping(c, "get", "meta", Held(c))
  <2>1. Held(c) \in DataObject \cup {None, "found"} BY <1>0, <1>1 DEF Held
  <2>2. Touches(c) BY <1>2, Untouched
  <2> QED BY <1>1, <1>2, <1>3, <2>1, <2>2, MovesRefine DEF PCs, Part
<1>4. CASE (Held(c) = None \/ S3(c)) /\ Return(c, "failed")
  <2>1. Held(c) = None => Readable(k) = None BY <1>0, <1>1, HalfIsNone DEF Held, IInv
  <2>2. Abstract!Allowed(c, "failed") BY <1>1, <1>4, <2>1, FailingRead
  <2>3. named \subseteq born BY DEF IInv, Types
  <2> QED BY <1>1, <1>2, <1>4, <2>2, <2>3, ReturnRefines DEF Bounded
<1> QED BY <1>3, <1>4 DEF ReadData

\* What is answered is a content the key had while the call ran, and nothing is
\* answered only when it had none, or cannot be read.
LEMMA AnswerAllowed ==
    ASSUME IInv, NEW c \in Client, At(c, "get"), call[c].part = "meta"
    PROVE  Abstract!Allowed(c, IF Answer(c) = None THEN "failed" ELSE Answer(c))
<1> DEFINE k == job[c].key
<1> DEFINE a == Answer(c)
<1>1. /\ Runs(c) /\ k \in Key /\ Place(c) /\ job[c].op = "read" /\ call[c].pc = "get"
      /\ object[k]["meta"] \in MetaObject \cup {None}
  BY Reading DEF At
<1>2. call[c].got \in DataObject BY <1>1 DEF Place
<1>3. Held(c) = object[k]["meta"] BY DEF Held
<1>4. a \in Content \cup {Garbled, None} BY AnswerIs
<1>5. Readable(k) \in seen[c] BY <1>1 DEF IInv, Sights
<1>6. CASE Held(c) = None \/ S3(c)
  <2>1. a = None BY <1>6 DEF Answer
  <2>2. Held(c) = None => Readable(k) = None BY <1>1, <1>3, HalfIsNone DEF IInv
  <2>3. Abstract!Allowed(c, "failed") BY <1>1, <1>6, <2>2, FailingRead
  <2> QED BY <2>1, <2>3
<1>7. CASE c \in contested
  BY <1>7 DEF Abstract!Allowed
<1>8. CASE k \in Block /\ ~ (Held(c) = None \/ S3(c))
  <2>1. k \in named BY <1>1, <1>8 DEF IInv, Uids
  <2>2. PICK b \in Content, i \in 0 .. calls : KeptAs(k, b, i) BY <2>1 DEF IInv, Kept
  <2>3. i \in Nat BY <2>2
  <2>4. Faithful(c, k, b, i) BY <1>1, <2>2, Here DEF KeptAs
  <2>5. call[c].got = Encapsulate(b, i) /\ b \in seen[c] BY <1>1, <1>3, <1>8, <2>4 DEF Faithful
  <2>6. Held(c) = BuildMetadata(b, Encapsulate(b, i)) BY <1>3, <1>8, <2>2 DEF KeptAs
  <2>7. a = b
    <3>1. CASE "meta" \in call[c].mode
      <4> DEFINE d == Encapsulate(b, i)
      <4>1. d \in DataObject BY <2>3, Encapsulated
      <4>2. Held(c).object_size = d.len /\ Held(c).checksum = b BY <2>6 DEF BuildMetadata
      <4>3. Torn.checksum = Garbled BY DEF Torn
      <4>4. Held(c) # Torn BY <2>2, <4>2, <4>3, Constants
      <4>5. DecodeMetadata(Held(c), call[c].got.len) BY <2>5, <4>2, <4>4 DEF DecodeMetadata
      <4> QED BY <1>8, <3>1, <4>2, <4>5 DEF Answer
    <3>2. CASE "meta" \notin call[c].mode
      <4>1. a = Decode(k, call[c].got, Held(c)) BY <1>8, <3>2 DEF Answer
      <4> QED BY <2>3, <2>5, <2>6, <4>1, DecodesOwn
    <3> QED BY <3>1, <3>2
  <2>8. a # None BY <2>2, <2>7, Constants
  <2>9. Abstract!Allowed(c, a) BY <1>1, <2>5, <2>7, <2>8 DEF Abstract!Allowed
  <2> QED BY <2>8, <2>9
<1>9. CASE k \in Version /\ c \notin contested /\ ~ (Held(c) = None \/ S3(c))
  <2>1. Mine(c) BY <1>1, <1>9, Here
  <2>2. call[c].got = object[k]["data"] BY <1>1, <1>9, <2>1 DEF Mine
  <2>3. "meta" \notin call[c].mode BY <1>1, <1>9, Constants DEF Place
  <2>4. a = Readable(k) BY <1>3, <1>9, <2>2, <2>3 DEF Answer, Readable
  <2>5. CASE a = None
    <3>1. Abstract!Allowed(c, "failed") BY <1>1, <2>4, <2>5, FailingRead
    <3> QED BY <2>5, <3>1
  <2>6. CASE a # None
    <3>1. Abstract!Allowed(c, a) BY <1>1, <1>5, <2>4, <2>6 DEF Abstract!Allowed
    <3> QED BY <2>6, <3>1
  <2> QED BY <2>5, <2>6
<1> QED BY <1>1, <1>6, <1>7, <1>8, <1>9 DEF Key

LEMMA ReadMetaRefines ==
    ASSUME IInv, IInv', NEW c \in Client, ReadMeta(c)
    PROVE  [Abstract!ObjNext]_(Abstract!avars)
<1> DEFINE r == IF Answer(c) = None THEN "failed" ELSE Answer(c)
<1>0. At(c, "get") /\ call[c].part = "meta" /\ Return(c, r) BY DEF ReadMeta
<1>1. Runs(c) BY <1>0, Reading
<1>2. Bounded(c) /\ object' = object BY DEF ReadMeta, Bounded
<1>3. Abstract!Allowed(c, r) BY <1>0, AnswerAllowed
<1>4. r \in Content \cup {Garbled, "failed", "done", "missing", "died"} BY <1>0, AnswerIs
<1>5. named \subseteq born BY DEF IInv, Types
<1> HIDE DEF r
<1> QED BY <1>0, <1>1, <1>2, <1>3, <1>4, <1>5, ReturnRefines DEF Bounded

LEMMA ReadObjectFailsRefines ==
    ASSUME IInv, IInv', NEW c \in Client, ReadObjectFails(c)
    PROVE  [Abstract!ObjNext]_(Abstract!avars)
<1>0. Runs(c) /\ object' = object BY DEF ReadObjectFails, At, Runs
<1>1. Bounded(c) BY DEF ReadObjectFails, Bounded, Fault
<1>2. Touches(c) BY <1>0, Untouched
<1>3. TryAgain(c) \/ \E pc \in PCs, part \in Part : Except(c, pc, part)
  BY DEF ReadObjectFails, PCs, Part
<1> QED BY <1>0, <1>1, <1>2, <1>3, TroubleRefines

LEMMA EndRefines ==
    ASSUME IInv, IInv', NEW c \in Client, End(c)
    PROVE  [Abstract!ObjNext]_(Abstract!avars)
<1> DEFINE k == job[c].key
<1>0. Runs(c) /\ call[c].pc = "end" BY DEF End, At, Runs
<1>1. k \in Key /\ Place(c) /\ job[c].op \in {"write", "remove"} /\ call[c].id \in Nat
  <2>1. Place(c) /\ k \in Key BY <1>0, Here
  <2>2. job[c].op \in {"write", "remove"} BY <1>0, <2>1, Here DEF Place
  <2> QED BY <1>0, <2>1, <2>2, Here
<1>2. /\ object' = object /\ calls' = calls /\ faults' = faults
      /\ born' = born /\ marred' = marred /\ Record
  BY DEF End
<1>3. named' \subseteq born
  <2>1. k \in Block => k \in born BY <1>0, Here DEF IInv, Uids
  <2> QED BY <2>1 DEF End, IInv, Types
<1>4. Readable(k) \in seen[c] BY <1>0 DEF IInv, Sights
<1>5. CASE job[c].op = "write"
  <2>1. Return(c, "done") BY <1>5 DEF End
  <2>2. ASSUME c \notin contested PROVE job[c].arg \in seen[c]
    <3>1. Mine(c) BY <1>0, <2>2, Here
    <3>2. object[k]["data"] = DataOf(c) /\ object[k]["meta"] = MetaOf(c) BY <1>0, <1>5, <3>1 DEF Mine
    <3>3. job[c].arg \in Content BY <1>1, <1>5 DEF Place
    <3>4. Readable(k) = job[c].arg BY <1>1, <3>2, <3>3, DecodesOwn DEF Readable, DataOf, MetaOf
    <3> QED BY <1>4, <3>4
  <2>3. Abstract!Allowed(c, "done") BY <1>5, <2>2 DEF Abstract!Allowed
  <2> QED BY <1>0, <1>2, <1>3, <2>1, <2>3, ReturnRefines
<1>6. CASE job[c].op = "remove"
  <2>1. PICK r \in {"failed", "missing", "done"} :
            /\ Return(c, r)
            /\ (r = "failed") = job[c].bad
    <3>1. job[c].bad \in BOOLEAN BY JobRecord DEF IInv, Jobs
    <3>2. Return(c, IF job[c].bad THEN "failed" ELSE IF call[c].got = None THEN "missing" ELSE "done")
      BY <1>6 DEF End
    <3>3. CASE job[c].bad BY <3>2, <3>3
    <3>4. CASE ~ job[c].bad BY <3>1, <3>2, <3>4
    <3> QED BY <3>3, <3>4
  <2>2. c \notin contested /\ ~ job[c].bad => None \in seen[c]
    BY <1>0, <1>6, Here DEF Mine
  <2>3. Abstract!Allowed(c, r)
    <3>1. CASE c \in contested BY <3>1 DEF Abstract!Allowed
    <3>2. CASE job[c].bad BY <1>6, <2>1, <3>2 DEF Abstract!Allowed
    <3>3. CASE c \notin contested /\ ~ job[c].bad
      <4>1. r \in {"done", "missing"} BY <2>1, <3>3
      <4> QED BY <1>6, <2>2, <3>3, <4>1 DEF Abstract!Allowed
    <3> QED BY <3>1, <3>2, <3>3
  <2> QED BY <1>0, <1>2, <1>3, <2>1, <2>3, ReturnRefines
<1> QED BY <1>1, <1>5, <1>6

LEMMA RaiseRefines ==
    ASSUME IInv, IInv', NEW c \in Client, Raise(c)
    PROVE  [Abstract!ObjNext]_(Abstract!avars)
<1>0. Runs(c) /\ call[c].pc = "raise" /\ Return(c, "failed") BY DEF Raise, At, Runs
<1>1. Bounded(c) /\ object' = object BY DEF Raise, Bounded
<1>2. job[c].op \in {"read", "write", "remove"} /\ (job[c].bad \/ job[c].op = "write")
  BY <1>0, Here DEF Place
<1>3. Abstract!Allowed(c, "failed") BY <1>2 DEF Abstract!Allowed
<1>4. named \subseteq born BY DEF IInv, Types
<1> QED BY <1>0, <1>1, <1>3, <1>4, ReturnRefines DEF Bounded

LEMMA DieRefines ==
    ASSUME IInv, IInv', NEW c \in Client, Die(c)
    PROVE  [Abstract!ObjNext]_(Abstract!avars)
<1>0. Runs(c) /\ Return(c, "died") BY DEF Die, Runs
<1>1. Bounded(c) /\ object' = object BY DEF Die, Bounded, Fault
<1>2. Abstract!Allowed(c, "died") BY DEF Abstract!Allowed
<1>3. named \subseteq born BY DEF IInv, Types
<1> QED BY <1>0, <1>1, <1>2, <1>3, ReturnRefines DEF Bounded

LEMMA InitRefines == Init => Abstract!ObjInit
<1> SUFFICES ASSUME Init PROVE Abstract!ObjInit
  OBVIOUS
<1>1. \A k \in Key : Readable(k) = None
  <2>1. IInv BY InitHolds
  <2>2. \A k \in Key : object[k]["data"] = None BY DEF Init, Part
  <2> QED BY <2>1, <2>2, HalfIsNone DEF IInv
<1>2. [k \in Key |-> Readable(k)] = [k \in Abstract!Key |-> None] BY <1>1 DEF Abstract!Key, Key
<1>3. job = [c \in Client |-> Abstract!Resting("new")] BY DEF Init, Abstract!Resting, Resting
<1>4. known = [k \in Abstract!Key |-> {}] /\ seen = [c \in Client |-> {}] /\ contested = {}
  BY DEF Init, Abstract!Key, Key
<1> QED BY <1>2, <1>3, <1>4 DEF Abstract!ObjInit

LEMMA NextRefines == IInv /\ IInv' /\ [Next]_vars => [Abstract!ObjNext]_(Abstract!avars)
<1> SUFFICES ASSUME IInv, IInv', [Next]_vars PROVE [Abstract!ObjNext]_(Abstract!avars)
  OBVIOUS
<1>1. ASSUME UNCHANGED <<object, job, seen, known, contested>> PROVE [Abstract!ObjNext]_(Abstract!avars)
  <2>1. [k \in Key |-> Readable(k)]' = [k \in Key |-> Readable(k)] BY <1>1 DEF Readable
  <2> QED BY <1>1, <2>1 DEF Abstract!avars
<1>2. CASE UNCHANGED vars
  BY <1>1, <1>2 DEF vars
<1>3. ASSUME NEW k \in Block, Evict(k) PROVE [Abstract!ObjNext]_(Abstract!avars)
  BY <1>1, <1>3 DEF Evict
<1>4. ASSUME NEW c \in Client, Begin(c) PROVE [Abstract!ObjNext]_(Abstract!avars)
  <2>1. Abstract!Start(c) BY <1>4, BeginRefines
  <2> QED BY <2>1 DEF Abstract!ObjNext
<1>5. ASSUME NEW c \in Client, Die(c) PROVE [Abstract!ObjNext]_(Abstract!avars)
  BY <1>5, DieRefines
<1>6. ASSUME NEW c \in Client, Fails(c) PROVE [Abstract!ObjNext]_(Abstract!avars)
  BY <1>6, WriteObjectFailsRefines, RmObjectFailsRefines, ReadObjectFailsRefines DEF Fails
<1>7. ASSUME NEW c \in Client, Step(c) PROVE [Abstract!ObjNext]_(Abstract!avars)
  <2>1. CASE Probe(c) \/ FileWriteObject(c) \/ FillObject(c) \/ BucketWriteObject(c) \/ CheckWrite(c)
    BY <2>1, ProbeRefines, WriteObjectRefines, CheckWriteRefines
  <2>2. CASE LookObject(c) \/ FileRmObject(c) \/ S3RmObject(c) \/ B2RmObject(c)
    BY <2>2, LookObjectRefines, RmObjectRefines
  <2>3. CASE ReadCache(c) \/ ReadData(c) \/ ReadMeta(c) \/ End(c) \/ Raise(c)
    BY <2>3, ReadCacheRefines, ReadDataRefines, ReadMetaRefines, EndRefines, RaiseRefines
  <2> QED BY <1>7, <2>1, <2>2, <2>3 DEF Step
<1> QED BY <1>2, <1>3, <1>4, <1>5, <1>6, <1>7 DEF Next

\* The storage layer is the register that the rest of Benji takes it for: every
\* step of base.py, file.py, s3.py and b2.py on one of the two objects of a key
\* is a step of ObjectStore or leaves it alone, and every call returns what that
\* store may answer.
THEOREM RegularStore == Spec => IsRegularStore
<1>1. Init => Abstract!ObjInit
  BY InitRefines
<1>2. IInv /\ IInv' /\ [Next]_vars => [Abstract!ObjNext]_(Abstract!avars)
  BY NextRefines
<1> QED BY <1>1, <1>2, Invariance, PTL DEF Spec, IsRegularStore, Abstract!ObjSpec

=============================================================================
