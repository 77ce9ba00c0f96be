--------------------------- MODULE AccountsProofs ---------------------------
(***************************************************************************)
(* Users, the calls of the servants, sessions and lists, for any number of *)
(* users, workers and threads, any life time of tokens and any size of     *)
(* pages. The first part is about pages of lists whose rows go and come;   *)
(* the second is the invariant and the properties that follow from it.     *)
(***************************************************************************)
EXTENDS Accounts, SequenceTheorems, FiniteSetTheorems, TLAPS

-----------------------------------------------------------------------------
(* Pages.                                                                  *)

\* There is a next page where there are rows beyond this one.
LEMMA NextPage ==
    ASSUME NEW V, NEW table \in Seq(V), NEW page \in Nat
    PROVE  HasNext(table, page) <=> page * PageSize < Len(table)
<1> DEFINE P == PageSize
<1> DEFINE L == Len(table)
<1>0. P \in Nat /\ P > 0 /\ L \in Nat
  BY AccountsAssumption
<1> DEFINE q == (L + P - 1) \div P
<1> HIDE DEF P, L
<1>1. q \in Nat /\ q * P <= L + P - 1 /\ L + P - 1 < q * P + P
  BY <1>0
<1> HIDE DEF q
<1>2. page * P \in Nat /\ q * P \in Nat
  BY <1>0, <1>1
<1>3. ASSUME page < q PROVE page * P < L
  <2>1. PICK d \in Nat : q = page + 1 + d BY <1>1, <1>3
  <2>2. q * P = page * P + P + d * P BY <1>0, <2>1
  <2>3. d * P \in Nat BY <1>0
  <2> QED BY <1>0, <1>1, <1>2, <2>2, <2>3
<1>4. ASSUME ~ (page < q) PROVE ~ (page * P < L)
  <2>1. PICK d \in Nat : page = q + d BY <1>1, <1>4
  <2>2. page * P = q * P + d * P BY <1>0, <1>1, <2>1
  <2>3. d * P \in Nat BY <1>0
  <2> QED BY <1>0, <1>1, <1>2, <2>2, <2>3
<1> QED BY <1>3, <1>4 DEF HasNext, P, L, q

\* The elements of a sequence beyond the first b.
After(s, b) == {s[i] : i \in b + 1 .. Len(s)}

LEMMA AfterNone ==
    ASSUME NEW s \in Seq(Nat), NEW b \in Nat
    PROVE  /\ After(s, b) \subseteq Range(s) /\ Range(s) \subseteq Nat
           /\ b = 0 => After(s, b) = Range(s)
           /\ Len(s) <= b => After(s, b) = {}
<1>1. DOMAIN s = 1 .. Len(s) /\ Len(s) \in Nat /\ \A i \in 1 .. Len(s) : s[i] \in Nat
  OBVIOUS
<1>2. After(s, b) \subseteq Range(s)
  BY <1>1 DEF After, Range
<1>3. b = 0 => After(s, b) = Range(s)
  BY <1>1 DEF After, Range
<1>4. Len(s) <= b => After(s, b) = {}
  BY <1>1 DEF After
<1> QED BY <1>1, <1>2, <1>3, <1>4 DEF Range

LEMMA AfterCount ==
    ASSUME NEW s \in Seq(Nat), IsInjective(s), NEW b \in Nat
    PROVE  /\ IsFiniteSet(After(s, b))
           /\ Cardinality(After(s, b)) = IF b < Len(s) THEN Len(s) - b ELSE 0
<1>1. DOMAIN s = 1 .. Len(s) /\ Len(s) \in Nat
  OBVIOUS
<1>2. PICK I : I = b + 1 .. Len(s)
  OBVIOUS
<1>3. IsFiniteSet(I) /\ Cardinality(I) = IF b < Len(s) THEN Len(s) - b ELSE 0
  <2>1. IsFiniteSet(I) /\ Cardinality(I) = IF b + 1 > Len(s) THEN 0 ELSE Len(s) - (b + 1) + 1
    <3>1. b + 1 \in Int /\ Len(s) \in Int BY <1>1
    <3>2. /\ IsFiniteSet(b + 1 .. Len(s))
          /\ Cardinality(b + 1 .. Len(s)) = IF b + 1 > Len(s) THEN 0 ELSE Len(s) - (b + 1) + 1
      BY <3>1, FS_Interval
    <3> QED BY <1>2, <3>2
  <2> QED BY <1>1, <2>1
<1>4. PICK f : f = [i \in I |-> s[i]]
  OBVIOUS
<1>5. f \in Bijection(I, After(s, b))
  <2>1. I \subseteq DOMAIN s BY <1>1, <1>2
  <2>2. f \in [I -> After(s, b)] BY <1>2, <1>4 DEF After
  <2>3. \A i, j \in I : f[i] = f[j] => i = j BY <1>4, <2>1 DEF IsInjective
  <2>4. \A y \in After(s, b) : \E i \in I : f[i] = y BY <1>2, <1>4 DEF After
  <2> QED BY <2>2, <2>3, <2>4 DEF Bijection, Injection, Surjection, IsInjective
<1>6. ExistsBijection(I, After(s, b))
  BY <1>5 DEF ExistsBijection
<1> QED BY <1>3, <1>6, FS_Bijection

\* The next page takes its rows from those not read, none twice.
LEMMA ItemsAre ==
    ASSUME NEW s \in Seq(Nat), IsInjective(s), NEW page \in Nat \ {0}
    PROVE  /\ Items(s, page) \in Seq(Nat) /\ Range(Items(s, page)) \subseteq Range(s)
           /\ After(s, (page - 1) * PageSize) = Range(Items(s, page)) \cup After(s, page * PageSize)
           /\ Len(Items(s, page)) + Cardinality(After(s, page * PageSize))
                 = Cardinality(After(s, (page - 1) * PageSize))
<1>1. PICK from : from = (page - 1) * PageSize /\ from \in Nat
  BY AccountsAssumption
<1>2. PICK P : P = PageSize /\ P \in Nat \ {0}
  BY AccountsAssumption
<1>3. page * PageSize = from + P
  BY <1>1, <1>2
<1>4. PICK to : to = IF from + P < Len(s) THEN from + P ELSE Len(s)
  OBVIOUS
<1>5. PICK L : L = Len(s) /\ L \in Nat /\ DOMAIN s = 1 .. L
  OBVIOUS
<1>6. PICK r : r = Items(s, page) /\ r = SubSeq(s, from + 1, to)
  BY <1>1, <1>2, <1>4 DEF Items
<1>7. Cardinality(After(s, from)) = (IF from < L THEN L - from ELSE 0)
      /\ Cardinality(After(s, from + P)) = (IF from + P < L THEN L - (from + P) ELSE 0)
  BY <1>1, <1>2, <1>5, AfterCount
<1>8. CASE L <= from
  <2>1. to < from + 1 /\ to \in Nat BY <1>2, <1>4, <1>5, <1>8, <1>1
  <2>2. r = <<>> BY <1>1, <1>6, <2>1, SubSeqEmpty
  <2>3. r \in Seq(Nat) /\ Range(r) = {} /\ Len(r) = 0 BY <2>2 DEF Range
  <2>4. After(s, from) = {} /\ After(s, from + P) = {}
    <3>1. from + P \in Nat /\ L <= from + P BY <1>1, <1>2, <1>5, <1>8
    <3> QED BY <1>1, <1>5, <1>8, <3>1, AfterNone
  <2>5. Cardinality(After(s, from)) = 0 /\ Cardinality(After(s, from + P)) = 0
    BY <1>1, <1>2, <1>5, <1>7, <1>8
  <2> QED BY <1>1, <1>3, <1>6, <2>3, <2>4, <2>5
<1>9. CASE from < L
  <2>1. to \in Nat /\ from < to /\ to <= L BY <1>1, <1>2, <1>4, <1>5, <1>9
  <2>2. /\ r \in Seq(Nat) /\ Len(r) = to - from
        /\ \A i \in 1 .. to - from : r[i] = s[from + i]
    <3>1. from + 1 \in Int /\ to \in Int /\ from + 1 <= to BY <1>1, <2>1
    <3>2. \A i \in from + 1 .. to : s[i] \in Nat BY <1>1, <1>5, <2>1
    <3>3. /\ r \in Seq(Nat) /\ Len(r) = to - (from + 1) + 1
          /\ \A i \in 1 .. to - (from + 1) + 1 : r[i] = s[from + 1 + i - 1]
      BY <1>6, <3>1, <3>2, SubSeqProperties
    <3>4. to - (from + 1) + 1 = to - from BY <1>1, <2>1
    <3> SUFFICES ASSUME NEW i \in 1 .. to - from PROVE r[i] = s[from + i]
      BY <3>3, <3>4
    <3>5. i \in Int /\ from + 1 + i - 1 = from + i BY <1>1, <2>1
    <3> QED BY <3>3, <3>4, <3>5
  <2>3. Range(r) = {s[i] : i \in from + 1 .. to}
    <3>1. DOMAIN r = 1 .. to - from BY <2>2
    <3>2. \A i \in 1 .. to - from : from + i \in from + 1 .. to BY <1>1, <2>1
    <3>3. \A i \in from + 1 .. to : i - from \in 1 .. to - from /\ from + (i - from) = i BY <1>1, <2>1
    <3>4. \A i \in from + 1 .. to : r[i - from] = s[i] BY <2>2, <3>3
    <3> QED BY <2>2, <3>1, <3>2, <3>3, <3>4 DEF Range
  <2>4. Range(r) \subseteq Range(s)
    <3>1. from + 1 .. to \subseteq DOMAIN s BY <1>1, <1>5, <2>1
    <3> QED BY <2>3, <3>1 DEF Range
  <2>5. from + 1 .. L = (from + 1 .. to) \cup (from + P + 1 .. L)
    BY <1>1, <1>2, <1>4, <1>5, <1>9
  <2>6. After(s, from) = Range(r) \cup After(s, from + P)
    BY <1>5, <2>3, <2>5 DEF After
  <2>7. Len(r) + Cardinality(After(s, from + P)) = Cardinality(After(s, from))
    <3>1. Cardinality(After(s, from)) = L - from BY <1>7, <1>9
    <3>2. CASE from + P < L
      <4>1. Len(r) = P BY <1>1, <1>2, <1>4, <1>5, <2>2, <3>2
      <4>2. Cardinality(After(s, from + P)) = L - (from + P) BY <1>7, <3>2
      <4> QED BY <1>1, <1>2, <1>5, <3>1, <4>1, <4>2
    <3>3. CASE ~ (from + P < L)
      <4>1. Len(r) = L - from BY <1>4, <1>5, <2>2, <3>3
      <4>2. Cardinality(After(s, from + P)) = 0 BY <1>7, <3>3
      <4> QED BY <1>1, <1>5, <3>1, <4>1, <4>2
    <3> QED BY <3>2, <3>3
  <2> QED BY <1>1, <1>3, <1>6, <2>2, <2>4, <2>6, <2>7
<1> QED BY <1>1, <1>5, <1>8, <1>9

\* A row that goes takes one row from those not read: itself, or the one that slips
\* to a page that was read.
LEMMA Removed ==
    ASSUME NEW s \in Seq(Nat), NEW k \in DOMAIN s, IsInjective(s), NEW b \in Nat
    PROVE  /\ RemoveAt(s, k) \in Seq(Nat) /\ IsInjective(RemoveAt(s, k))
           /\ Range(RemoveAt(s, k)) = Range(s) \ {s[k]}
           /\ \E x : After(RemoveAt(s, k), b) = After(s, b) \ {x}
<1>0. PICK t : t = RemoveAt(s, k)
  OBVIOUS
<1>1. PICK L : L = Len(s) /\ L \in Nat /\ k \in 1 .. L /\ DOMAIN s = 1 .. L
  OBVIOUS
<1>2. t = SubSeq(s, 1, k - 1) \o SubSeq(s, k + 1, Len(s))
  BY <1>0 DEF RemoveAt
<1>3. /\ t \in Seq(Nat) /\ Len(t) = L - 1
      /\ \A i \in 1 .. L - 1 : t[i] = IF i < k THEN s[i] ELSE s[i + 1]
  <2>1. PICK a, c : a = SubSeq(s, 1, k - 1) /\ c = SubSeq(s, k + 1, Len(s))
    OBVIOUS
  <2>2. a \in Seq(Nat) /\ Len(a) = k - 1 /\ \A i \in 1 .. k - 1 : a[i] = s[i]
    BY <1>1, <2>1
  <2>3. c \in Seq(Nat) /\ Len(c) = L - k /\ \A i \in 1 .. L - k : c[i] = s[k + i]
    <3>1. k + 1 \in Int /\ Len(s) \in Int /\ \A i \in k + 1 .. Len(s) : s[i] \in Nat BY <1>1
    <3>2. /\ c \in Seq(Nat) /\ Len(c) = IF k + 1 <= Len(s) THEN Len(s) - (k + 1) + 1 ELSE 0
          /\ \A i \in 1 .. Len(s) - (k + 1) + 1 : c[i] = s[(k + 1) + i - 1]
      BY <2>1, <3>1, SubSeqProperties
    <3>3. Len(c) = L - k /\ Len(s) - (k + 1) + 1 = L - k BY <1>1, <3>2
    <3>4. ASSUME NEW i \in 1 .. L - k PROVE c[i] = s[k + i]
      <4>1. (k + 1) + i - 1 = k + i BY <1>1
      <4> QED BY <3>2, <3>3, <4>1
    <3> QED BY <3>2, <3>3, <3>4
  <2>4. t = a \o c
    BY <1>2, <2>1
  <2>5. t \in Seq(Nat) /\ Len(t) = Len(a) + Len(c)
    BY <2>2, <2>3, <2>4, ConcatProperties
  <2>6. \A i \in 1 .. Len(a) + Len(c) : t[i] = IF i <= Len(a) THEN a[i] ELSE c[i - Len(a)]
    BY <2>2, <2>3, <2>4, ConcatProperties
  <2>7. ASSUME NEW i \in 1 .. L - 1 PROVE t[i] = IF i < k THEN s[i] ELSE s[i + 1]
    <3>0. i \in 1 .. Len(a) + Len(c) /\ (i <= Len(a) <=> i < k) BY <1>1, <2>2, <2>3
    <3>1. CASE i < k
      <4>1. t[i] = a[i] /\ i \in 1 .. k - 1 BY <1>1, <2>6, <3>0, <3>1
      <4> QED BY <2>2, <3>1, <4>1
    <3>2. CASE ~ (i < k)
      <4>1. t[i] = c[i - (k - 1)] BY <2>2, <2>6, <3>0, <3>2
      <4>2. i - (k - 1) \in 1 .. L - k /\ k + (i - (k - 1)) = i + 1 BY <1>1, <3>2
      <4> QED BY <2>3, <3>2, <4>1, <4>2
    <3> QED BY <3>1, <3>2
  <2>8. Len(t) = L - 1 BY <1>1, <2>2, <2>3, <2>5
  <2> QED BY <2>5, <2>7, <2>8
<1>4. DOMAIN t = 1 .. L - 1
  BY <1>1, <1>3
<1>5. \A i, j \in 1 .. L : s[i] = s[j] => i = j
  BY <1>1 DEF IsInjective
<1>6. IsInjective(t)
  <2>1. ASSUME NEW i \in DOMAIN t, NEW j \in DOMAIN t, t[i] = t[j] PROVE i = j
    <3>0. \A m \in 1 .. L - 1 : \E a \in 1 .. L : t[m] = s[a] /\ a = IF m < k THEN m ELSE m + 1
      <4> SUFFICES ASSUME NEW m \in 1 .. L - 1
                   PROVE  \E a \in 1 .. L : t[m] = s[a] /\ a = IF m < k THEN m ELSE m + 1
        OBVIOUS
      <4>1. t[m] = IF m < k THEN s[m] ELSE s[m + 1] BY <1>3
      <4>2. m \in 1 .. L /\ m + 1 \in 1 .. L BY <1>1
      <4> QED BY <4>1, <4>2
    <3>1. PICK a \in 1 .. L : t[i] = s[a] /\ a = IF i < k THEN i ELSE i + 1 BY <1>4, <3>0
    <3>2. PICK c \in 1 .. L : t[j] = s[c] /\ c = IF j < k THEN j ELSE j + 1 BY <1>4, <3>0
    <3>3. a = c BY <1>5, <2>1, <3>1, <3>2
    <3> QED BY <1>1, <1>4, <3>1, <3>2, <3>3
  <2> QED BY <2>1 DEF IsInjective
\* Place i of s is place i or i - 1 of t.
<1>7. ASSUME NEW c \in Nat
      PROVE  After(t, c) = {s[i] : i \in {j \in 1 .. L : j # k /\ j > IF c < k THEN c ELSE c + 1}}
  <2> DEFINE I == {j \in 1 .. L : j # k /\ j > IF c < k THEN c ELSE c + 1}
  <2>1. ASSUME NEW i \in c + 1 .. L - 1 PROVE \E j \in I : t[i] = s[j]
    <3>1. PICK j : j = IF i < k THEN i ELSE i + 1 OBVIOUS
    <3>2. i \in 1 .. L - 1 /\ i > c BY <1>1
    <3>3. t[i] = s[j]
      <4>1. t[i] = IF i < k THEN s[i] ELSE s[i + 1] BY <1>3, <3>2
      <4> QED BY <3>1, <4>1
    <3>4. j \in 1 .. L /\ j # k /\ j > IF c < k THEN c ELSE c + 1 BY <1>1, <3>1, <3>2
    <3> QED BY <3>3, <3>4
  <2>2. ASSUME NEW j \in I PROVE \E i \in c + 1 .. L - 1 : t[i] = s[j]
    <3>1. PICK i : i = IF j < k THEN j ELSE j - 1 OBVIOUS
    <3>2. i \in c + 1 .. L - 1
      <4>1. CASE c < k BY <1>1, <3>1, <4>1
      <4>2. CASE ~ (c < k) BY <1>1, <3>1, <4>2
      <4> QED BY <4>1, <4>2
    <3>3. t[i] = s[j]
      <4>1. i \in 1 .. L - 1 BY <1>1, <3>2
      <4>2. t[i] = IF i < k THEN s[i] ELSE s[i + 1] BY <1>3, <4>1
      <4>3. i < k \/ i + 1 = j BY <1>1, <3>1
      <4>4. i < k => i = j BY <1>1, <3>1
      <4> QED BY <4>2, <4>3, <4>4
    <3> QED BY <3>2, <3>3
  <2> HIDE DEF I
  <2>3. After(t, c) = {s[i] : i \in I}
    <3>1. After(t, c) = {t[i] : i \in c + 1 .. L - 1} BY <1>3 DEF After
    <3> QED BY <2>1, <2>2, <3>1
  <2> QED BY <2>3 DEF I
<1>8. Range(t) = Range(s) \ {s[k]}
  <2>1. Range(t) = {s[i] : i \in {j \in 1 .. L : j # k /\ j > 0}}
    <3>1. Range(t) = After(t, 0) BY <1>3, AfterNone
    <3>2. {j \in 1 .. L : j # k /\ j > IF 0 < k THEN 0 ELSE 0 + 1} = {j \in 1 .. L : j # k /\ j > 0}
      BY <1>1
    <3> QED BY <1>7, <3>1, <3>2
  <2>2. {j \in 1 .. L : j # k /\ j > 0} = (1 .. L) \ {k} BY <1>1
  <2>3. Range(s) = {s[i] : i \in 1 .. L} BY <1>1 DEF Range
  <2> QED BY <1>1, <1>5, <2>1, <2>2, <2>3
<1>9. \E x : After(t, b) = After(s, b) \ {x}
  <2>0. After(s, b) = {s[i] : i \in {j \in 1 .. L : j > b}}
    <3>1. {j \in 1 .. L : j > b} = b + 1 .. L BY <1>1
    <3> QED BY <1>1, <3>1 DEF After
  <2>1. CASE b < k
    <3>1. After(t, b) = {s[i] : i \in {j \in 1 .. L : j # k /\ j > b}} BY <1>7, <2>1
    <3>2. After(t, b) = After(s, b) \ {s[k]} BY <1>1, <1>5, <2>0, <3>1
    <3> QED BY <3>2
  <2>2. CASE ~ (b < k)
    <3>1. After(t, b) = {s[i] : i \in {j \in 1 .. L : j # k /\ j > b + 1}} BY <1>7, <2>2
    <3>2. {j \in 1 .. L : j # k /\ j > b + 1} = {j \in 1 .. L : j > b} \ {b + 1} BY <1>1, <2>2
    <3>3. CASE b + 1 \in 1 .. L
      <4>1. After(t, b) = After(s, b) \ {s[b + 1]} BY <1>5, <2>0, <3>1, <3>2, <3>3
      <4> QED BY <4>1
    <3>4. CASE b + 1 \notin 1 .. L
      <4>1. {j \in 1 .. L : j > b} = {} BY <1>1, <3>4
      <4>2. After(t, b) = {} /\ After(s, b) = {} BY <2>0, <3>1, <3>2, <4>1
      <4> QED BY <4>2
    <3> QED BY <3>3, <3>4
  <2> QED BY <2>1, <2>2
<1> QED BY <1>0, <1>3, <1>6, <1>8, <1>9

\* A row that comes adds at most one row to those not read: itself, or the last one
\* that was read.
LEMMA Inserted ==
    ASSUME NEW s \in Seq(Nat), NEW k \in 1 .. Len(s) + 1, IsInjective(s), NEW x \in Nat, x \notin Range(s),
           NEW b \in Nat, NEW t, t = InsertAt(s, k, x)
    PROVE  /\ t \in Seq(Nat) /\ IsInjective(t) /\ Range(t) = Range(s) \cup {x}
           /\ After(t, b) \in {After(s, b), After(s, b) \cup {x}, After(s, b) \cup {s[b]}}
<1>1. PICK L : L = Len(s) /\ L \in Nat /\ k \in 1 .. L + 1 /\ DOMAIN s = 1 .. L
  OBVIOUS
<1>2. t = SubSeq(s, 1, k - 1) \o <<x>> \o SubSeq(s, k, Len(s))
  BY DEF InsertAt
<1>3. /\ t \in Seq(Nat) /\ Len(t) = L + 1
      /\ \A i \in 1 .. L + 1 : t[i] = IF i < k THEN s[i] ELSE IF i = k THEN x ELSE s[i - 1]
  <2>1. PICK a, c, d : a = SubSeq(s, 1, k - 1) /\ c = SubSeq(s, k, Len(s)) /\ d = a \o <<x>>
    OBVIOUS
  <2>2. a \in Seq(Nat) /\ Len(a) = k - 1 /\ \A i \in 1 .. k - 1 : a[i] = s[i]
    BY <1>1, <2>1
  <2>3. c \in Seq(Nat) /\ Len(c) = L - k + 1 /\ \A i \in 1 .. L - k + 1 : c[i] = s[k + i - 1]
    <3>1. CASE k <= L
      <4>1. k \in Int /\ L \in Int /\ \A i \in k .. L : s[i] \in Nat BY <1>1
      <4>2. /\ c \in Seq(Nat) /\ Len(c) = IF k <= L THEN L - k + 1 ELSE 0
            /\ \A i \in 1 .. L - k + 1 : c[i] = s[k + i - 1]
        <5>1. c = SubSeq(s, k, L) BY <1>1, <2>1
        <5> QED BY <4>1, <5>1, SubSeqProperties
      <4> QED BY <1>1, <3>1, <4>2
    <3>2. CASE ~ (k <= L)
      <4>1. c = <<>> BY <1>1, <2>1, <3>2
      <4> QED BY <1>1, <3>2, <4>1
    <3> QED BY <3>1, <3>2
  <2>4. <<x>> \in Seq(Nat) /\ Len(<<x>>) = 1 /\ <<x>>[1] = x
    OBVIOUS
  <2>5. /\ d \in Seq(Nat) /\ Len(d) = k
        /\ \A i \in 1 .. k : d[i] = IF i < k THEN s[i] ELSE x
    <3>1. d \in Seq(Nat) /\ Len(d) = Len(a) + 1
          /\ \A i \in 1 .. Len(a) + 1 : d[i] = IF i <= Len(a) THEN a[i] ELSE <<x>>[i - Len(a)]
      BY <2>1, <2>2, <2>4, ConcatProperties
    <3>2. Len(a) + 1 = k BY <1>1, <2>2
    <3>3. ASSUME NEW i \in 1 .. k PROVE d[i] = IF i < k THEN s[i] ELSE x
      <4>1. CASE i < k
        <5>1. i \in 1 .. k - 1 /\ i <= Len(a) BY <1>1, <2>2, <4>1
        <5>2. d[i] = a[i] BY <3>1, <3>2, <5>1
        <5> QED BY <2>2, <4>1, <5>1, <5>2
      <4>2. CASE ~ (i < k)
        <5>1. i = k /\ ~ (i <= Len(a)) /\ i - Len(a) = 1 BY <1>1, <2>2, <4>2
        <5>2. d[i] = <<x>>[1] BY <3>1, <3>2, <5>1
        <5> QED BY <2>4, <4>2, <5>2
      <4> QED BY <4>1, <4>2
    <3> QED BY <3>1, <3>2, <3>3
  <2>6. t = d \o c
    BY <1>2, <2>1
  <2>7. t \in Seq(Nat) /\ Len(t) = Len(d) + Len(c)
        /\ \A i \in 1 .. Len(d) + Len(c) : t[i] = IF i <= Len(d) THEN d[i] ELSE c[i - Len(d)]
    <3>1. d \in Seq(Nat) /\ c \in Seq(Nat) BY <2>3, <2>5
    <3> QED BY <2>6, <3>1, ConcatProperties
  <2>8. Len(t) = L + 1 BY <1>1, <2>3, <2>5, <2>7
  <2>9. ASSUME NEW i \in 1 .. L + 1 PROVE t[i] = IF i < k THEN s[i] ELSE IF i = k THEN x ELSE s[i - 1]
    <3>1. CASE i <= k
      BY <1>1, <2>3, <2>5, <2>7, <3>1
    <3>2. CASE ~ (i <= k)
      <4>1. t[i] = c[i - k] BY <1>1, <2>3, <2>5, <2>7, <3>2
      <4>2. i - k \in 1 .. L - k + 1 /\ k + (i - k) - 1 = i - 1 BY <1>1, <3>2
      <4> QED BY <1>1, <2>3, <3>2, <4>1, <4>2
    <3> QED BY <3>1, <3>2
  <2> QED BY <2>7, <2>8, <2>9
<1>4. DOMAIN t = 1 .. L + 1
  BY <1>1, <1>3
<1>5. \A i, j \in 1 .. L : s[i] = s[j] => i = j
  BY <1>1 DEF IsInjective
<1>6. \A i \in 1 .. L : s[i] # x
  BY <1>1 DEF Range
<1>7. IsInjective(t)
  <2>1. ASSUME NEW i \in 1 .. L + 1, NEW j \in 1 .. L + 1, t[i] = t[j] PROVE i = j
    <3>1. CASE i = k \/ j = k
      <4>1. \A m \in 1 .. L + 1 : m # k => t[m] # x BY <1>1, <1>3, <1>6
      <4>2. t[k] = x BY <1>1, <1>3
      <4> QED BY <2>1, <3>1, <4>1, <4>2
    <3>2. CASE i # k /\ j # k
      <4>0. ASSUME NEW m \in 1 .. L + 1, m # k
            PROVE  \E a \in 1 .. L : t[m] = s[a] /\ a = IF m < k THEN m ELSE m - 1
        <5>1. t[m] = IF m < k THEN s[m] ELSE s[m - 1] BY <1>3, <4>0
        <5>2. (m < k => m \in 1 .. L) /\ (~ (m < k) => m - 1 \in 1 .. L) BY <1>1, <4>0
        <5> QED BY <5>1, <5>2
      <4>1. PICK a \in 1 .. L : t[i] = s[a] /\ a = IF i < k THEN i ELSE i - 1 BY <3>2, <4>0
      <4>2. PICK c \in 1 .. L : t[j] = s[c] /\ c = IF j < k THEN j ELSE j - 1 BY <3>2, <4>0
      <4>3. a = c BY <1>5, <2>1, <4>1, <4>2
      <4> QED BY <1>1, <3>2, <4>1, <4>2, <4>3
    <3> QED BY <3>1, <3>2
  <2> QED BY <1>4, <2>1 DEF IsInjective
<1>8. ASSUME NEW c \in Nat, c < k
      PROVE  After(t, c) = After(s, c) \cup {x}
  <2>1. ASSUME NEW i \in c + 1 .. L + 1 PROVE t[i] \in After(s, c) \cup {x}
    <3>1. CASE i = k BY <1>1, <1>3, <1>8, <3>1
    <3>2. CASE i < k
      <4>1. i \in c + 1 .. Len(s) /\ t[i] = s[i] BY <1>1, <1>3, <3>2
      <4> QED BY <4>1 DEF After
    <3>3. CASE k < i
      <4>1. i - 1 \in c + 1 .. Len(s) /\ t[i] = s[i - 1] BY <1>1, <1>3, <1>8, <3>3
      <4> QED BY <4>1 DEF After
    <3> QED BY <1>1, <3>1, <3>2, <3>3
  <2>2. ASSUME NEW i \in c + 1 .. Len(s) PROVE s[i] \in After(t, c)
    <3>1. PICK j : j = IF i < k THEN i ELSE i + 1 OBVIOUS
    <3>2. j \in c + 1 .. Len(t) /\ j \in 1 .. L + 1 /\ j # k BY <1>1, <1>3, <3>1
    <3>3. t[j] = IF j < k THEN s[j] ELSE s[j - 1]
      <4>1. t[j] = IF j < k THEN s[j] ELSE IF j = k THEN x ELSE s[j - 1] BY <1>3, <3>2
      <4> QED BY <3>2, <4>1
    <3>4. (j < k => j = i) /\ (~ (j < k) => j - 1 = i) BY <1>1, <3>1
    <3>5. t[j] = s[i] BY <3>3, <3>4
    <3> QED BY <3>2, <3>5 DEF After
  <2>3. x \in After(t, c)
    <3>1. k \in c + 1 .. Len(t) /\ t[k] = x BY <1>1, <1>3, <1>8
    <3> QED BY <3>1 DEF After
  <2> QED BY <1>3, <2>1, <2>2, <2>3 DEF After
<1>9. Range(t) = Range(s) \cup {x}
  <2>1. Range(t) = After(t, 0) /\ Range(s) = After(s, 0) BY <1>3, AfterNone
  <2>2. 0 < k BY <1>1
  <2> QED BY <1>8, <2>1, <2>2
<1>10. After(t, b) \in {After(s, b), After(s, b) \cup {x}, After(s, b) \cup {s[b]}}
  <2>1. CASE b < k
    BY <1>8, <2>1
  <2>2. CASE ~ (b < k)
    <3>1. \A i \in b + 1 .. L + 1 : t[i] = s[i - 1] BY <1>1, <1>3, <2>2
    <3>2. CASE b <= L
      <4>1. After(t, b) \subseteq After(s, b) \cup {s[b]}
        <5>1. ASSUME NEW i \in b + 1 .. L + 1 PROVE t[i] \in After(s, b) \cup {s[b]}
          <6>1. CASE i = b + 1 BY <3>1, <6>1
          <6>2. CASE i # b + 1
            <7>1. i - 1 \in b + 1 .. Len(s) BY <1>1, <6>2
            <7> QED BY <3>1, <7>1 DEF After
          <6> QED BY <6>1, <6>2
        <5> QED BY <1>3, <5>1 DEF After
      <4>2. ASSUME NEW i \in b .. L PROVE s[i] \in After(t, b)
        <5>1. i + 1 \in b + 1 .. Len(t) /\ t[i + 1] = s[i] BY <1>1, <1>3, <3>1
        <5> QED BY <5>1 DEF After
      <4>3. s[b] \in After(t, b) BY <3>2, <4>2
      <4>4. ASSUME NEW y \in After(s, b) PROVE y \in After(t, b)
        <5>1. PICK i \in b + 1 .. L : y = s[i] BY <1>1 DEF After
        <5>2. i \in b .. L BY <1>1
        <5> QED BY <4>2, <5>1, <5>2
      <4> QED BY <4>1, <4>3, <4>4
    <3>3. CASE ~ (b <= L)
      <4>1. Len(s) <= b /\ Len(t) <= b BY <1>1, <1>3, <3>3
      <4> QED BY <1>3, <4>1, AfterNone
    <3> QED BY <3>2, <3>3
  <2> QED BY <2>1, <2>2
<1> QED BY <1>3, <1>7, <1>9, <1>10

\* A client that read S, in n places, and has U before it: the rows H that were there
\* at the start and that he misses, and those he has twice, are so many at most.
Balance(H, S, n, U, missing, twice) ==
    /\ IsFiniteSet(H) /\ IsFiniteSet(S) /\ IsFiniteSet(U)
    /\ Cardinality(H \ (S \cup U)) <= missing
    /\ n + Cardinality(U) <= Cardinality(S \cup U) + twice

LEMMA OneLess ==
    ASSUME NEW H, NEW S, NEW n \in Nat, NEW U, NEW missing \in Nat, NEW twice \in Nat,
           Balance(H, S, n, U, missing, twice), NEW x
    PROVE  Balance(H, S, n, U \ {x}, missing + 1, twice)
<1>1. IsFiniteSet(H) /\ IsFiniteSet(S) /\ IsFiniteSet(U)
  BY DEF Balance
<1>2. PICK A, B, W, M, N : /\ A = S \cup U /\ B = S \cup (U \ {x}) /\ W = U \ {x}
                           /\ M = H \ A /\ N = H \ B
  OBVIOUS
<1>3. IsFiniteSet(W) /\ IsFiniteSet(A) /\ IsFiniteSet(B) /\ IsFiniteSet(M) /\ IsFiniteSet(N)
  <2>1. IsFiniteSet(W) BY <1>1, <1>2, FS_RemoveElement
  <2>2. IsFiniteSet(A) /\ IsFiniteSet(B) BY <1>1, <1>2, <2>1, FS_Union
  <2>3. M \in SUBSET H /\ N \in SUBSET H BY <1>2
  <2> QED BY <1>1, <2>1, <2>2, <2>3, FS_Subset
<1>4. /\ Cardinality(A) \in Nat /\ Cardinality(B) \in Nat /\ Cardinality(M) \in Nat
      /\ Cardinality(N) \in Nat /\ Cardinality(U) \in Nat
  BY <1>1, <1>3, FS_CardinalityType
<1>5. Cardinality(N) <= Cardinality(M) + 1
  <2>1. IsFiniteSet(M \cup {x}) /\ Cardinality(M \cup {x}) <= Cardinality(M) + 1
    <3>1. Cardinality(M \cup {x}) = Cardinality(M) \/ Cardinality(M \cup {x}) = Cardinality(M) + 1
      BY <1>3, FS_AddElement
    <3>2. IsFiniteSet(M \cup {x}) BY <1>3, FS_AddElement
    <3> QED BY <1>4, <3>1, <3>2
  <2>2. N \in SUBSET (M \cup {x}) BY <1>2
  <2>3. Cardinality(N) <= Cardinality(M \cup {x}) BY <2>1, <2>2, FS_Subset
  <2>4. Cardinality(M \cup {x}) \in Nat BY <2>1, FS_CardinalityType
  <2> QED BY <1>4, <2>1, <2>3, <2>4
<1>6. Cardinality(M) <= missing /\ n + Cardinality(U) <= Cardinality(A) + twice
  BY <1>2 DEF Balance
<1>7. n + Cardinality(W) <= Cardinality(B) + twice
  <2>1. CASE x \notin U
    <3>1. W = U /\ B = A BY <1>2, <2>1
    <3> QED BY <1>6, <3>1
  <2>2. CASE x \in U
    <3>1. Cardinality(W) = Cardinality(U) - 1 BY <1>1, <1>2, <2>2, FS_RemoveElement
    <3>2. Cardinality(A) <= Cardinality(B) + 1
      <4>1. Cardinality(B \cup {x}) <= Cardinality(B) + 1
        <5>1. Cardinality(B \cup {x}) = Cardinality(B) \/ Cardinality(B \cup {x}) = Cardinality(B) + 1
          BY <1>3, FS_AddElement
        <5> QED BY <1>4, <5>1
      <4>2. A = B \cup {x} BY <1>2, <2>2
      <4> QED BY <4>1, <4>2
    <3> QED BY <1>4, <1>6, <3>1, <3>2
  <2> QED BY <2>1, <2>2
<1>8. Cardinality(N) <= missing + 1
  BY <1>4, <1>5, <1>6
<1> QED BY <1>1, <1>2, <1>3, <1>7, <1>8 DEF Balance

LEMMA OneMore ==
    ASSUME NEW H, NEW S, NEW n \in Nat, NEW U, NEW missing \in Nat, NEW twice \in Nat,
           Balance(H, S, n, U, missing, twice), NEW V, V = U \/ \E y : V = U \cup {y}
    PROVE  Balance(H, S, n, V, missing, twice + 1)
<1>1. IsFiniteSet(H) /\ IsFiniteSet(S) /\ IsFiniteSet(U)
  BY DEF Balance
<1>2. PICK A, B, M, N : A = S \cup U /\ B = S \cup V /\ M = H \ A /\ N = H \ B
  OBVIOUS
<1>3. IsFiniteSet(V) /\ Cardinality(V) <= Cardinality(U) + 1
  <2>1. Cardinality(U) \in Nat BY <1>1, FS_CardinalityType
  <2>2. CASE V = U BY <1>1, <2>1, <2>2
  <2>3. CASE \E y : V = U \cup {y}
    <3>1. PICK y : V = U \cup {y} BY <2>3
    <3>2. Cardinality(V) = Cardinality(U) \/ Cardinality(V) = Cardinality(U) + 1
      BY <1>1, <3>1, FS_AddElement
    <3>3. IsFiniteSet(V) BY <1>1, <3>1, FS_AddElement
    <3> QED BY <2>1, <3>2, <3>3
  <2> QED BY <2>2, <2>3
<1>4. IsFiniteSet(A) /\ IsFiniteSet(B) /\ IsFiniteSet(M) /\ IsFiniteSet(N)
  <2>1. IsFiniteSet(A) /\ IsFiniteSet(B) BY <1>1, <1>2, <1>3, FS_Union
  <2>2. M \in SUBSET H /\ N \in SUBSET H BY <1>2
  <2> QED BY <1>1, <2>1, <2>2, FS_Subset
<1>5. /\ Cardinality(A) \in Nat /\ Cardinality(B) \in Nat /\ Cardinality(M) \in Nat
      /\ Cardinality(N) \in Nat /\ Cardinality(U) \in Nat /\ Cardinality(V) \in Nat
  BY <1>1, <1>3, <1>4, FS_CardinalityType
<1>6. U \subseteq V
  OBVIOUS
<1>7. Cardinality(A) <= Cardinality(B) /\ Cardinality(N) <= Cardinality(M)
  <2>1. A \in SUBSET B /\ N \in SUBSET M BY <1>2, <1>6
  <2> QED BY <1>4, <2>1, FS_Subset
<1>8. Cardinality(M) <= missing /\ n + Cardinality(U) <= Cardinality(A) + twice
  BY <1>2 DEF Balance
<1>9. Cardinality(N) <= missing /\ n + Cardinality(V) <= Cardinality(B) + (twice + 1)
  BY <1>3, <1>5, <1>7, <1>8
<1> QED BY <1>1, <1>2, <1>3, <1>9 DEF Balance

-----------------------------------------------------------------------------
(* Users and the calls that change them.                                   *)

UserRow == [name : Name, miq : Miq, role : DOMAIN Rank, tf : BOOLEAN, active : BOOLEAN, gone : Nat \cup {None}]

\* Names are unique, and a user went inactive when he is inactive.
UsersFit ==
    /\ users \in Seq(UserRow) /\ clock \in Nat
    /\ \A u, v \in User : users[u].name = users[v].name => u = v
    /\ \A u \in User : users[u].active <=> users[u].gone = None
    /\ \A u \in User : users[u].gone # None => users[u].gone <= clock

\* A call is about a profile, or about a user who is there; a transaction that is
\* open between two calls was left so by a refusal.
CallsFit ==
    /\ rpc \in [Worker -> [op : {"none", "create", "delete", "vm"}, user : Nat, profile : Profile \cup {None}]]
    /\ view \in [Worker -> (0 .. Len(users)) \cup {None}]
    /\ \A w \in Worker : rpc[w].op = "create" => rpc[w].profile \in Profile
    /\ \A w \in Worker : rpc[w].op \in {"delete", "vm"} => rpc[w].user \in User
    /\ \A w \in Worker : rpc[w].op = "none" /\ view[w] # None => w \in refused

\* What happens to users: they are added, and locked once.
Evolve ==
    /\ clock' \in Nat /\ clock <= clock'
    /\ User \subseteq User' /\ Len(users') \in {Len(users), Len(users) + 1}
    /\ \A u \in User :
          /\ users'[u].name = users[u].name /\ users'[u].role = users[u].role
          /\ ~ users[u].active => ~ users'[u].active
          /\ \/ users'[u].gone = users[u].gone
             \/ users[u].gone = None /\ users'[u].gone = clock

LEMMA UserFits ==
    ASSUME users \in Seq(UserRow)
    PROVE  /\ User = 1 .. Len(users) /\ Len(users) \in Nat
           /\ \A u \in User :
                 /\ users[u] \in UserRow /\ users[u].name \in Name /\ users[u].role \in DOMAIN Rank
                 /\ users[u].active \in BOOLEAN /\ users[u].gone \in Nat \cup {None}
<1>1. User = 1 .. Len(users) /\ Len(users) \in Nat
  BY DEF User
<1>2. \A u \in User : users[u] \in UserRow
  BY DEF User
<1>3. \A r \in UserRow : /\ r.name \in Name /\ r.role \in DOMAIN Rank
                          /\ r.active \in BOOLEAN /\ r.gone \in Nat \cup {None}
  BY DEF UserRow
<1> QED BY <1>1, <1>2, <1>3

LEMMA RowFits ==
    ASSUME NEW p \in Profile, clock \in Nat
    PROVE  /\ Row(p) \in UserRow /\ Row(p).name = p.name
           /\ Row(p).active <=> Row(p).gone = None
           /\ Row(p).gone # None => Row(p).gone = clock
<1>1. p.name \in Name /\ p.miq \in Miq /\ p.tf \in BOOLEAN /\ p.status \in BOOLEAN
  BY AccountsAssumption
<1>2. Parse(p.role) \in DOMAIN Rank
  BY DEF Parse, Rank
<1>3. None \notin Nat
  BY AccountsAssumption
<1> QED BY <1>1, <1>2, <1>3 DEF Row, UserRow

LEMMA UsersInsert ==
    ASSUME UsersFit, CallsFit, NEW w \in Worker, InsertUser(w)
    PROVE  UsersFit' /\ Evolve
<1> DEFINE p == rpc[w].profile
<1>0. p \in Profile
  BY DEF CallsFit, InsertUser
<1>1. users \in Seq(UserRow) /\ clock \in Nat /\ clock' = clock
  BY DEF UsersFit, InsertUser
<1>2. CASE ~ Unique(p)
  <2>1. users' = users BY <1>2 DEF InsertUser
  <2> QED BY <1>1, <2>1 DEF UsersFit, Evolve, User
<1>3. CASE Unique(p)
  <2>1. users' = Append(users, Row(p)) BY <1>3 DEF InsertUser
  <2>2. /\ Row(p) \in UserRow /\ Row(p).name = p.name
        /\ Row(p).active <=> Row(p).gone = None
        /\ Row(p).gone # None => Row(p).gone = clock
    BY <1>0, <1>1, RowFits
  <2> DEFINE n == Len(users)
  <2>3. /\ users' \in Seq(UserRow) /\ Len(users') = n + 1 /\ n \in Nat
        /\ \A u \in 1 .. n : users'[u] = users[u]
        /\ users'[n + 1] = Row(p)
    <3> HIDE DEF p
    <3> QED BY <1>1, <2>1, <2>2
  <2>4. User = 1 .. n /\ User' = 1 .. n + 1
    BY <1>1, <2>3 DEF User
  <2>5. \A u \in User' : (u \in User /\ users'[u] = users[u]) \/ (u = n + 1 /\ users'[u] = Row(p))
    BY <2>3, <2>4
  <2>6. \A u \in User : users[u].name # p.name
    BY <1>3 DEF Unique
  <2> HIDE DEF p, n
  <2>7. \A u, v \in User' : users'[u].name = users'[v].name => u = v
    BY <2>2, <2>5, <2>6 DEF UsersFit
  <2>8. \A u \in User' : users'[u].active <=> users'[u].gone = None
    BY <2>2, <2>5 DEF UsersFit
  <2>9. \A u \in User' : users'[u].gone # None => users'[u].gone <= clock'
    BY <1>1, <2>2, <2>5 DEF UsersFit
  <2>10. Evolve
    BY <1>1, <2>3, <2>4 DEF Evolve, n
  <2> QED BY <1>1, <2>3, <2>7, <2>8, <2>9, <2>10 DEF UsersFit
<1> QED BY <1>2, <1>3

LEMMA UsersLock ==
    ASSUME UsersFit, CallsFit, NEW w \in Worker, Deactivate(w)
    PROVE  UsersFit' /\ Evolve
<1> DEFINE k == rpc[w].user
<1>0. k \in User
  BY DEF CallsFit, Deactivate
<1>1. users \in Seq(UserRow) /\ clock \in Nat /\ clock' = clock
  BY DEF UsersFit, Deactivate
<1>2. users' = [users EXCEPT ![k].active = FALSE, ![k].gone = IF users[k].active THEN clock ELSE @]
  BY DEF Deactivate
<1> HIDE DEF k
<1>3. User = 1 .. Len(users) /\ Len(users) \in Nat /\ \A u \in User : users[u] \in UserRow
  BY <1>1 DEF User
<1>4. DOMAIN users' = DOMAIN users /\ \A u \in User \ {k} : users'[u] = users[u]
  BY <1>0, <1>1, <1>2 DEF User
<1>5. /\ users'[k] \in UserRow /\ users'[k].name = users[k].name /\ users'[k].role = users[k].role
      /\ users'[k].active = FALSE
      /\ users'[k].gone = IF users[k].active THEN clock ELSE users[k].gone
  <2>1. users[k] \in UserRow BY <1>0, <1>3
  <2>2. users'[k] = [users[k] EXCEPT !.active = FALSE, !.gone = IF users[k].active THEN clock ELSE users[k].gone]
    BY <1>0, <1>1, <1>2 DEF User
  <2> QED BY <1>1, <2>1, <2>2 DEF UserRow
<1>6. User' = User /\ \A u \in User : users'[u] \in UserRow
  BY <1>3, <1>4, <1>5 DEF User
<1>7. users' \in Seq(UserRow) /\ Len(users') = Len(users)
  <2>1. users' = [u \in DOMAIN users |-> users'[u]] BY <1>2
  <2> QED BY <1>3, <1>6, <2>1 DEF User
<1>8. None \notin Nat
  BY AccountsAssumption
<1>9. \A u, v \in User' : users'[u].name = users'[v].name => u = v
  BY <1>4, <1>5, <1>6 DEF UsersFit
<1>10. \A u \in User' : users'[u].active <=> users'[u].gone = None
  BY <1>0, <1>1, <1>4, <1>5, <1>6, <1>8 DEF UsersFit
<1>11. \A u \in User' : users'[u].gone # None => users'[u].gone <= clock'
  BY <1>0, <1>1, <1>4, <1>5, <1>6 DEF UsersFit
<1>12. Evolve
  <2>1. \A u \in User : /\ users'[u].name = users[u].name /\ users'[u].role = users[u].role
                        /\ ~ users[u].active => ~ users'[u].active
    BY <1>4, <1>5
  <2>2. \A u \in User : \/ users'[u].gone = users[u].gone
                        \/ users[u].gone = None /\ users'[u].gone = clock
    BY <1>0, <1>4, <1>5 DEF UsersFit
  <2> QED BY <1>1, <1>3, <1>6, <1>7, <2>1, <2>2 DEF Evolve
<1> QED BY <1>1, <1>7, <1>9, <1>10, <1>11, <1>12 DEF UsersFit

LEMMA UsersNext ==
    ASSUME UsersFit, CallsFit, [Next]_vars
    PROVE  UsersFit' /\ Evolve
<1>1. CASE \E w \in Worker : InsertUser(w)
  BY <1>1, UsersInsert
<1>2. CASE \E w \in Worker : Deactivate(w)
  BY <1>2, UsersLock
<1>3. CASE UNCHANGED users /\ clock' \in {clock, clock + 1}
  <2>1. clock' \in Nat /\ clock <= clock' /\ User' = User /\ users' = users
    BY <1>3 DEF UsersFit, User
  <2>2. \A u \in User : users[u].gone \in Nat \cup {None}
    BY UserFits DEF UsersFit
  <2>3. \A u \in User : users[u].gone # None => users[u].gone <= clock'
    <3> SUFFICES ASSUME NEW u \in User, users[u].gone # None PROVE users[u].gone <= clock'
      OBVIOUS
    <3>1. users[u].gone \in Nat /\ users[u].gone <= clock /\ clock \in Nat BY <2>2 DEF UsersFit
    <3> QED BY <2>1, <3>1
  <2>4. Evolve
    BY <2>1 DEF Evolve, UsersFit
  <2> QED BY <2>1, <2>3, <2>4 DEF UsersFit
<1>4. CASE UNCHANGED vars
  BY <1>3, <1>4 DEF vars, rows
<1>5. CASE \E w \in Worker : Servants(w)
  BY <1>1, <1>2, <1>3, <1>5
  DEF Servants, CreateUser, DeleteUser, CreateVm, DeleteVm, InsertVm, SaveFails, rows
<1>6. CASE \E t \in Thread : Sessions(t)
  BY <1>3, <1>6 DEF Sessions, LoadLogin, LoadRefresh, Login, Refresh, rows
<1>8. CASE \E tok \in tokens : UserReads(tok) \/ VmReads(tok)
  <2>1. PICK tok \in tokens : UserReads(tok) \/ VmReads(tok) BY <1>8
  <2>2. UNCHANGED rows /\ UNCHANGED clock
    BY <2>1 DEF UserReads, VmReads, Statistic, NoEffect, ListPage
  <2> QED BY <1>3, <2>2 DEF rows
<1>7. CASE StoragesChange \/ CountPage \/ Tick
  BY <1>3, <1>7 DEF StoragesChange, CountPage, Tick, rows
<1> QED BY <1>4, <1>5, <1>6, <1>7, <1>8 DEF Next

\* The parts of a step that keep CallsFit: a call that goes on, one that is
\* refused, one that ends.
CallRow == [op : {"none", "create", "delete", "vm"}, user : Nat, profile : Profile \cup {None}]

LEMMA SeesFit ==
    ASSUME UsersFit, CallsFit, NEW w \in Worker, NEW n \in Sees(w)
    PROVE  n \in 0 .. Len(users)
<1>1. Len(users) \in Nat
  BY UserFits DEF UsersFit
<1>2. view[w] \in (0 .. Len(users)) \cup {None}
  BY DEF CallsFit
<1> QED BY <1>1, <1>2 DEF Sees

LEMMA CallGoes ==
    ASSUME UsersFit, CallsFit, NEW w \in Worker, NEW n \in Sees(w), Opened(w, n),
           NEW c \in CallRow, c.op # "none", c.op = "create" => c.profile \in Profile,
           c.op # "create" => c.user \in User, Goes(w, c), users' = users
    PROVE  CallsFit'
<1>1. n \in 0 .. Len(users)
  BY SeesFit
<1>2. /\ rpc' \in [Worker -> CallRow] /\ view' \in [Worker -> (0 .. Len(users)) \cup {None}]
      /\ rpc'[w] = c
      /\ \A x \in Worker \ {w} : rpc'[x] = rpc[x] /\ view'[x] = view[x]
  BY <1>1 DEF CallsFit, CallRow, Goes, Opened
<1>3. \A x \in Worker \ {w} : x \in refused => x \in refused'
  BY DEF Goes
<1>4. User' = User /\ Len(users') = Len(users)
  BY DEF User
<1>5. \A x \in Worker : rpc'[x].op = "create" => rpc'[x].profile \in Profile
  BY <1>2 DEF CallsFit
<1>6. \A x \in Worker : rpc'[x].op \in {"delete", "vm"} => rpc'[x].user \in User'
  BY <1>2, <1>4 DEF CallsFit
<1>7. \A x \in Worker : rpc'[x].op = "none" /\ view'[x] # None => x \in refused'
  BY <1>2, <1>3 DEF CallsFit
<1> QED BY <1>2, <1>4, <1>5, <1>6, <1>7 DEF CallsFit, CallRow

LEMMA CallRefused ==
    ASSUME UsersFit, CallsFit, NEW w \in Worker, NEW n \in Sees(w), Opened(w, n),
           NEW b, Refuse(w, b), users' = users
    PROVE  CallsFit'
<1>1. n \in 0 .. Len(users)
  BY SeesFit
<1>2. /\ rpc' = rpc /\ view' \in [Worker -> (0 .. Len(users)) \cup {None}]
      /\ \A x \in Worker \ {w} : view'[x] = view[x]
  BY <1>1 DEF CallsFit, Opened, Refuse
<1>3. refused \subseteq refused' /\ w \in refused'
  BY DEF Refuse
<1>4. User' = User /\ Len(users') = Len(users)
  BY DEF User
<1>7. \A x \in Worker : rpc'[x].op = "none" /\ view'[x] # None => x \in refused'
  BY <1>2, <1>3 DEF CallsFit
<1> QED BY <1>2, <1>4, <1>7 DEF CallsFit

LEMMA CallEnds ==
    ASSUME UsersFit, CallsFit, Evolve, UsersFit', NEW w \in Worker, Closed(w), UNCHANGED refused
    PROVE  CallsFit'
<1>1. NoCall \in CallRow /\ NoCall.op = "none"
  BY DEF NoCall, CallRow
<1>2. /\ rpc' \in [Worker -> CallRow] /\ view' \in [Worker -> (0 .. Len(users)) \cup {None}]
      /\ rpc'[w].op = "none" /\ view'[w] = None
      /\ \A x \in Worker \ {w} : rpc'[x] = rpc[x] /\ view'[x] = view[x]
  BY <1>1 DEF CallsFit, CallRow, Closed
<1>3. User \subseteq User' /\ Len(users) \in Nat /\ Len(users') \in Nat /\ Len(users) <= Len(users')
  BY UserFits DEF Evolve, UsersFit
<1>4. view' \in [Worker -> (0 .. Len(users')) \cup {None}]
  BY <1>2, <1>3
<1>5. \A x \in Worker : rpc'[x].op = "create" => rpc'[x].profile \in Profile
  BY <1>2 DEF CallsFit
<1>6. \A x \in Worker : rpc'[x].op \in {"delete", "vm"} => rpc'[x].user \in User'
  BY <1>2, <1>3 DEF CallsFit
<1>7. \A x \in Worker : rpc'[x].op = "none" /\ view'[x] # None => x \in refused'
  BY <1>2 DEF CallsFit
<1> QED BY <1>2, <1>4, <1>5, <1>6, <1>7 DEF CallsFit, CallRow

LEMMA CallsNext ==
    ASSUME UsersFit, CallsFit, Evolve, UsersFit', [Next]_vars
    PROVE  CallsFit'
<1>1. CASE UNCHANGED <<users, rpc, view, refused>>
  BY <1>1 DEF CallsFit, User
<1>2. CASE UNCHANGED vars
  BY <1>1, <1>2 DEF vars, rows, server
<1>3. CASE \E w \in Worker : Servants(w)
  <2>0. PICK w \in Worker : Servants(w) BY <1>3
  <2>1. CASE \E p \in Profile : CreateUser(w, p)
    <3>1. PICK p \in Profile : CreateUser(w, p) BY <2>1
    <3>2. PICK n \in Sees(w) :
             /\ Opened(w, n)
             /\ Refuse(w, FALSE) \/ Goes(w, [op |-> "create", user |-> 0, profile |-> p])
      BY <3>1 DEF CreateUser
    <3>3. users' = users BY <3>1 DEF CreateUser, rows
    <3>4. CASE Refuse(w, FALSE) BY <3>2, <3>3, <3>4, CallRefused
    <3>5. CASE Goes(w, [op |-> "create", user |-> 0, profile |-> p])
      <4> DEFINE c == [op |-> "create", user |-> 0, profile |-> p]
      <4>1. c \in CallRow /\ c.op = "create" /\ c.profile \in Profile BY DEF CallRow
      <4> HIDE DEF c
      <4>2. Goes(w, c) BY <3>5 DEF c
      <4> QED BY <3>2, <3>3, <4>1, <4>2, CallGoes
    <3> QED BY <3>2, <3>4, <3>5
  <2>2. CASE \E name \in Name : DeleteUser(w, name)
    <3>1. PICK name \in Name : DeleteUser(w, name) BY <2>2
    <3>2. users' = users BY <3>1 DEF DeleteUser, rows
    <3>3. PICK n \in Sees(w) :
             /\ Opened(w, n)
             /\ \/ \E u \in 1 .. n : Goes(w, [op |-> "delete", user |-> u, profile |-> None])
                \/ Refuse(w, \E u \in User : users[u].name = name)
      BY <3>1 DEF DeleteUser
    <3>4. CASE Refuse(w, \E u \in User : users[u].name = name) BY <3>2, <3>3, <3>4, CallRefused
    <3>5. CASE \E u \in 1 .. n : Goes(w, [op |-> "delete", user |-> u, profile |-> None])
      <4>1. PICK u \in 1 .. n : Goes(w, [op |-> "delete", user |-> u, profile |-> None]) BY <3>5
      <4>2. n \in 0 .. Len(users) BY SeesFit
      <4>3. u \in User /\ u \in Nat BY <4>2, UserFits DEF UsersFit
      <4> DEFINE c == [op |-> "delete", user |-> u, profile |-> None]
      <4>4. c \in CallRow /\ c.op = "delete" /\ c.user \in User BY <4>3 DEF CallRow
      <4> HIDE DEF c
      <4>5. Goes(w, c) BY <4>1 DEF c
      <4> QED BY <3>2, <3>3, <4>4, <4>5, CallGoes
    <3> QED BY <3>3, <3>4, <3>5
  <2>3. CASE \E miq \in Miq : CreateVm(w, miq)
    <3>1. PICK miq \in Miq : CreateVm(w, miq) BY <2>3
    <3>2. users' = users BY <3>1 DEF CreateVm, rows
    <3>3. PICK n \in Sees(w) :
             /\ Opened(w, n)
             /\ \/ \E u \in 1 .. n : Goes(w, [op |-> "vm", user |-> u, profile |-> None])
                \/ Refuse(w, \E u \in User : users[u].miq = miq)
      BY <3>1 DEF CreateVm
    <3>4. CASE Refuse(w, \E u \in User : users[u].miq = miq) BY <3>2, <3>3, <3>4, CallRefused
    <3>5. CASE \E u \in 1 .. n : Goes(w, [op |-> "vm", user |-> u, profile |-> None])
      <4>1. PICK u \in 1 .. n : Goes(w, [op |-> "vm", user |-> u, profile |-> None]) BY <3>5
      <4>2. n \in 0 .. Len(users) BY SeesFit
      <4>3. u \in User /\ u \in Nat BY <4>2, UserFits DEF UsersFit
      <4> DEFINE c == [op |-> "vm", user |-> u, profile |-> None]
      <4>4. c \in CallRow /\ c.op = "vm" /\ c.user \in User BY <4>3 DEF CallRow
      <4> HIDE DEF c
      <4>5. Goes(w, c) BY <4>1 DEF c
      <4> QED BY <3>2, <3>3, <4>4, <4>5, CallGoes
    <3> QED BY <3>3, <3>4, <3>5
  <2>4. CASE DeleteVm(w)
    BY <1>1, <2>4 DEF DeleteVm, rows
  <2>5. CASE InsertUser(w) \/ Deactivate(w) \/ InsertVm(w) \/ SaveFails(w)
    <3>1. Closed(w) /\ UNCHANGED refused BY <2>5 DEF InsertUser, Deactivate, InsertVm, SaveFails
    <3> QED BY <3>1, CallEnds
  <2> QED BY <2>0, <2>1, <2>2, <2>3, <2>4, <2>5 DEF Servants
<1>4. CASE \E t \in Thread : Sessions(t)
  BY <1>1, <1>4 DEF Sessions, LoadLogin, LoadRefresh, Login, Refresh, rows, server
<1>5. CASE \E tok \in tokens : UserReads(tok) \/ VmReads(tok)
  <2>1. PICK tok \in tokens : UserReads(tok) \/ VmReads(tok) BY <1>5
  <2>2. UNCHANGED <<rows, server>>
    BY <2>1 DEF UserReads, VmReads, Statistic, NoEffect, ListPage
  <2> QED BY <1>1, <2>2 DEF rows, server
<1>6. CASE StoragesChange \/ CountPage \/ Tick
  BY <1>1, <1>6 DEF StoragesChange, CountPage, Tick, rows, server
<1> QED BY <1>2, <1>3, <1>4, <1>5, <1>6 DEF Next

-----------------------------------------------------------------------------
(* Answers.                                                                *)

AnswersFit ==
    /\ made = [n \in Name |-> IF \E u \in User : users[u].name = n THEN 1 ELSE 0]
    /\ deleted \subseteq User
    /\ \A u \in deleted \ unsaved : ~ users[u].active

LEMMA AnswersNext ==
    ASSUME UsersFit, CallsFit, AnswersFit, Evolve, UsersFit', [Next]_vars
    PROVE  AnswersFit'
<1>1. CASE UNCHANGED <<users, made, deleted, unsaved>>
  BY <1>1 DEF AnswersFit, User
<1>2. CASE UNCHANGED vars
  BY <1>1, <1>2 DEF vars, rows, server
<1>3. ASSUME NEW w \in Worker, InsertUser(w) PROVE AnswersFit'
  <2> DEFINE p == rpc[w].profile
  <2>1. CASE ~ Unique(p)
    BY <1>1, <1>3, <2>1 DEF InsertUser
  <2>2. CASE Unique(p)
    <3>1. users' = Append(users, Row(p)) /\ made' = [made EXCEPT ![p.name] = @ + 1]
      BY <1>3, <2>2 DEF InsertUser
    <3>2. p \in Profile BY <1>3 DEF CallsFit, InsertUser
    <3>3. UNCHANGED <<deleted, unsaved>> BY <1>3 DEF InsertUser
    <3>4. \A u \in User : users[u].name # p.name BY <2>2 DEF Unique
    <3> HIDE DEF p
    <3>5. p.name \in Name BY <3>2, AccountsAssumption
    <3>6. Row(p).name = p.name BY <3>2, RowFits DEF UsersFit
    <3>7. /\ Len(users) \in Nat /\ User = 1 .. Len(users) /\ User' = 1 .. Len(users) + 1
          /\ \A u \in User : users'[u] = users[u]
          /\ users'[Len(users) + 1] = Row(p)
      <4>1. users \in Seq(UserRow) /\ Row(p) \in UserRow BY <3>2, RowFits DEF UsersFit
      <4> QED BY <3>1, <4>1, UserFits DEF User
    <3>8. ASSUME NEW n \in Name
          PROVE  (\E u \in User' : users'[u].name = n) <=> (\E u \in User : users[u].name = n) \/ n = p.name
      BY <3>6, <3>7
    <3>9. made' = [n \in Name |-> IF \E u \in User' : users'[u].name = n THEN 1 ELSE 0]
      <4>1. DOMAIN made = Name /\ made[p.name] = 0 BY <3>4, <3>5 DEF AnswersFit
      <4>2. \A n \in Name : made'[n] = IF n = p.name THEN 1 ELSE made[n] BY <3>1, <3>5, <4>1
      <4>3. \A n \in Name : made'[n] = IF \E u \in User' : users'[u].name = n THEN 1 ELSE 0
        BY <3>8, <4>2 DEF AnswersFit
      <4>4. made' = [n \in Name |-> made'[n]] BY <3>1, <4>1
      <4> QED BY <4>3, <4>4
    <3>10. deleted' \subseteq User' /\ \A u \in deleted' \ unsaved' : ~ users'[u].active
      BY <3>3, <3>7 DEF AnswersFit
    <3> QED BY <3>9, <3>10 DEF AnswersFit
  <2> QED BY <2>1, <2>2
<1>4. ASSUME NEW w \in Worker, Deactivate(w) PROVE AnswersFit'
  <2> DEFINE k == rpc[w].user
  <2>1. k \in User /\ users' = [users EXCEPT ![k].active = FALSE, ![k].gone = IF users[k].active THEN clock ELSE @]
    BY <1>4 DEF CallsFit, Deactivate
  <2>2. deleted' = deleted \cup {k} /\ UNCHANGED <<made, unsaved>> BY <1>4 DEF Deactivate
  <2> HIDE DEF k
  <2>3. User' = User BY <2>1 DEF User
  <2>4. users'[k].active = FALSE
    <3>1. users[k] \in UserRow BY <2>1, UserFits DEF UsersFit
    <3>2. users'[k] = [users[k] EXCEPT !.active = FALSE, !.gone = IF users[k].active THEN clock ELSE users[k].gone]
      BY <2>1 DEF User, UsersFit
    <3> QED BY <3>1, <3>2 DEF UserRow
  <2>5. \A u \in User : users'[u].name = users[u].name /\ (~ users[u].active => ~ users'[u].active)
    BY DEF Evolve
  <2>6. made' = [n \in Name |-> IF \E u \in User' : users'[u].name = n THEN 1 ELSE 0]
    <3>1. \A n \in Name : (\E u \in User' : users'[u].name = n) <=> \E u \in User : users[u].name = n
      BY <2>3, <2>5
    <3> QED BY <2>2, <3>1 DEF AnswersFit
  <2>7. deleted' \subseteq User' /\ \A u \in deleted' \ unsaved' : ~ users'[u].active
    BY <2>1, <2>2, <2>3, <2>4, <2>5 DEF AnswersFit
  <2> QED BY <2>6, <2>7 DEF AnswersFit
<1>5. ASSUME NEW w \in Worker, SaveFails(w) PROVE AnswersFit'
  <2>1. UNCHANGED <<users, made>> BY <1>5 DEF SaveFails, rows
  <2>2. PICK U \in SUBSET User : deleted' = deleted \cup U /\ unsaved' = unsaved \cup U
    <3>1. (IF rpc[w].op = "delete" THEN {rpc[w].user} ELSE {}) \in SUBSET User BY DEF CallsFit
    <3> QED BY <1>5, <3>1 DEF SaveFails
  <2> QED BY <2>1, <2>2 DEF AnswersFit, User
<1>6. CASE \E w \in Worker : Servants(w)
  BY <1>1, <1>3, <1>4, <1>5, <1>6 DEF Servants, CreateUser, DeleteUser, CreateVm, DeleteVm, InsertVm, rows
<1>7. CASE \E t \in Thread : Sessions(t)
  BY <1>1, <1>7 DEF Sessions, LoadLogin, LoadRefresh, Login, Refresh, rows, server
<1>8. CASE \E tok \in tokens : UserReads(tok) \/ VmReads(tok)
  <2>1. PICK tok \in tokens : UserReads(tok) \/ VmReads(tok) BY <1>8
  <2>2. UNCHANGED <<rows, server>>
    BY <2>1 DEF UserReads, VmReads, Statistic, NoEffect, ListPage
  <2> QED BY <1>1, <2>2 DEF rows, server
<1>9. CASE StoragesChange \/ CountPage \/ Tick
  BY <1>1, <1>9 DEF StoragesChange, CountPage, Tick, rows, server
<1> QED BY <1>2, <1>6, <1>7, <1>8, <1>9 DEF Next

-----------------------------------------------------------------------------
(* Sessions.                                                               *)

WebRow == [op : {"none", "login", "refresh"}, user : Nat, target : Nat, active : BOOLEAN, begun : Nat]

\* A token was asked for before its user was locked.
TokenFits(tok) ==
    /\ tok \in [user : User, exp : Nat \cup {None}, begun : 0 .. clock]
    /\ users[tok.user].gone # None => tok.begun <= users[tok.user].gone

\* A request is for its own user, and began before he was locked if it saw him
\* active.
RequestFits(q) ==
    /\ q \in WebRow
    /\ q.op # "none" =>
          /\ q.target \in User /\ q.user = q.target /\ q.begun <= clock
          /\ q.active /\ users[q.target].gone # None => q.begun <= users[q.target].gone

SessionsFit ==
    /\ \A tok \in tokens : TokenFits(tok)
    /\ web \in [Thread -> WebRow]
    /\ \A t \in Thread : RequestFits(web[t])

LEMMA TokenStays ==
    ASSUME UsersFit, Evolve, NEW tok, TokenFits(tok)
    PROVE  TokenFits(tok)'
<1>1. tok.user \in User /\ tok.exp \in Nat \cup {None} /\ tok.begun \in 0 .. clock
  BY DEF TokenFits
<1>2. clock \in Nat /\ clock' \in Nat /\ clock <= clock' /\ tok.user \in User'
  BY <1>1 DEF UsersFit, Evolve
<1>3. tok.begun \in 0 .. clock' /\ tok.begun <= clock
  BY <1>1, <1>2
<1>4. tok \in [user : User', exp : Nat \cup {None}, begun : 0 .. clock']
  BY <1>1, <1>2, <1>3 DEF TokenFits
<1>5. \/ users'[tok.user].gone = users[tok.user].gone
      \/ users[tok.user].gone = None /\ users'[tok.user].gone = clock
  BY <1>1 DEF Evolve
<1>6. users'[tok.user].gone # None => tok.begun <= users'[tok.user].gone
  BY <1>3, <1>5 DEF TokenFits
<1> QED BY <1>4, <1>6 DEF TokenFits

LEMMA RequestStays ==
    ASSUME UsersFit, Evolve, NEW q, RequestFits(q)
    PROVE  RequestFits(q)'
<1> SUFFICES ASSUME q.op # "none"
             PROVE  /\ q.target \in User' /\ q.user = q.target /\ q.begun <= clock'
                    /\ q.active /\ users'[q.target].gone # None => q.begun <= users'[q.target].gone
  BY DEF RequestFits
<1>1. q.target \in User /\ q.user = q.target /\ q.begun <= clock /\ q.begun \in Nat
  BY DEF RequestFits, WebRow
<1>2. clock \in Nat /\ clock' \in Nat /\ clock <= clock' /\ q.target \in User'
  BY <1>1 DEF UsersFit, Evolve
<1>3. q.begun <= clock'
  BY <1>1, <1>2
<1>4. \/ users'[q.target].gone = users[q.target].gone
      \/ users[q.target].gone = None /\ users'[q.target].gone = clock
  BY <1>1 DEF Evolve
<1>5. q.active /\ users'[q.target].gone # None => q.begun <= users'[q.target].gone
  BY <1>1, <1>4 DEF RequestFits
<1> QED BY <1>1, <1>2, <1>3, <1>5

\* A step that adds at most one token and changes at most one request.
LEMMA SessionsChange ==
    ASSUME UsersFit, SessionsFit, Evolve,
           \A tok \in tokens' \ tokens : TokenFits(tok)',
           NEW t \in Thread, NEW q, RequestFits(q)', web' = web \/ web' = [web EXCEPT ![t] = q]
    PROVE  SessionsFit'
<1>1. \A tok \in tokens' : TokenFits(tok)'
  <2> SUFFICES ASSUME NEW tok \in tokens' PROVE TokenFits(tok)'
    OBVIOUS
  <2>1. CASE tok \notin tokens BY <2>1
  <2>2. CASE tok \in tokens BY <2>2, TokenStays DEF SessionsFit
  <2> QED BY <2>1, <2>2
<1>2. q \in WebRow
  BY DEF RequestFits
<1>3. web' \in [Thread -> WebRow] /\ \A x \in Thread : web'[x] = web[x] \/ web'[x] = q
  BY <1>2 DEF SessionsFit
<1>4. \A x \in Thread : RequestFits(web[x])'
  <2> SUFFICES ASSUME NEW x \in Thread PROVE RequestFits(web[x])'
    OBVIOUS
  <2>1. PICK r : r = web'[x] /\ (r = web[x] \/ r = q) BY <1>3
  <2>2. RequestFits(r)'
    BY <2>1, RequestStays DEF SessionsFit
  <2> QED BY <2>1, <2>2 DEF RequestFits
<1> QED BY <1>1, <1>3, <1>4 DEF SessionsFit

LEMMA NoRequestFits == RequestFits(NoRequest)'
  BY DEF RequestFits, NoRequest, WebRow

\* Without a name, a request is for its own user.
LEMMA OwnTarget ==
    ASSUME UsersFit, NEW u
    PROVE  Target(u, None) = u
<1>1. \A v \in User : users[v].name # None
  BY AccountsAssumption, UserFits DEF UsersFit
<1> QED BY <1>1 DEF Target

LEMMA SessionsNext ==
    ASSUME UsersFit, SessionsFit, Evolve, UsersFit', [Next]_vars
    PROVE  SessionsFit'
<1>1. CASE UNCHANGED <<tokens, web>>
  <2>1. \A tok \in tokens' : TokenFits(tok)'
    BY <1>1, TokenStays DEF SessionsFit
  <2>2. \A x \in Thread : RequestFits(web[x])'
    <3> SUFFICES ASSUME NEW x \in Thread PROVE RequestFits(web[x])'
      OBVIOUS
    <3>1. PICK r : r = web[x] /\ r = web'[x] BY <1>1
    <3>2. RequestFits(r)' BY <3>1, RequestStays DEF SessionsFit
    <3> QED BY <3>1, <3>2 DEF RequestFits
  <2> QED BY <1>1, <2>1, <2>2 DEF SessionsFit
<1>2. CASE UNCHANGED vars
  BY <1>1, <1>2 DEF vars, client, session
<1>3. CASE \E w \in Worker : Servants(w)
  BY <1>1, <1>3
  DEF Servants, CreateUser, InsertUser, DeleteUser, Deactivate, CreateVm, DeleteVm, InsertVm, SaveFails, client, session
<1>4. ASSUME NEW t \in Thread, NEW u \in User, LoadLogin(t, u) PROVE SessionsFit'
  <2>0. PICK q : q = [op |-> "login", user |-> u, target |-> u, active |-> users[u].active, begun |-> clock]
    OBVIOUS
  <2>1. web' = [web EXCEPT ![t] = q] /\ tokens' = tokens /\ users' = users /\ clock' = clock
    BY <1>4, <2>0 DEF LoadLogin, Ask, rows
  <2>2. u \in Nat /\ users[u].active \in BOOLEAN /\ clock \in Nat
    BY UserFits DEF UsersFit
  <2>3. q \in WebRow /\ q.user = u /\ q.target = u /\ q.active = users[u].active /\ q.begun = clock
    BY <2>0, <2>2 DEF WebRow
  <2>4. users[u].active => users[u].gone = None
    BY DEF UsersFit
  <2>5. RequestFits(q)
    BY <2>2, <2>3, <2>4 DEF RequestFits
  <2>6. RequestFits(q)'
    BY <2>5, RequestStays
  <2>7. \A x \in tokens' \ tokens : TokenFits(x)'
    BY <2>1
  <2> QED BY <2>1, <2>6, <2>7, SessionsChange
<1>5. ASSUME NEW t \in Thread, NEW tok \in tokens, NEW name \in Name \cup {None}, LoadRefresh(t, tok, name)
      PROVE  SessionsFit'
  <2> DEFINE u == tok.user
  <2>0. PICK q : q = [op |-> "refresh", user |-> u, target |-> u, active |-> users[u].active, begun |-> clock]
    OBVIOUS
  <2>1. u \in User BY DEF SessionsFit, TokenFits
  <2>2. name = None BY <1>5 DEF LoadRefresh, Authorised, Args
  <2>3. Target(u, name) = u BY <2>2, OwnTarget
  <2>4. web' = [web EXCEPT ![t] = q] /\ tokens' = tokens /\ users' = users /\ clock' = clock
    BY <1>5, <2>0, <2>3 DEF LoadRefresh, Ask, rows
  <2> HIDE DEF u
  <2>5. u \in Nat /\ users[u].active \in BOOLEAN /\ clock \in Nat
    BY <2>1, UserFits DEF UsersFit
  <2>6. q \in WebRow /\ q.user = u /\ q.target = u /\ q.active = users[u].active /\ q.begun = clock
    BY <2>0, <2>5 DEF WebRow
  <2>7. users[u].active => users[u].gone = None
    BY <2>1 DEF UsersFit
  <2>8. RequestFits(q)
    BY <2>1, <2>5, <2>6, <2>7 DEF RequestFits
  <2>9. RequestFits(q)'
    BY <2>8, RequestStays
  <2>10. \A x \in tokens' \ tokens : TokenFits(x)'
    BY <2>4
  <2> QED BY <2>4, <2>9, <2>10, SessionsChange
<1>6. ASSUME NEW t \in Thread, NEW life \in Nat, web[t].op # "none", web[t].active,
             tokens' = tokens \cup {GenToken(web[t].target, life, web[t].begun)},
             Done(t), UNCHANGED <<users, clock>>
      PROVE  SessionsFit'
  <2>1. PICK tok : tok = GenToken(web[t].target, life, web[t].begun) OBVIOUS
  <2>2. web[t].target \in User /\ web[t].begun \in 0 .. clock /\ clock \in Nat
    BY <1>6 DEF SessionsFit, RequestFits, WebRow, UsersFit
  <2>3. tok \in [user : User, exp : Nat \cup {None}, begun : 0 .. clock] /\ tok.user = web[t].target /\ tok.begun = web[t].begun
    BY <2>1, <2>2 DEF GenToken
  <2>4. TokenFits(tok)
    BY <1>6, <2>3 DEF TokenFits, SessionsFit, RequestFits
  <2>5. TokenFits(tok)'
    BY <2>4, TokenStays
  <2>6. \A x \in tokens' \ tokens : TokenFits(x)'
    BY <1>6, <2>1, <2>5
  <2>7. web' = [web EXCEPT ![t] = NoRequest]
    BY <1>6 DEF Done
  <2> QED BY <2>6, <2>7, NoRequestFits, SessionsChange
<1>7. ASSUME NEW t \in Thread, tokens' = tokens, Done(t) PROVE SessionsFit'
  BY <1>7, NoRequestFits, SessionsChange DEF Done
<1>8. LoginLife \in Nat /\ RefreshLife \in Nat
  BY AccountsAssumption
<1>9. ASSUME NEW t \in Thread, Login(t) PROVE SessionsFit'
  <2>1. Done(t) /\ UNCHANGED <<users, clock>> /\ web[t].op # "none" BY <1>9 DEF Login, rows
  <2>2. CASE MayLogin(web[t])
    <3>1. web[t].active /\ tokens' = tokens \cup {GenToken(web[t].target, LoginLife, web[t].begun)}
      BY <1>9, <2>2 DEF Login, MayLogin
    <3> QED BY <1>6, <1>8, <2>1, <3>1
  <2>3. CASE ~ MayLogin(web[t])
    <3>1. tokens' = tokens BY <1>9, <2>3 DEF Login
    <3> QED BY <1>7, <2>1, <3>1
  <2> QED BY <2>2, <2>3
<1>10. ASSUME NEW t \in Thread, Refresh(t) PROVE SessionsFit'
  <2>1. Done(t) /\ UNCHANGED <<users, clock>> /\ web[t].op # "none" BY <1>10 DEF Refresh, rows
  <2>2. web[t].user = web[t].target BY <2>1 DEF SessionsFit, RequestFits
  <2>3. CASE CheckUser(web[t])
    <3>1. web[t].active /\ tokens' = tokens \cup {GenToken(web[t].target, RefreshLife, web[t].begun)}
      BY <1>10, <2>2, <2>3 DEF Refresh, CheckUser
    <3> QED BY <1>6, <1>8, <2>1, <3>1
  <2>4. CASE ~ CheckUser(web[t])
    <3>1. tokens' = tokens BY <1>10, <2>4 DEF Refresh
    <3> QED BY <1>7, <2>1, <3>1
  <2> QED BY <2>3, <2>4
<1>11. CASE \E t \in Thread : Sessions(t)
  BY <1>4, <1>5, <1>9, <1>10, <1>11 DEF Sessions
<1>12. CASE \E tok \in tokens : UserReads(tok) \/ VmReads(tok)
  <2>1. PICK tok \in tokens : UserReads(tok) \/ VmReads(tok) BY <1>12
  <2>2. UNCHANGED <<tokens, web>>
    BY <2>1 DEF UserReads, VmReads, Statistic, NoEffect, ListPage
  <2> QED BY <1>1, <2>2
<1>13. CASE StoragesChange \/ CountPage \/ Tick
  BY <1>1, <1>13 DEF StoragesChange, CountPage, Tick, client, session
<1> QED BY <1>2, <1>3, <1>11, <1>12, <1>13 DEF Next

-----------------------------------------------------------------------------
(* Tables and their lists.                                                 *)

TablesFit == vms \in Seq(User) /\ storages \subseteq User

LEMMA SeqOfMore ==
    ASSUME NEW S, NEW T, S \subseteq T, NEW s \in Seq(S)
    PROVE  s \in Seq(T)
  OBVIOUS

LEMMA TablesNext ==
    ASSUME UsersFit, CallsFit, TablesFit, Evolve, UsersFit', [Next]_vars
    PROVE  TablesFit'
<1>0. User \subseteq User'
  BY DEF Evolve
<1>1. vms \in Seq(User') /\ storages \subseteq User'
  BY <1>0, SeqOfMore DEF TablesFit
<1>2. CASE UNCHANGED <<vms, storages>>
  BY <1>1, <1>2 DEF TablesFit
<1>3. CASE UNCHANGED vars
  BY <1>2, <1>3 DEF vars, rows
<1>4. ASSUME NEW w \in Worker, InsertVm(w) PROVE TablesFit'
  <2>1. rpc[w].user \in User /\ vms' = Append(vms, rpc[w].user) /\ storages' = storages
    BY <1>4 DEF CallsFit, InsertVm
  <2>2. vms' \in Seq(User') BY <1>0, <1>1, <2>1
  <2> QED BY <1>1, <2>1, <2>2 DEF TablesFit
<1>5. CASE \E w \in Worker : Servants(w)
  BY <1>2, <1>4, <1>5
  DEF Servants, CreateUser, InsertUser, DeleteUser, Deactivate, CreateVm, DeleteVm, SaveFails, rows
<1>6. CASE \E t \in Thread : Sessions(t)
  BY <1>2, <1>6 DEF Sessions, LoadLogin, LoadRefresh, Login, Refresh, rows
<1>7. CASE \E tok \in tokens : UserReads(tok) \/ VmReads(tok)
  <2>1. PICK tok \in tokens : UserReads(tok) \/ VmReads(tok) BY <1>7
  <2>2. UNCHANGED rows
    BY <2>1 DEF UserReads, VmReads, Statistic, NoEffect, ListPage
  <2> QED BY <1>2, <2>2 DEF rows
<1>8. CASE CountPage \/ Tick
  BY <1>2, <1>8 DEF CountPage, Tick, rows
<1>9. CASE StoragesChange
  <2>1. vms' = vms /\ \E u \in User : storages' \in {storages, storages \cup {u}, storages \ {u}}
    BY <1>9 DEF StoragesChange
  <2> QED BY <1>0, <1>1, <2>1 DEF TablesFit
<1> QED BY <1>3, <1>5, <1>6, <1>7, <1>8, <1>9 DEF Next

\* The rows a list of u takes its own from.
Source(what, u) ==
    IF what = "users" THEN User ELSE IF what = "storages" THEN storages ELSE ListedVms(u)

LEMMA ListedFits ==
    ASSUME UsersFit, TablesFit, NEW what \in {"users", "storages", "vms"}, NEW u, NEW name
    PROVE  /\ Listed(what, u, name) \subseteq Source(what, u) /\ Source(what, u) \subseteq Nat
           /\ IsFiniteSet(Listed(what, u, name))
<1>1. User = 1 .. Len(users) /\ Len(users) \in Nat
  BY UserFits DEF UsersFit
<1>2. DOMAIN vms = 1 .. Len(vms) /\ Len(vms) \in Nat
  BY DEF TablesFit
<1>3. IsFiniteSet(User) /\ IsFiniteSet(DOMAIN vms) /\ User \subseteq Nat /\ DOMAIN vms \subseteq Nat
  <2>1. IsFiniteSet(1 .. Len(users)) BY <1>1, FS_Interval
  <2>2. IsFiniteSet(1 .. Len(vms)) BY <1>2, FS_Interval
  <2> QED BY <1>1, <1>2, <2>1, <2>2
<1>4. /\ ListedUsers(name) \subseteq User /\ ListedStorages(name) \subseteq storages
      /\ storages \subseteq User /\ ListedVms(u) \subseteq DOMAIN vms
  BY DEF ListedUsers, ListedStorages, ListedVms, TablesFit
<1>5. Listed(what, u, name) \subseteq Source(what, u) /\ Source(what, u) \subseteq Nat
  BY <1>3, <1>4 DEF Listed, Source
<1>6. Listed(what, u, name) \in SUBSET User \/ Listed(what, u, name) \in SUBSET DOMAIN vms
  BY <1>4 DEF Listed
<1> QED BY <1>3, <1>5, <1>6, FS_Subset

\* What a list takes its rows from grows, but for the storages.
LEMMA SourceGrows ==
    ASSUME UsersFit, TablesFit, Evolve, NEW u \in User, NEW what,
           vms' = vms \/ \E x : vms' = Append(vms, x),
           what = "storages" => storages \subseteq storages'
    PROVE  Source(what, u) \subseteq Source(what, u)'
<1>1. User \subseteq User' /\ users'[u].role = users[u].role
  BY DEF Evolve
<1>2. IsAdmin(u)' <=> IsAdmin(u)
  BY <1>1 DEF IsAdmin
<1>3. \A i \in DOMAIN vms : i \in DOMAIN vms' /\ vms'[i] = vms[i]
  <2>1. CASE vms' = vms BY <2>1
  <2>2. CASE \E x : vms' = Append(vms, x)
    <3>1. PICK x : vms' = Append(vms, x) BY <2>2
    <3>2. Len(vms') = Len(vms) + 1 /\ DOMAIN vms' = 1 .. Len(vms) + 1 /\ DOMAIN vms = 1 .. Len(vms)
          /\ Len(vms) \in Nat /\ \A i \in 1 .. Len(vms) : vms'[i] = vms[i]
      BY <3>1 DEF TablesFit
    <3> QED BY <3>2
  <2> QED BY <2>1, <2>2
<1>4. ListedVms(u) \subseteq ListedVms(u)'
  BY <1>2, <1>3 DEF ListedVms
<1> QED BY <1>1, <1>4 DEF Source

-----------------------------------------------------------------------------
(* A client that reads a list.                                             *)

WalkRow == [what : {"none", "users", "storages", "vms"}, by : Nat, name : Name \cup {None}, next : Nat,
            counts : BOOLEAN, order : Seq(Nat), seen : Seq(Nat), had : SUBSET Nat, left : Nat, came : Nat]

\* A client that is at a page has read rows, and rows are before him.
Ahead(q) == After(q.order, (q.next - 1) * PageSize)
Halfway(q) ==
    /\ IsInjective(q.order)
    /\ Balance(q.had, Range(q.seen), Len(q.seen), Ahead(q), q.left, q.came)

WalkFits(q) ==
    /\ q \in WalkRow
    /\ q.what = "none" => q = NoWalk
    /\ q.what # "none" => q.by \in User
    /\ q.counts => q.what # "none" /\ q.next # 0
    /\ q.what # "none" /\ q.next # 0 => Halfway(q) /\ Range(q.order) \subseteq Source(q.what, q.by)
    /\ q.next = 0 => /\ Cardinality(q.had \ Range(q.seen)) <= q.left
                     /\ Len(q.seen) <= Cardinality(Range(q.seen)) + q.came

WalkFit == \E q \in {walk} : WalkFits(q)

\* r is what q is, but for the rows that went and came.
SameWalk(q, r) ==
    /\ r.what = q.what /\ r.by = q.by /\ r.name = q.name /\ r.next = q.next
    /\ r.counts = q.counts /\ r.seen = q.seen /\ r.had = q.had

LEMMA AfterWithout ==
    ASSUME NEW q \in WalkRow, q.next # 0, Halfway(q), NEW x, NEW r \in Without(q, x)
    PROVE  /\ r \in WalkRow /\ SameWalk(q, r) /\ Halfway(r)
           /\ Range(r.order) = Range(q.order) \ {x}
<1>1. PICK i \in DOMAIN q.order : q.order[i] = x /\ r = [q EXCEPT !.order = RemoveAt(q.order, i), !.left = q.left + 1]
  BY DEF Without
<1>2. PICK s : s = RemoveAt(q.order, i)
  OBVIOUS
<1>3. PICK b : b = (q.next - 1) * PageSize /\ b \in Nat
  <2>1. q.next - 1 \in Nat /\ PageSize \in Nat BY AccountsAssumption DEF WalkRow
  <2> QED BY <2>1
<1>4. PICK o : o = q.order /\ o \in Seq(Nat) /\ IsInjective(o)
  BY DEF WalkRow, Halfway
<1>5. /\ s \in Seq(Nat) /\ IsInjective(s) /\ Range(s) = Range(q.order) \ {x}
      /\ \E y : After(s, b) = After(q.order, b) \ {y}
  <2>1. i \in DOMAIN o /\ o[i] = x /\ s = RemoveAt(o, i) BY <1>1, <1>2, <1>4
  <2>2. /\ RemoveAt(o, i) \in Seq(Nat) /\ IsInjective(RemoveAt(o, i))
        /\ Range(RemoveAt(o, i)) = Range(o) \ {o[i]}
        /\ \E y : After(RemoveAt(o, i), b) = After(o, b) \ {y}
    <3>1. o \in Seq(Nat) /\ i \in DOMAIN o /\ IsInjective(o) /\ b \in Nat BY <1>3, <1>4, <2>1
    <3> QED BY <3>1, Removed
  <2> QED BY <1>4, <2>1, <2>2
<1>6. r = [q EXCEPT !.order = s, !.left = q.left + 1]
  BY <1>1, <1>2
<1>7. /\ r \in WalkRow /\ SameWalk(q, r) /\ r.order = s /\ r.left = q.left + 1 /\ r.came = q.came
  <2>1. q.left + 1 \in Nat BY DEF WalkRow
  <2>2. r \in WalkRow BY <1>5, <1>6, <2>1 DEF WalkRow
  <2>3. SameWalk(q, r) /\ r.order = s /\ r.left = q.left + 1 /\ r.came = q.came
    BY <1>6 DEF WalkRow, SameWalk
  <2> QED BY <2>2, <2>3
<1>8. Len(q.seen) \in Nat /\ q.left \in Nat /\ q.came \in Nat
  BY DEF WalkRow
<1>9. Balance(q.had, Range(q.seen), Len(q.seen), After(q.order, b), q.left, q.came)
  BY <1>3 DEF Halfway, Ahead
<1>10. Balance(q.had, Range(q.seen), Len(q.seen), After(s, b), q.left + 1, q.came)
  <2>1. PICK U : U = After(q.order, b) OBVIOUS
  <2>2. PICK y : After(s, b) = U \ {y} BY <1>5, <2>1
  <2>3. Balance(q.had, Range(q.seen), Len(q.seen), U, q.left, q.came) BY <1>9, <2>1
  <2>4. Balance(q.had, Range(q.seen), Len(q.seen), U \ {y}, q.left + 1, q.came)
    BY <1>8, <2>3, OneLess, Zenon
  <2> QED BY <2>2, <2>4
<1>11. Halfway(r)
  BY <1>3, <1>5, <1>7, <1>10 DEF Halfway, Ahead, SameWalk
<1> QED BY <1>5, <1>7, <1>11

LEMMA AfterWith ==
    ASSUME NEW q \in WalkRow, q.next # 0, Halfway(q), NEW x \in Nat, x \notin Range(q.order), NEW r \in With(q, x)
    PROVE  /\ r \in WalkRow /\ SameWalk(q, r) /\ Halfway(r)
           /\ Range(r.order) = Range(q.order) \cup {x}
<1>1. PICK i \in 1 .. Len(q.order) + 1 : r = [q EXCEPT !.order = InsertAt(q.order, i, x), !.came = q.came + 1]
  BY DEF With
<1>2. PICK next : next = InsertAt(q.order, i, x)
  OBVIOUS
<1>3. PICK b : b = (q.next - 1) * PageSize /\ b \in Nat
  <2>1. q.next - 1 \in Nat /\ PageSize \in Nat BY AccountsAssumption DEF WalkRow
  <2> QED BY <2>1
<1>4. PICK old : old = q.order /\ old \in Seq(Nat) /\ IsInjective(old)
  BY DEF WalkRow, Halfway
<1>5. /\ next \in Seq(Nat) /\ IsInjective(next) /\ Range(next) = Range(q.order) \cup {x}
      /\ \/ After(next, b) = After(q.order, b)
         \/ \E y : After(next, b) = After(q.order, b) \cup {y}
  <2>1. i \in 1 .. Len(old) + 1 /\ next = InsertAt(old, i, x) /\ x \notin Range(old) BY <1>1, <1>2, <1>4
  <2>2. /\ next \in Seq(Nat) /\ IsInjective(next) /\ Range(next) = Range(old) \cup {x}
        /\ After(next, b) \in {After(old, b), After(old, b) \cup {x}, After(old, b) \cup {old[b]}}
    <3>1. old \in Seq(Nat) /\ i \in 1 .. Len(old) + 1 /\ IsInjective(old) BY <1>4, <2>1
    <3>2. x \in Nat /\ x \notin Range(old) /\ b \in Nat BY <1>3, <2>1
    <3>3. next = InsertAt(old, i, x) BY <2>1
    <3>4. next \in Seq(Nat) BY <3>1, <3>2, <3>3, Inserted
    <3>5. IsInjective(next) BY <3>1, <3>2, <3>3, Inserted
    <3>6. Range(next) = Range(old) \cup {x} BY <3>1, <3>2, <3>3, Inserted
    <3>7. After(next, b) \in {After(old, b), After(old, b) \cup {x}, After(old, b) \cup {old[b]}}
      BY <3>1, <3>2, <3>3, Inserted
    <3> QED BY <3>4, <3>5, <3>6, <3>7
  <2> QED BY <1>4, <2>1, <2>2
<1>6. r = [q EXCEPT !.order = next, !.came = q.came + 1]
  BY <1>1, <1>2
<1>7. /\ r \in WalkRow /\ SameWalk(q, r) /\ r.order = next /\ r.came = q.came + 1 /\ r.left = q.left
  <2>1. q.came + 1 \in Nat BY DEF WalkRow
  <2>2. r \in WalkRow BY <1>5, <1>6, <2>1 DEF WalkRow
  <2>3. SameWalk(q, r) /\ r.order = next /\ r.came = q.came + 1 /\ r.left = q.left
    BY <1>6 DEF WalkRow, SameWalk
  <2> QED BY <2>2, <2>3
<1>8. Len(q.seen) \in Nat /\ q.left \in Nat /\ q.came \in Nat
  BY DEF WalkRow
<1>9. Balance(q.had, Range(q.seen), Len(q.seen), After(q.order, b), q.left, q.came)
  BY <1>3 DEF Halfway, Ahead
<1>10. Balance(q.had, Range(q.seen), Len(q.seen), After(next, b), q.left, q.came + 1)
  BY <1>5, <1>8, <1>9, OneMore
<1>11. Halfway(r)
  BY <1>3, <1>5, <1>7, <1>10 DEF Halfway, Ahead, SameWalk
<1> QED BY <1>5, <1>7, <1>11

LEMMA AfterMove ==
    ASSUME NEW q \in WalkRow, q.next # 0, Halfway(q), NEW x \in Range(q.order),
           NEW r \in UNION {With(p, x) : p \in Without(q, x)}
    PROVE  r \in WalkRow /\ SameWalk(q, r) /\ Halfway(r) /\ Range(r.order) = Range(q.order)
<1>1. PICK p \in Without(q, x) : r \in With(p, x)
  OBVIOUS
<1>2. x \in Nat
  BY DEF WalkRow, Range
<1>3. p \in WalkRow /\ SameWalk(q, p) /\ Halfway(p) /\ Range(p.order) = Range(q.order) \ {x}
  BY <1>1, AfterWithout
<1>4. p.next # 0 /\ x \notin Range(p.order)
  BY <1>3 DEF SameWalk
<1>5. r \in WalkRow /\ SameWalk(p, r) /\ Halfway(r) /\ Range(r.order) = Range(p.order) \cup {x}
  BY <1>1, <1>2, <1>3, <1>4, AfterWith
<1> QED BY <1>3, <1>5 DEF SameWalk

\* A step that changes the tables and at most the rows before a reader.
LEMMA WalkMoves ==
    ASSUME Evolve, WalkFit, NEW q, q = walk, NEW r, r = walk',
           r = q \/ (q.what # "none" /\ q.next # 0 /\ r \in WalkRow /\ SameWalk(q, r) /\ Halfway(r)),
           q.what # "none" /\ q.next # 0 => Range(r.order) \subseteq Source(q.what, q.by)'
    PROVE  WalkFit'
<1>0. WalkFits(q) BY DEF WalkFit
<1>1. /\ r \in WalkRow /\ r.what = q.what /\ r.by = q.by /\ r.next = q.next /\ r.counts = q.counts
      /\ r.seen = q.seen /\ r.had = q.had
  BY <1>0 DEF WalkFits, SameWalk
<1>2. r.what = "none" => r = NoWalk
  BY <1>0, <1>1 DEF WalkFits
<1>3. r.what # "none" => r.by \in User'
  BY <1>0, <1>1 DEF WalkFits, Evolve
<1>4. r.counts => r.what # "none" /\ r.next # 0
  BY <1>0, <1>1 DEF WalkFits
<1>5. r.what # "none" /\ r.next # 0 => Halfway(r) /\ Range(r.order) \subseteq Source(r.what, r.by)'
  BY <1>0, <1>1 DEF WalkFits
<1>6. r.next = 0 => /\ Cardinality(r.had \ Range(r.seen)) <= r.left
                    /\ Len(r.seen) <= Cardinality(Range(r.seen)) + r.came
  BY <1>0, <1>1 DEF WalkFits
<1>7. (\A q1 : q1 = r => Source(q1.what, q1.by)' = Source(r.what, r.by)') /\ WalkFits(r)'
  BY <1>1, <1>2, <1>3, <1>4, <1>5, <1>6 DEF WalkFits
<1> QED BY <1>7 DEF WalkFit

\* What a reader at a page knows.
LEMMA ReadingFits ==
    ASSUME WalkFit, NEW q, q = walk, q.what # "none", q.next # 0
    PROVE  /\ q \in WalkRow /\ Halfway(q) /\ q.by \in User
           /\ Range(q.order) \subseteq Source(q.what, q.by)
  BY DEF WalkFit, WalkFits

LEMMA WalkStays ==
    ASSUME UsersFit, TablesFit, Evolve, WalkFit, UNCHANGED walk,
           vms' = vms \/ \E x : vms' = Append(vms, x), storages \subseteq storages'
    PROVE  WalkFit'
<1>0. PICK q : q = walk OBVIOUS
<1>1. q.what # "none" /\ q.next # 0 => Range(q.order) \subseteq Source(q.what, q.by)'
  BY <1>0, ReadingFits, SourceGrows
<1> QED BY <1>1, <1>0, WalkMoves

LEMMA WalkAppears ==
    ASSUME UsersFit, TablesFit, Evolve, WalkFit,
           vms' = vms \/ \E x : vms' = Append(vms, x), storages \subseteq storages',
           NEW what \in {"users", "storages", "vms"}, NEW matches \in BOOLEAN, NEW x \in Nat,
           Appears(what, matches, x), NEW q, q = walk,
           x \notin Source(what, q.by),
           q.what = what /\ q.by \in User /\ matches => x \in Source(what, q.by)'
    PROVE  WalkFit'
<1>1. CASE Reading(what) /\ matches
  <2>1. q.what = what /\ q.what # "none" /\ q.next # 0 BY <1>1 DEF Reading
  <2>2. /\ q \in WalkRow /\ Halfway(q) /\ q.by \in User
        /\ Range(q.order) \subseteq Source(q.what, q.by)
    BY <2>1, ReadingFits
  <2>3. PICK r : r = walk' /\ r \in With(q, x) BY <1>1 DEF Appears
  <2>4. /\ r \in WalkRow /\ SameWalk(q, r) /\ Halfway(r) /\ Range(r.order) = Range(q.order) \cup {x}
    BY <2>1, <2>2, <2>3, AfterWith
  <2>5. Range(r.order) \subseteq Source(q.what, q.by)'
    <3>1. Source(q.what, q.by) \subseteq Source(q.what, q.by)' BY <2>2, SourceGrows
    <3>2. x \in Source(what, q.by)' BY <1>1, <2>1, <2>2
    <3>3. Source(what, q.by)' = Source(q.what, q.by)'
      BY <2>1 DEF Source
    <3> QED BY <2>2, <2>4, <3>1, <3>2, <3>3
  <2> QED BY <2>1, <2>3, <2>4, <2>5, WalkMoves
<1>2. CASE ~ (Reading(what) /\ matches)
  BY <1>2, WalkStays DEF Appears
<1> QED BY <1>1, <1>2

LEMMA WalkRowMoves ==
    ASSUME UsersFit, TablesFit, Evolve, WalkFit, vms' = vms, storages' = storages,
           NEW what \in {"users", "storages", "vms"}, NEW x, Moves(what, x)
    PROVE  WalkFit'
<1>0. PICK q : q = walk OBVIOUS
<1>1. CASE Reading(what) /\ x \in Range(q.order)
  <2>1. q.what # "none" /\ q.next # 0 BY <1>0, <1>1 DEF Reading
  <2>2. /\ q \in WalkRow /\ Halfway(q) /\ q.by \in User
        /\ Range(q.order) \subseteq Source(q.what, q.by)
    BY <2>1, <1>0, ReadingFits
  <2>3. PICK r : r = walk' /\ r \in UNION {With(p, x) : p \in Without(q, x)} BY <1>0, <1>1 DEF Moves
  <2>4. r \in WalkRow /\ SameWalk(q, r) /\ Halfway(r) /\ Range(r.order) = Range(q.order)
    BY <1>1, <2>1, <2>2, <2>3, AfterMove
  <2>5. Range(r.order) \subseteq Source(q.what, q.by)'
    <3>1. Source(q.what, q.by) \subseteq Source(q.what, q.by)' BY <2>2, SourceGrows
    <3> QED BY <2>2, <2>4, <3>1
  <2> QED BY <2>1, <2>3, <2>4, <2>5, <1>0, WalkMoves
<1>2. CASE ~ (Reading(what) /\ x \in Range(q.order))
  BY <1>0, <1>2, WalkStays DEF Moves
<1> QED BY <1>1, <1>2

LEMMA WalkVanishes ==
    ASSUME UsersFit, TablesFit, Evolve, WalkFit, vms' = vms, NEW x \in User, storages' = storages \ {x},
           Vanishes("storages", x)
    PROVE  WalkFit'
<1>0. PICK q : q = walk OBVIOUS
<1>1. CASE Reading("storages") /\ x \in Range(q.order)
  <2>1. q.what = "storages" /\ q.what # "none" /\ q.next # 0 BY <1>0, <1>1 DEF Reading
  <2>2. q \in WalkRow /\ Halfway(q) /\ Range(q.order) \subseteq storages
    BY <2>1, <1>0, ReadingFits DEF Source
  <2>3. PICK r : r = walk' /\ r \in Without(q, x) BY <1>0, <1>1 DEF Vanishes
  <2>4. r \in WalkRow /\ SameWalk(q, r) /\ Halfway(r) /\ Range(r.order) = Range(q.order) \ {x}
    BY <2>1, <2>2, <2>3, AfterWithout
  <2>5. Range(r.order) \subseteq Source(q.what, q.by)'
    BY <2>1, <2>2, <2>4 DEF Source
  <2> QED BY <2>1, <2>3, <2>4, <2>5, <1>0, WalkMoves
<1>2. CASE ~ (Reading("storages") /\ x \in Range(q.order))
  <2>1. walk' = walk BY <1>0, <1>2 DEF Vanishes
  <2>2. ASSUME q.what # "none", q.next # 0
        PROVE  Range(q.order) \subseteq Source(q.what, q.by)'
    <3>1. q.by \in User /\ Range(q.order) \subseteq Source(q.what, q.by) BY <2>2, <1>0, ReadingFits
    <3>2. CASE q.what = "storages"
      <4>1. x \notin Range(q.order) BY <1>0, <1>2, <2>2, <3>2 DEF Reading
      <4> QED BY <3>1, <3>2, <4>1 DEF Source
    <3>3. CASE q.what # "storages"
      <4>1. Source(q.what, q.by) \subseteq Source(q.what, q.by)' BY <3>1, <3>3, SourceGrows
      <4> QED BY <3>1, <4>1
    <3> QED BY <3>2, <3>3
  <2> QED BY <2>1, <2>2, <1>0, WalkMoves
<1> QED BY <1>1, <1>2

LEMMA OrderFits ==
    ASSUME NEW S \in SUBSET Nat, IsFiniteSet(S), NEW order \in SetToSeqs(S)
    PROVE  order \in Seq(Nat) /\ IsInjective(order) /\ Range(order) \subseteq S
<1>1. Cardinality(S) \in Nat
  BY FS_CardinalityType
<1>2. order \in [1 .. Cardinality(S) -> S] /\ \A i, j \in 1 .. Cardinality(S) : i # j => order[i] # order[j]
  BY DEF SetToSeqs
<1>3. DOMAIN order = 1 .. Cardinality(S)
  BY <1>2
<1>4. order \in Seq(Nat) /\ Len(order) = Cardinality(S)
  <2>1. order \in [1 .. Cardinality(S) -> Nat] BY <1>2
  <2> QED BY <1>1, <2>1
<1>5. IsInjective(order) /\ Range(order) \subseteq S
  BY <1>2, <1>3 DEF IsInjective, Range
<1> QED BY <1>4, <1>5

\* The order in which the rows of a page come.
LEMMA PageOrder ==
    ASSUME UsersFit, TablesFit, WalkFit, NEW u \in User,
           NEW what \in {"users", "storages", "vms"}, NEW name,
           walk.next # 0, walk.what = "none" \/ (walk.what = what /\ walk.by = u),
           NEW order \in IF walk.what = "none" THEN SetToSeqs(Listed(what, u, name)) ELSE {walk.order}
    PROVE  /\ order \in Seq(Nat) /\ IsInjective(order) /\ Range(order) \subseteq Source(what, u)
           /\ walk \in WalkRow /\ walk.next \in Nat \ {0}
           /\ Balance(IF walk.what = "none" THEN Range(order) ELSE walk.had, Range(walk.seen), Len(walk.seen),
                      After(order, (walk.next - 1) * PageSize), walk.left, walk.came)
<1>1. PICK q : q = walk /\ WalkFits(q) BY DEF WalkFit
<1>2. q \in WalkRow /\ q.next \in Nat \ {0}
  BY <1>1 DEF WalkFits, WalkRow
<1>3. CASE walk.what = "none"
  <2>1. order \in Seq(Nat) /\ IsInjective(order) /\ Range(order) \subseteq Source(what, u)
    <3>1. PICK S : S = Listed(what, u, name) OBVIOUS
    <3>2. S \in SUBSET Nat /\ IsFiniteSet(S) /\ S \subseteq Source(what, u) BY <3>1, ListedFits
    <3>3. order \in Seq(Nat) /\ IsInjective(order) /\ Range(order) \subseteq S BY <1>3, <3>1, <3>2, OrderFits
    <3> QED BY <3>2, <3>3
  <2>2. walk = NoWalk BY <1>1, <1>3 DEF WalkFits
  <2>3. walk.next = 1 /\ walk.seen = <<>> /\ walk.left = 0 /\ walk.came = 0 BY <2>2 DEF NoWalk
  <2>4. (walk.next - 1) * PageSize = 0 BY <2>3, AccountsAssumption
  <2>5. After(order, 0) = Range(order) BY <2>1, AfterNone
  <2>6. IsFiniteSet(Range(order)) BY <2>1, <2>5, AfterCount
  <2>7. Range(<<>>) = {} /\ Len(<<>>) = 0 BY DEF Range
  <2>8. IsFiniteSet({}) /\ Cardinality({}) = 0 BY FS_EmptySet
  <2>9. Cardinality(Range(order)) \in Nat BY <2>6, FS_CardinalityType
  <2>10. Range(order) \ ({} \cup Range(order)) = {} /\ {} \cup Range(order) = Range(order) OBVIOUS
  <2>11. Balance(Range(order), {}, 0, Range(order), 0, 0)
    BY <2>6, <2>8, <2>9, <2>10 DEF Balance
  <2> QED BY <1>1, <1>2, <1>3, <2>1, <2>3, <2>4, <2>5, <2>7, <2>11
<1>4. CASE walk.what # "none"
  <2>1. order = walk.order /\ walk.what = what /\ walk.by = u BY <1>4
  <2>2. Halfway(walk) /\ Range(walk.order) \subseteq Source(walk.what, walk.by) BY <1>4, ReadingFits
  <2> QED BY <1>1, <1>2, <1>4, <2>1, <2>2 DEF Halfway, Ahead, WalkRow
<1> QED BY <1>3, <1>4

LEMMA WalkPage ==
    ASSUME UsersFit, TablesFit, SessionsFit, WalkFit, NEW tok \in tokens,
           NEW what \in {"users", "storages", "vms"}, NEW name \in Name \cup {None}, ListPage(tok, what, name)
    PROVE  WalkFit'
<1>0. PICK q : q = walk /\ WalkFits(q) BY DEF WalkFit
<1>1. PICK u \in User : u = tok.user BY DEF SessionsFit, TokenFits
<1>2. walk.next # 0 /\ (walk.what = "none" \/ (walk.what = what /\ walk.by = u))
  BY <1>1 DEF ListPage
<1>3. PICK order \in IF walk.what = "none" THEN SetToSeqs(Listed(what, u, name)) ELSE {walk.order} :
          walk' = [what |-> what, by |-> u, name |-> name,
                   next |-> q.next + 1, counts |-> TRUE, order |-> order,
                   seen |-> q.seen \o Items(order, q.next),
                   had |-> IF q.what = "none" THEN Range(order) ELSE q.had,
                   left |-> q.left, came |-> q.came]
  BY <1>0, <1>1 DEF ListPage
<1>4. PICK had : had = IF q.what = "none" THEN Range(order) ELSE q.had OBVIOUS
<1>5. /\ order \in Seq(Nat) /\ IsInjective(order) /\ Range(order) \subseteq Source(what, u)
      /\ q \in WalkRow /\ q.next \in Nat \ {0}
      /\ Balance(had, Range(q.seen), Len(q.seen), After(order, (q.next - 1) * PageSize), q.left, q.came)
  BY <1>0, <1>2, <1>4, PageOrder
<1>6. PICK items : items = Items(order, q.next) OBVIOUS
<1>7. PICK U, W : U = After(order, (q.next - 1) * PageSize) /\ W = After(order, q.next * PageSize) OBVIOUS
<1>8. /\ items \in Seq(Nat) /\ U = Range(items) \cup W /\ Len(items) + Cardinality(W) = Cardinality(U)
  BY <1>5, <1>6, <1>7, ItemsAre
<1>9. PICK seen : seen = q.seen \o items OBVIOUS
<1>10. /\ seen \in Seq(Nat) /\ Len(seen) = Len(q.seen) + Len(items)
       /\ Range(seen) = Range(q.seen) \cup Range(items)
  <2>1. q.seen \in Seq(Nat) BY <1>5 DEF WalkRow
  <2>2. seen \in Seq(Nat) /\ Len(seen) = Len(q.seen) + Len(items)
        /\ \A i \in 1 .. Len(q.seen) + Len(items) :
              seen[i] = IF i <= Len(q.seen) THEN q.seen[i] ELSE items[i - Len(q.seen)]
    BY <1>8, <1>9, <2>1, ConcatProperties
  <2>3. PICK m, n : /\ m = Len(q.seen) /\ n = Len(items) /\ m \in Nat /\ n \in Nat
                    /\ DOMAIN q.seen = 1 .. m /\ DOMAIN items = 1 .. n /\ DOMAIN seen = 1 .. m + n
    <3>1. Len(q.seen) \in Nat /\ Len(items) \in Nat /\ DOMAIN q.seen = 1 .. Len(q.seen)
          /\ DOMAIN items = 1 .. Len(items) /\ DOMAIN seen = 1 .. Len(seen)
      BY <1>8, <2>1, <2>2
    <3> QED BY <2>2, <3>1
  <2>4. Range(seen) \subseteq Range(q.seen) \cup Range(items)
    <3>1. ASSUME NEW i \in 1 .. m + n PROVE seen[i] \in Range(q.seen) \cup Range(items)
      <4>1. CASE i <= m
        <5>1. i \in DOMAIN q.seen /\ seen[i] = q.seen[i] BY <2>2, <2>3, <4>1
        <5> QED BY <5>1 DEF Range
      <4>2. CASE ~ (i <= m)
        <5>1. i - m \in DOMAIN items /\ seen[i] = items[i - m] BY <2>2, <2>3, <4>2
        <5> QED BY <5>1 DEF Range
      <4> QED BY <4>1, <4>2
    <3> QED BY <2>3, <3>1 DEF Range
  <2>5. Range(q.seen) \subseteq Range(seen)
    <3>1. \A i \in 1 .. m : i \in 1 .. m + n /\ seen[i] = q.seen[i] BY <2>2, <2>3
    <3> QED BY <2>3, <3>1 DEF Range
  <2>6. Range(items) \subseteq Range(seen)
    <3>1. ASSUME NEW i \in 1 .. n PROVE i + m \in 1 .. m + n /\ seen[i + m] = items[i]
      <4>1. i + m \in 1 .. m + n /\ ~ (i + m <= m) /\ (i + m) - m = i BY <2>3
      <4> QED BY <2>2, <2>3, <4>1
    <3> QED BY <2>3, <3>1 DEF Range
  <2> QED BY <2>2, <2>4, <2>5, <2>6
<1>11. Balance(had, Range(seen), Len(seen), W, q.left, q.came)
  <2>1. IsFiniteSet(had) /\ IsFiniteSet(Range(q.seen)) /\ IsFiniteSet(U) BY <1>5, <1>7 DEF Balance
  <2>2. W \in SUBSET U /\ Range(items) \in SUBSET U BY <1>8
  <2>3. IsFiniteSet(W) /\ IsFiniteSet(Range(items)) BY <2>1, <2>2, FS_Subset
  <2>4. IsFiniteSet(Range(seen)) BY <1>10, <2>1, <2>3, FS_Union
  <2>5. Range(seen) \cup W = Range(q.seen) \cup U BY <1>8, <1>10
  <2>6. Cardinality(W) \in Nat /\ Cardinality(U) \in Nat BY <2>1, <2>3, FS_CardinalityType
  <2>7. Len(q.seen) \in Nat /\ Len(items) \in Nat BY <1>5, <1>8 DEF WalkRow
  <2>8. Len(seen) + Cardinality(W) = Len(q.seen) + Cardinality(U) BY <1>8, <1>10, <2>6, <2>7
  <2>9. /\ Cardinality(had \ (Range(q.seen) \cup U)) <= q.left
        /\ Len(q.seen) + Cardinality(U) <= Cardinality(Range(q.seen) \cup U) + q.came
    BY <1>5, <1>7 DEF Balance
  <2> QED BY <2>1, <2>3, <2>4, <2>5, <2>8, <2>9 DEF Balance
<1>12. PICK r : /\ r = walk'
                /\ r = [what |-> what, by |-> u, name |-> name, next |-> q.next + 1, counts |-> TRUE,
                        order |-> order, seen |-> seen, had |-> had, left |-> q.left, came |-> q.came]
  BY <1>3, <1>4, <1>6, <1>9
<1>13. had \subseteq Nat
  <2>1. Range(order) \subseteq Nat BY <1>5, AfterNone, AccountsAssumption
  <2> QED BY <1>4, <1>5, <2>1 DEF WalkRow
<1>14. u \in Nat
  BY UserFits DEF UsersFit
<1>15. r \in WalkRow
  BY <1>5, <1>10, <1>12, <1>13, <1>14 DEF WalkRow
<1>16. /\ r.what = what /\ r.by = u /\ r.next = q.next + 1 /\ r.counts = TRUE /\ r.order = order
       /\ r.seen = seen /\ r.had = had /\ r.left = q.left /\ r.came = q.came
  BY <1>12
<1>17. UNCHANGED rows
  BY DEF ListPage
<1>18. Source(what, u)' = Source(what, u)
  BY <1>17 DEF Source, ListedVms, rows, User, IsAdmin
<1>19. (r.next - 1) * PageSize = q.next * PageSize /\ r.next # 0
  BY <1>5, <1>16
<1>20. Halfway(r)
  BY <1>5, <1>7, <1>11, <1>16, <1>19 DEF Halfway, Ahead
<1>21. User' = User
  BY <1>17 DEF rows, User
<1>22. r.what # "none"
  BY <1>16
<1>23. WalkFits(r)'
  BY <1>5, <1>15, <1>16, <1>18, <1>19, <1>20, <1>21, <1>22 DEF WalkFits
<1> QED BY <1>12, <1>23 DEF WalkFit

LEMMA WalkCounts ==
    ASSUME WalkFit, CountPage
    PROVE  WalkFit'
<1>0. PICK q : q = walk /\ WalkFits(q) BY DEF WalkFit
<1>1. q.counts /\ q.what # "none" /\ q.next # 0 /\ q \in WalkRow /\ q.by \in User
  BY <1>0 DEF WalkFits, CountPage
<1>2. Halfway(q) /\ Range(q.order) \subseteq Source(q.what, q.by)
  BY <1>0, <1>1 DEF WalkFits
<1>3. PICK r : r = walk' OBVIOUS
<1>4. UNCHANGED rows /\ User' = User
  BY DEF CountPage, rows, User
<1>5. CASE HasNext(q.order, q.next - 1)
  <2>1. r = [q EXCEPT !.counts = FALSE] BY <1>0, <1>3, <1>5 DEF CountPage
  <2>2. /\ r \in WalkRow /\ r.what = q.what /\ r.by = q.by /\ r.next = q.next /\ r.counts = FALSE
        /\ r.order = q.order /\ r.seen = q.seen /\ r.had = q.had /\ r.left = q.left /\ r.came = q.came
    BY <1>1, <2>1 DEF WalkRow
  <2>3. Halfway(r) BY <1>2, <2>2 DEF Halfway, Ahead
  <2>4. Source(q.what, q.by)' = Source(q.what, q.by)
    BY <1>4 DEF Source, ListedVms, rows, User, IsAdmin
  <2>5. WalkFits(r)' BY <1>1, <1>2, <1>4, <2>2, <2>3, <2>4 DEF WalkFits
  <2> QED BY <1>3, <2>5 DEF WalkFit
<1>6. CASE ~ HasNext(q.order, q.next - 1)
  <2>1. r = [q EXCEPT !.counts = FALSE, !.next = 0, !.order = <<>>] BY <1>0, <1>3, <1>6 DEF CountPage
  <2>2. /\ r \in WalkRow /\ r.what = q.what /\ r.by = q.by /\ r.next = 0 /\ r.counts = FALSE
        /\ r.seen = q.seen /\ r.had = q.had /\ r.left = q.left /\ r.came = q.came
    <3>1. <<>> \in Seq(Nat) OBVIOUS
    <3> QED BY <1>1, <2>1, <3>1 DEF WalkRow
  <2>3. PICK b : b = (q.next - 1) * PageSize /\ b \in Nat
    BY <1>1, AccountsAssumption DEF WalkRow
  <2>4. q.next - 1 \in Nat /\ q.order \in Seq(Nat) BY <1>1 DEF WalkRow
  <2>5. Len(q.order) <= b BY <1>6, <2>3, <2>4, NextPage
  <2>6. Ahead(q) = {} BY <2>3, <2>4, <2>5, AfterNone DEF Ahead
  <2>7. /\ Cardinality(q.had \ (Range(q.seen) \cup {})) <= q.left
        /\ Len(q.seen) + Cardinality({}) <= Cardinality(Range(q.seen) \cup {}) + q.came
    BY <1>2, <2>6 DEF Halfway, Balance
  <2>8. Range(q.seen) \cup {} = Range(q.seen) OBVIOUS
  <2>9. Len(q.seen) + Cardinality({}) = Len(q.seen) BY <1>1, FS_EmptySet DEF WalkRow
  <2>10. WalkFits(r)' BY <1>1, <1>4, <2>2, <2>7, <2>8, <2>9 DEF WalkFits
  <2> QED BY <1>3, <2>10 DEF WalkFit
<1> QED BY <1>5, <1>6

LEMMA WalkNext ==
    ASSUME UsersFit, UsersFit', CallsFit, TablesFit, SessionsFit, Evolve, WalkFit, [Next]_vars
    PROVE  WalkFit'
<1>0. User = 1 .. Len(users) /\ Len(users) \in Nat
  BY UserFits DEF UsersFit
<1>20. PICK q : q = walk OBVIOUS
<1>1. CASE UNCHANGED <<walk, vms, storages>>
  BY <1>1, WalkStays
<1>2. CASE UNCHANGED vars
  BY <1>1, <1>2 DEF vars, client, session, rows
<1>3. ASSUME NEW w \in Worker, InsertUser(w) PROVE WalkFit'
  <2> DEFINE p == rpc[w].profile
  <2> DEFINE matches == Parse(p.role) = "USER" /\ walk.name \in {None, p.name}
  <2>1. UNCHANGED <<vms, storages>> BY <1>3 DEF InsertUser
  <2>2. CASE ~ Unique(p)
    BY <1>1, <1>3, <2>1, <2>2 DEF InsertUser
  <2>3. CASE Unique(p)
    <3>1. users' = Append(users, Row(p)) /\ Appears("users", matches, Len(users) + 1)
      BY <1>3, <2>3 DEF InsertUser
    <3>2. Len(users) + 1 \notin User /\ Len(users) + 1 \in Nat BY <1>0
    <3>3. Len(users) + 1 \in User'
      <4>1. Len(users') = Len(users) + 1 BY <3>1 DEF UsersFit
      <4>2. User' = 1 .. Len(users') BY DEF UsersFit, User
      <4> QED BY <1>0, <4>1, <4>2
    <3>4. matches \in BOOLEAN OBVIOUS
    <3> HIDE DEF matches
    <3>5. PICK m \in BOOLEAN : m = matches BY <3>4
    <3>6. Appears("users", m, Len(users) + 1) BY <3>1, <3>5
    <3> QED BY <1>20, <2>1, <3>2, <3>3, <3>6, WalkAppears DEF Source
  <2> QED BY <2>2, <2>3
<1>4. ASSUME NEW w \in Worker, Deactivate(w) PROVE WalkFit'
  <2>1. UNCHANGED <<vms, storages>> BY <1>4 DEF Deactivate
  <2>2. UNCHANGED walk \/ Moves("users", rpc[w].user) BY <1>4 DEF Deactivate
  <2> QED BY <1>1, <2>1, <2>2, WalkRowMoves
<1>5. ASSUME NEW w \in Worker, InsertVm(w) PROVE WalkFit'
  <2>1. PICK u : u = rpc[w].user /\ u \in User BY <1>5 DEF InsertVm, CallsFit
  <2>2. PICK m \in BOOLEAN : m = (IsAdmin(q.by) \/ q.by = u) BY DEF IsAdmin
  <2>3. /\ vms' = Append(vms, u) /\ Appears("vms", m, Len(vms) + 1) /\ UNCHANGED <<users, storages>>
    BY <1>5, <1>20, <2>1, <2>2 DEF InsertVm
  <2>4. PICK L : L = Len(vms) /\ L \in Nat /\ DOMAIN vms = 1 .. L BY DEF TablesFit
  <2>5. L + 1 \in Nat /\ L + 1 \notin ListedVms(q.by) BY <2>4 DEF ListedVms
  <2>6. ASSUME m PROVE L + 1 \in ListedVms(q.by)'
    <3>1. DOMAIN vms' = 1 .. L + 1 /\ vms'[L + 1] = u BY <2>1, <2>3, <2>4 DEF TablesFit
    <3>2. IsAdmin(q.by)' <=> IsAdmin(q.by) BY <2>3 DEF IsAdmin
    <3>3. L + 1 \in 1 .. L + 1 BY <2>4
    <3> QED BY <2>2, <2>6, <3>1, <3>2, <3>3 DEF ListedVms
  <2>7. Source("vms", q.by) = ListedVms(q.by) /\ Source("vms", q.by)' = ListedVms(q.by)' BY DEF Source
  <2> QED BY <1>20, <2>3, <2>4, <2>5, <2>6, <2>7, WalkAppears
<1>6. CASE \E w \in Worker : Servants(w)
  BY <1>1, <1>3, <1>4, <1>5, <1>6
  DEF Servants, CreateUser, DeleteUser, CreateVm, DeleteVm, SaveFails, client, session, rows
<1>7. CASE \E t \in Thread : Sessions(t)
  BY <1>1, <1>7 DEF Sessions, LoadLogin, LoadRefresh, Login, Refresh, rows
<1>8. CASE \E tok \in tokens : UserReads(tok) \/ VmReads(tok)
  <2>1. ASSUME NEW tok \in tokens, Statistic(tok) \/ NoEffect(tok) PROVE WalkFit'
    BY <1>1, <2>1 DEF Statistic, NoEffect, rows
  <2>2. ASSUME NEW tok \in tokens, NEW what \in {"users", "storages"}, NEW name \in Name \cup {None},
               ListPage(tok, what, name)
        PROVE  WalkFit'
    BY <2>2, WalkPage
  <2>3. ASSUME NEW tok \in tokens, VmReads(tok) PROVE WalkFit'
    BY <2>3, WalkPage DEF VmReads
  <2> QED BY <1>8, <2>1, <2>2, <2>3 DEF UserReads
<1>9. CASE StoragesChange
  <2>1. vms' = vms BY <1>9 DEF StoragesChange
  <2>2. PICK u \in User :
           \/ u \notin storages /\ storages' = storages \cup {u} /\ Appears("storages", Named(u, walk.name), u)
           \/ u \in storages /\ storages' = storages \ {u} /\ Vanishes("storages", u)
           \/ u \in storages /\ Moves("storages", u) /\ UNCHANGED storages
    BY <1>9 DEF StoragesChange
  <2>3. CASE u \notin storages /\ storages' = storages \cup {u} /\ Appears("storages", Named(u, walk.name), u)
    <3>1. PICK m \in BOOLEAN : m = Named(u, walk.name) BY DEF Named
    <3>2. Appears("storages", m, u) BY <2>3, <3>1
    <3>3. u \in Nat BY <1>0
    <3> QED BY <1>20, <2>1, <2>3, <3>2, <3>3, WalkAppears DEF Source
  <2>4. CASE u \in storages /\ storages' = storages \ {u} /\ Vanishes("storages", u)
    BY <2>1, <2>4, WalkVanishes
  <2>5. CASE u \in storages /\ Moves("storages", u) /\ UNCHANGED storages
    BY <2>1, <2>5, WalkRowMoves
  <2> QED BY <2>2, <2>3, <2>4, <2>5
<1>10. CASE Tick
  BY <1>1, <1>10 DEF Tick, client, session, rows
<1>11. CASE CountPage
  BY <1>11, WalkCounts
<1> QED BY <1>2, <1>6, <1>7, <1>8, <1>9, <1>10, <1>11 DEF Next

-----------------------------------------------------------------------------
(* What the answers tell.                                                  *)

ToldFit ==
    /\ told \subseteq User \X User \X {"tokens", "counts", "vms", "list"}
    /\ OthersNeedRank

LEMMA HigherIsAdmin ==
    ASSUME UsersFit, NEW u \in User, NEW v \in User, ~ AtMost(u, v)
    PROVE  IsAdmin(u)
<1>1. users[u].role \in DOMAIN Rank /\ users[v].role \in DOMAIN Rank
  BY UserFits DEF UsersFit
<1> QED BY <1>1 DEF AtMost, IsAdmin, Rank

LEMMA TargetFits ==
    ASSUME NEW u \in User, NEW name
    PROVE  Target(u, name) \in User
  BY DEF Target

LEMMA ToldStays ==
    ASSUME UsersFit, Evolve, ToldFit, told' = told
    PROVE  ToldFit'
<1>1. User \subseteq User' /\ \A u \in User : users'[u].role = users[u].role
  BY DEF Evolve
<1>2. told' \subseteq User' \X User' \X {"tokens", "counts", "vms", "list"}
  BY <1>1 DEF ToldFit
<1>3. \A u \in User : IsAdmin(u)' <=> IsAdmin(u)
  BY <1>1 DEF IsAdmin
<1>4. \A u, v \in User : AtMost(u, v)' <=> AtMost(u, v)
  BY <1>1 DEF AtMost
<1>5. ASSUME NEW a \in told', a[1] # a[2]
      PROVE  IsAdmin(a[1])' /\ (a[3] \in {"tokens", "list"} => ~ AtMost(a[1], a[2])')
  <2>1. a[1] \in User /\ a[2] \in User BY DEF ToldFit
  <2>2. IsAdmin(a[1]) /\ (a[3] \in {"tokens", "list"} => ~ AtMost(a[1], a[2]))
    BY <1>5 DEF ToldFit, OthersNeedRank
  <2> QED BY <1>3, <1>4, <2>1, <2>2
<1> QED BY <1>2, <1>5 DEF ToldFit, OthersNeedRank

\* An answer of one row, when users stay as they are.
LEMMA ToldOne ==
    ASSUME users' = users, NEW u \in User, NEW v \in User, NEW how \in {"tokens", "counts", "vms", "list"},
           told' = {<<u, v, how>>},
           u # v => IsAdmin(u) /\ (how \in {"tokens", "list"} => ~ AtMost(u, v))
    PROVE  ToldFit'
<1>1. User' = User /\ told' \subseteq User' \X User' \X {"tokens", "counts", "vms", "list"}
  BY DEF User
<1>2. \A x, y \in User : (IsAdmin(x)' <=> IsAdmin(x)) /\ (AtMost(x, y)' <=> AtMost(x, y))
  BY DEF IsAdmin, AtMost
<1>3. \A a \in told' : a[1] = u /\ a[2] = v /\ a[3] = how
  OBVIOUS
<1>4. OthersNeedRank'
  BY <1>2, <1>3 DEF OthersNeedRank
<1> QED BY <1>1, <1>4 DEF ToldFit

LEMMA ToldNext ==
    ASSUME UsersFit, SessionsFit, TablesFit, WalkFit, ToldFit, Evolve, UsersFit', [Next]_vars
    PROVE  ToldFit'
<1>1. CASE told' = told
  BY <1>1, ToldStays
<1>2. CASE UNCHANGED vars
  BY <1>1, <1>2 DEF vars, client, session
<1>3. CASE \E w \in Worker : Servants(w)
  BY <1>1, <1>3
  DEF Servants, CreateUser, InsertUser, DeleteUser, Deactivate, CreateVm, DeleteVm, InsertVm, SaveFails, client, session
<1>4. ASSUME NEW t \in Thread, Refresh(t) PROVE ToldFit'
  <2>1. CASE ~ CheckUser(web[t])
    BY <1>1, <1>4, <2>1 DEF Refresh
  <2>2. CASE CheckUser(web[t])
    <3>1. PICK u : u = web[t].user /\ u = web[t].target /\ u \in User
      BY <1>4 DEF Refresh, SessionsFit, RequestFits
    <3>2. told' = {<<u, u, "tokens">>} /\ users' = users
      BY <1>4, <2>2, <3>1 DEF Refresh, rows
    <3> QED BY <3>1, <3>2, ToldOne
  <2> QED BY <2>1, <2>2
<1>5. CASE \E t \in Thread : Sessions(t)
  BY <1>1, <1>4, <1>5 DEF Sessions, LoadLogin, LoadRefresh, Login
<1>6. \A tok \in tokens : tok.user \in User
  BY DEF SessionsFit, TokenFits
<1>7. ASSUME NEW tok \in tokens, Statistic(tok) PROVE ToldFit'
  <2>1. PICK v \in {tok.user} \cup (IF IsAdmin(tok.user) THEN User ELSE {}) : told' = {<<tok.user, v, "counts">>}
    BY <1>7 DEF Statistic
  <2>2. tok.user \in User /\ v \in User /\ users' = users /\ (v # tok.user => IsAdmin(tok.user))
    BY <1>6, <1>7 DEF Statistic, rows
  <2> QED BY <2>1, <2>2, ToldOne
<1>8. ASSUME NEW tok \in tokens, NEW what \in {"users", "storages"}, NEW name \in Name \cup {None},
             ListPage(tok, what, name)
      PROVE  ToldFit'
  <2>1. users' = users /\ tok.user \in User BY <1>6, <1>8 DEF ListPage, rows
  <2>2. told' = IF name = None THEN {} ELSE {<<tok.user, Target(tok.user, name), "list">>}
    <3>1. what # "vms" OBVIOUS
    <3> QED BY <1>8, <3>1 DEF ListPage
  <2>3. CASE name = None
    BY <2>2, <2>3 DEF ToldFit, OthersNeedRank
  <2>4. CASE name # None
    <3>1. PICK v \in User : v = Target(tok.user, name) BY <2>1, TargetFits
    <3>2. v = tok.user \/ ~ AtMost(tok.user, v) BY <1>8, <3>1 DEF ListPage, Authorised
    <3>3. v # tok.user => IsAdmin(tok.user) BY <2>1, <3>2, HigherIsAdmin
    <3>4. told' = {<<tok.user, v, "list">>} BY <2>2, <2>4, <3>1
    <3> QED BY <2>1, <3>2, <3>3, <3>4, ToldOne
  <2> QED BY <2>3, <2>4
<1>9. ASSUME NEW tok \in tokens, VmReads(tok) PROVE ToldFit'
  <2>1. PICK u \in User : u = tok.user BY <1>6
  <2>2. walk.next # 0 /\ (walk.what = "none" \/ (walk.what = "vms" /\ walk.by = u))
    BY <1>9, <2>1 DEF VmReads, ListPage
  <2>3. PICK order \in IF walk.what = "none" THEN SetToSeqs(Listed("vms", u, None)) ELSE {walk.order} :
           users' = users /\ told' = {<<u, vms[i], "vms">> : i \in Range(Items(order, walk.next))}
    BY <1>9, <2>1 DEF VmReads, ListPage, rows
  <2>4. PICK items : items = Items(order, walk.next) OBVIOUS
  <2>5. Range(items) \subseteq ListedVms(u)
    <3>1. PICK p : p = walk.next OBVIOUS
    <3>2. /\ order \in Seq(Nat) /\ IsInjective(order) /\ Range(order) \subseteq ListedVms(u)
          /\ p \in Nat \ {0}
      BY <2>2, <2>3, <3>1, PageOrder DEF Source
    <3>3. Range(items) \subseteq Range(order) BY <2>4, <3>1, <3>2, ItemsAre
    <3> QED BY <3>2, <3>3
  <2>6. \A i \in Range(items) : vms[i] \in User /\ (IsAdmin(u) \/ vms[i] = u)
    BY <2>5 DEF TablesFit, ListedVms
  <2>7. User' = User /\ told' \subseteq User' \X User' \X {"tokens", "counts", "vms", "list"}
    BY <2>3, <2>4, <2>6 DEF User
  <2>8. IsAdmin(u)' <=> IsAdmin(u) BY <2>3 DEF IsAdmin
  <2>9. \A a \in told' : a[1] = u /\ a[3] = "vms" /\ (IsAdmin(u) \/ a[2] = u)
    BY <2>3, <2>4, <2>6
  <2>10. OthersNeedRank' BY <2>8, <2>9 DEF OthersNeedRank
  <2> QED BY <2>7, <2>10 DEF ToldFit
<1>10. CASE \E tok \in tokens : UserReads(tok) \/ VmReads(tok)
  <2>1. ASSUME NEW tok \in tokens, NoEffect(tok) PROVE ToldFit'
    BY <1>1, <2>1 DEF NoEffect
  <2> QED BY <1>7, <1>8, <1>9, <1>10, <2>1 DEF UserReads
<1>11. CASE StoragesChange \/ CountPage \/ Tick
  BY <1>1, <1>11 DEF StoragesChange, CountPage, Tick, client, session
<1> QED BY <1>2, <1>3, <1>5, <1>10, <1>11 DEF Next

-----------------------------------------------------------------------------
(* The invariant.                                                          *)

Countdown == calls \in Nat /\ asked \in Nat /\ time \in Nat

AccountsInv ==
    UsersFit /\ CallsFit /\ AnswersFit /\ SessionsFit /\ TablesFit /\ WalkFit /\ ToldFit /\ Countdown

LEMMA AccountsInit ==
    ASSUME Init
    PROVE  AccountsInv
<1>1. PICK s \in Scene :
          /\ users = [i \in DOMAIN s.since |-> Row(s.since[i])]
          /\ made = [n \in Name |-> IF \E i \in DOMAIN s.since : s.since[i].name = n THEN 1 ELSE 0]
          /\ vms = s.vms /\ storages = s.storages
          /\ calls = s.calls /\ asked = s.asked /\ time = s.time
  BY DEF Init
<1>2. /\ s.calls \in Nat /\ s.asked \in Nat /\ s.time \in Nat
      /\ s.since \in Seq(Profile)
      /\ \A i, j \in DOMAIN s.since : i # j => s.since[i].name # s.since[j].name
      /\ s.vms \in Seq(DOMAIN s.since)
      /\ s.storages \subseteq DOMAIN s.since
  BY <1>1, AccountsAssumption
<1>3. /\ clock = 0 /\ tokens = {} /\ told = {}
      /\ rpc = [w \in Worker |-> NoCall] /\ view = [w \in Worker |-> None]
      /\ web = [t \in Thread |-> NoRequest] /\ walk = NoWalk
      /\ deleted = {} /\ unsaved = {}
  BY DEF Init
<1>4. User = DOMAIN s.since /\ DOMAIN s.since = 1 .. Len(s.since) /\ Len(s.since) \in Nat
  BY <1>1, <1>2 DEF User
<1>5. \A u \in User : s.since[u] \in Profile /\ users[u] = Row(s.since[u])
  BY <1>1, <1>2, <1>4
<1>6. \A u \in User : /\ users[u] \in UserRow /\ users[u].name = s.since[u].name
                      /\ users[u].active <=> users[u].gone = None
                      /\ users[u].gone # None => users[u].gone = clock
  <2>1. clock \in Nat BY <1>3
  <2> QED BY <1>5, <2>1, RowFits
<1>7. UsersFit
  <2>1. users = [u \in 1 .. Len(s.since) |-> users[u]] BY <1>1, <1>4
  <2>2. users \in Seq(UserRow) BY <1>4, <1>6, <2>1
  <2>3. \A u, v \in User : users[u].name = users[v].name => u = v
    <3> SUFFICES ASSUME NEW u \in User, NEW v \in User, u # v PROVE users[u].name # users[v].name
      OBVIOUS
    <3>1. s.since[u].name # s.since[v].name BY <1>2, <1>4
    <3>2. users[u].name = s.since[u].name /\ users[v].name = s.since[v].name BY <1>6
    <3> QED BY <3>1, <3>2
  <2>4. \A u \in User : users[u].gone # None => users[u].gone <= clock BY <1>3, <1>6
  <2> QED BY <1>3, <1>6, <2>2, <2>3, <2>4 DEF UsersFit
<1>8. CallsFit
  <2>1. NoCall \in CallRow /\ NoCall.op = "none" BY DEF NoCall, CallRow
  <2>2. rpc \in [Worker -> CallRow] /\ \A w \in Worker : rpc[w].op = "none" BY <1>3, <2>1
  <2>3. view \in [Worker -> (0 .. Len(users)) \cup {None}] /\ \A w \in Worker : view[w] = None BY <1>3
  <2> QED BY <2>2, <2>3 DEF CallsFit, CallRow
<1>9. AnswersFit
  <2>1. \A n \in Name : (\E i \in DOMAIN s.since : s.since[i].name = n) <=> \E u \in User : users[u].name = n
    BY <1>4, <1>6
  <2> QED BY <1>1, <1>3, <2>1 DEF AnswersFit
<1>10. SessionsFit
  <2>1. NoRequest \in WebRow /\ NoRequest.op = "none" BY DEF NoRequest, WebRow
  <2>2. web \in [Thread -> WebRow] /\ \A t \in Thread : web[t].op = "none" BY <1>3, <2>1
  <2> QED BY <1>3, <2>2 DEF SessionsFit, RequestFits
<1>11. TablesFit
  BY <1>1, <1>2, <1>4 DEF TablesFit
<1>12. WalkFit
  <2>1. NoWalk \in WalkRow /\ NoWalk.what = "none" /\ NoWalk.next = 1
    <3>1. <<>> \in Seq(Nat) OBVIOUS
    <3> QED BY <3>1 DEF NoWalk, WalkRow
  <2>2. NoWalk.counts = FALSE BY DEF NoWalk
  <2>3. WalkFits(NoWalk) BY <2>1, <2>2 DEF WalkFits
  <2> QED BY <1>3, <2>3 DEF WalkFit
<1>13. ToldFit
  BY <1>3 DEF ToldFit, OthersNeedRank
<1> QED BY <1>1, <1>2, <1>7, <1>8, <1>9, <1>10, <1>11, <1>12, <1>13 DEF AccountsInv, Countdown

LEMMA CountdownNext ==
    ASSUME Countdown, [Next]_vars
    PROVE  Countdown'
<1>1. CASE UNCHANGED vars
  BY <1>1 DEF vars, server, client, session, Countdown
<1>2. CASE /\ calls' = calls \/ (calls > 0 /\ calls' = calls - 1)
           /\ asked' = asked \/ (asked > 0 /\ asked' = asked - 1)
           /\ time' = time \/ (time > 0 /\ time' = time - 1)
  BY <1>2 DEF Countdown
<1>3. CASE \E w \in Worker : Servants(w)
  BY <1>2, <1>3
  DEF Servants, CreateUser, InsertUser, DeleteUser, Deactivate, CreateVm, DeleteVm, InsertVm, SaveFails, client, session, Call
<1>4. CASE \E t \in Thread : Sessions(t)
  BY <1>2, <1>4 DEF Sessions, LoadLogin, LoadRefresh, Login, Refresh, server, Ask, Asked
<1>5. CASE \E tok \in tokens : UserReads(tok) \/ VmReads(tok)
  <2>1. PICK tok \in tokens : UserReads(tok) \/ VmReads(tok) BY <1>5
  <2>2. UNCHANGED <<server, time>> /\ Asked
    BY <2>1 DEF UserReads, VmReads, Statistic, NoEffect, ListPage
  <2> QED BY <1>2, <2>2 DEF server, Asked
<1>6. CASE StoragesChange \/ CountPage \/ Tick
  BY <1>2, <1>6 DEF StoragesChange, CountPage, Tick, server, client, session
<1> QED BY <1>1, <1>3, <1>4, <1>5, <1>6 DEF Next

LEMMA AccountsNext ==
    ASSUME AccountsInv, [Next]_vars
    PROVE  AccountsInv'
<1>1. UsersFit /\ CallsFit /\ AnswersFit /\ SessionsFit /\ TablesFit /\ WalkFit /\ ToldFit /\ Countdown
  BY DEF AccountsInv
<1>2. UsersFit' /\ Evolve
  BY <1>1, UsersNext
<1>3. CallsFit'
  BY <1>1, <1>2, CallsNext
<1>4. AnswersFit'
  BY <1>1, <1>2, AnswersNext
<1>5. SessionsFit'
  BY <1>1, <1>2, SessionsNext
<1>6. TablesFit'
  BY <1>1, <1>2, TablesNext
<1>7. WalkFit'
  BY <1>1, <1>2, WalkNext
<1>8. ToldFit'
  BY <1>1, <1>2, ToldNext
<1>9. Countdown'
  BY <1>1, CountdownNext
<1> QED BY <1>2, <1>3, <1>4, <1>5, <1>6, <1>7, <1>8, <1>9 DEF AccountsInv

\* The invariant of users, calls, sessions, tables and readers, for any users,
\* workers, threads, lifetimes of tokens and sizes of pages.
THEOREM AccountsInvariance == Spec => []AccountsInv
<1>1. Init => AccountsInv
  BY AccountsInit
<1>2. AccountsInv /\ [Next]_vars => AccountsInv'
  BY AccountsNext
<1> QED BY <1>1, <1>2, PTL DEF Spec

LEMMA InvImpliesType ==
    ASSUME AccountsInv
    PROVE  TypeOK
<1>1. users \in Seq(UserRow) /\ clock \in Nat
  BY DEF AccountsInv, UsersFit
<1>2. tokens \subseteq [user : User, exp : Nat \cup {None}, begun : 0 .. clock]
  BY DEF AccountsInv, SessionsFit, TokenFits
<1>3. view \in [Worker -> (0 .. Len(users)) \cup {None}]
  BY DEF AccountsInv, CallsFit
<1>4. vms \in Seq(User) /\ storages \subseteq User
  BY DEF AccountsInv, TablesFit
<1>5. calls \in Nat /\ asked \in Nat /\ time \in Nat
  BY DEF AccountsInv, Countdown
<1> QED BY <1>1, <1>2, <1>3, <1>4, <1>5 DEF TypeOK, UserRow

\* What a servant answers is so: one SUCCESS of create_user for each name, with its
\* row, and every user whose deletion was answered SUCCESS is locked, but where the
\* row could not be saved.
THEOREM AnsweredIsDoneAlways == Spec => []AnsweredIsDone
<1>1. AccountsInv => AnsweredIsDone
  <2> SUFFICES ASSUME AccountsInv PROVE AnsweredIsDone
    OBVIOUS
  <2>1. UsersFit /\ AnswersFit BY DEF AccountsInv
  <2>2. ASSUME NEW n \in Name
        PROVE  made[n] = Cardinality({u \in User : users[u].name = n}) /\ made[n] <= 1
    <3>1. CASE \E u \in User : users[u].name = n
      <4>1. PICK v \in User : users[v].name = n BY <3>1
      <4>2. {u \in User : users[u].name = n} = {v} BY <2>1, <4>1 DEF UsersFit
      <4>3. Cardinality({v}) = 1 BY FS_Singleton
      <4>4. made[n] = 1 BY <2>1, <3>1 DEF AnswersFit
      <4> QED BY <4>2, <4>3, <4>4
    <3>2. CASE ~ \E u \in User : users[u].name = n
      <4>1. {u \in User : users[u].name = n} = {} BY <3>2
      <4>2. Cardinality({}) = 0 BY FS_EmptySet
      <4>3. made[n] = 0 BY <2>1, <3>2 DEF AnswersFit
      <4> QED BY <4>1, <4>2, <4>3
    <3> QED BY <3>1, <3>2
  <2>3. \A u \in deleted \ unsaved : ~ users[u].active BY <2>1 DEF AnswersFit
  <2>4. TypeOK BY InvImpliesType
  <2> QED BY <2>2, <2>3, <2>4 DEF AnsweredIsDone
<1> QED BY <1>1, AccountsInvariance, PTL

\* A locked user gets no more tokens: neither a login that was under way nor a
\* refresh with an old token gives one that was asked for after he was locked.
THEOREM LockedOutAlways == Spec => []LockedOut
<1>1. AccountsInv => LockedOut
  BY DEF AccountsInv, SessionsFit, TokenFits, LockedOut
<1> QED BY <1>1, AccountsInvariance, PTL

\* A client that follows next_page to the end misses at most one row for each row that
\* went or moved meanwhile, and has one twice for each that came or moved, for every
\* size of a page, any length of the list and any number of such changes.
THEOREM PagesAreWholeAlways == Spec => []PagesAreWhole
<1>1. AccountsInv => PagesAreWhole
  BY DEF AccountsInv, WalkFit, WalkFits, PagesAreWhole
<1> QED BY <1>1, AccountsInvariance, PTL

\* Answers about others go to administrators, and those that name the other one, or
\* give his tokens, to higher roles only.
THEOREM OthersNeedRankAlways == Spec => []OthersNeedRank
<1>1. AccountsInv => OthersNeedRank
  BY DEF AccountsInv, ToldFit
<1> QED BY <1>1, AccountsInvariance, PTL

\* A call of a worker misses a user who is there only after a call that was refused
\* on the same worker.
THEOREM MissesFollowRefusalsAlways == Spec => MissesFollowRefusals
<1>1. AccountsInv /\ [Next]_vars => [\A w \in missed' \ missed : w \in refused]_vars
  <2> SUFFICES ASSUME AccountsInv, Next, NEW x \in missed' \ missed
               PROVE  x \in refused
    OBVIOUS
  <2>1. UsersFit /\ CallsFit BY DEF AccountsInv
  <2>2. User = 1 .. Len(users) /\ Len(users) \in Nat BY <2>1, UserFits DEF UsersFit
  <2>3. ASSUME NEW w \in Worker, Call(w), NEW n \in Sees(w), n # Len(users), x = w PROVE x \in refused
    <3>1. view[w] # None /\ rpc[w].op = "none" BY <2>3 DEF Sees, Call
    <3> QED BY <2>1, <2>3, <3>1 DEF CallsFit
  <2>4. CASE \E w \in Worker, p \in Profile : CreateUser(w, p)
    BY <2>4 DEF CreateUser, Refuse, Goes
  <2>5. ASSUME NEW w \in Worker, NEW name \in Name, DeleteUser(w, name) PROVE x \in refused
    <3>1. PICK n \in Sees(w) : /\ \A u \in 1 .. n : users[u].name # name
                               /\ Refuse(w, \E u \in User : users[u].name = name)
      BY <2>5 DEF DeleteUser, Goes
    <3>2. x = w /\ \E u \in User : users[u].name = name BY <3>1 DEF Refuse
    <3>3. n # Len(users) BY <2>2, <3>1, <3>2
    <3>4. Call(w) BY <2>5 DEF DeleteUser
    <3> QED BY <2>3, <3>2, <3>3, <3>4
  <2>6. ASSUME NEW w \in Worker, NEW miq \in Miq, CreateVm(w, miq) PROVE x \in refused
    <3>1. PICK n \in Sees(w) : /\ \A u \in 1 .. n : users[u].miq # miq
                               /\ Refuse(w, \E u \in User : users[u].miq = miq)
      BY <2>6 DEF CreateVm, Goes
    <3>2. x = w /\ \E u \in User : users[u].miq = miq BY <3>1 DEF Refuse
    <3>3. n # Len(users) BY <2>2, <3>1, <3>2
    <3>4. Call(w) BY <2>6 DEF CreateVm
    <3> QED BY <2>3, <3>2, <3>3, <3>4
  <2>7. CASE UNCHANGED missed
    BY <2>7
  <2>8. CASE \E w \in Worker : Servants(w)
    BY <2>4, <2>5, <2>6, <2>7, <2>8 DEF Servants, InsertUser, Deactivate, DeleteVm, InsertVm, SaveFails
  <2>9. CASE \E t \in Thread : Sessions(t)
    BY <2>7, <2>9 DEF Sessions, LoadLogin, LoadRefresh, Login, Refresh, server
  <2>10. CASE \E tok \in tokens : UserReads(tok) \/ VmReads(tok)
    <3>1. PICK tok \in tokens : UserReads(tok) \/ VmReads(tok) BY <2>10
    <3>2. UNCHANGED server BY <3>1 DEF UserReads, VmReads, Statistic, NoEffect, ListPage
    <3> QED BY <2>7, <3>2 DEF server
  <2>11. CASE StoragesChange \/ CountPage \/ Tick
    BY <2>7, <2>11 DEF StoragesChange, CountPage, Tick, server
  <2> QED BY <2>8, <2>9, <2>10, <2>11 DEF Next
<1> QED BY <1>1, AccountsInvariance, PTL DEF Spec, MissesFollowRefusals
=============================================================================
