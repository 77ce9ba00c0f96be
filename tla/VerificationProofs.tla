------------------------- MODULE VerificationProofs -------------------------
(***************************************************************************)
(* The flags of blocks and versions, for any number of versions and blocks.*)
(* The end of the module is about the executor that the reads of restores  *)
(* and scrubs, like all others, are handed to (JobExecutor).               *)
(***************************************************************************)
EXTENDS Verification, JobExecutor, FiniteSetTheorems, TLAPS

\* The uid a backup gives a new block is a uid, and no other block's.
LEMMA OwnUid ==
    ASSUME NEW v \in Version, NEW i \in Idx
    PROVE  /\ <<v, i>> \in Uid
           /\ \A w \in Version, j \in Idx : <<v, i>> = <<w, j>> => v = w /\ i = j
BY DEF Uid

\* A row holds a uid or none.
LEMMA RowType ==
    ASSUME TypeOK, NEW v \in Version, NEW i \in Idx
    PROVE  rows[v][i] \in Uid \/ rows[v][i] = NoUid
<1>1. rows[v] \in [Idx -> Uid \cup {NoUid}]
  BY Zenon DEF TypeOK
<1>2. rows[v][i] \in Uid \cup {NoUid}
  BY <1>1, Zenon
<1>3. QED
  BY <1>2

\* The blocks with data are a matter of the version's own rows.
LEMMA FilledKept ==
    ASSUME NEW v \in Version, rows'[v] = rows[v]
    PROVE  Filled(v)' = Filled(v)
BY DEF Filled

\* What the commit of a backup session does to each row.
LEMMA CommitEffect ==
    ASSUME TypeOK, NEW v \in Version,
           NEW p \in [Idx -> Uid \cup {NoUid, Unset}], CommitRows(v, p)
    PROVE  /\ rows' \in [Version -> [Idx -> Uid \cup {NoUid}]]
           /\ flag' \in [Version -> [Idx -> BOOLEAN]]
           /\ pend' \in [Version -> [Idx -> Uid \cup {NoUid, Unset}]]
           /\ \A w \in Version \ {v} :
                rows'[w] = rows[w] /\ flag'[w] = flag[w] /\ pend'[w] = pend[w]
           /\ \A i \in Idx : /\ pend'[v][i] = Unset
                             /\ rows'[v][i] = IF p[i] = Unset THEN rows[v][i] ELSE p[i]
                             /\ flag'[v][i] = IF p[i] = Unset THEN flag[v][i] ELSE TRUE
<1> DEFINE r == [i \in Idx |-> IF p[i] = Unset THEN rows[v][i] ELSE p[i]]
           f == [i \in Idx |-> IF p[i] = Unset THEN flag[v][i] ELSE TRUE]
           n == [i \in Idx |-> Unset]
<1>1. /\ rows' = [rows EXCEPT ![v] = r]
      /\ flag' = [flag EXCEPT ![v] = f]
      /\ pend' = [pend EXCEPT ![v] = n]
  BY DEF CommitRows, TypeOK
<1>2. /\ r \in [Idx -> Uid \cup {NoUid}]
      /\ f \in [Idx -> BOOLEAN]
      /\ n \in [Idx -> Uid \cup {NoUid, Unset}]
  <2>1. /\ rows[v] \in [Idx -> Uid \cup {NoUid}]
        /\ flag[v] \in [Idx -> BOOLEAN]
    BY DEF TypeOK
  <2>2. \A i \in Idx : p[i] # Unset => p[i] \in Uid \cup {NoUid}
    OBVIOUS
  <2>3. r \in [Idx -> Uid \cup {NoUid}]
    BY <2>1, <2>2
  <2>4. \A i \in Idx : (IF p[i] = Unset THEN flag[v][i] ELSE TRUE) \in BOOLEAN
    BY <2>1, Zenon
  <2>5. f \in [Idx -> BOOLEAN]
    BY <2>4, Zenon
  <2>6. n \in [Idx -> Uid \cup {NoUid, Unset}]
    OBVIOUS
  <2>7. QED
    BY <2>3, <2>5, <2>6
<1>3. \A i \in Idx : /\ n[i] = Unset
                     /\ r[i] = IF p[i] = Unset THEN rows[v][i] ELSE p[i]
                     /\ f[i] = IF p[i] = Unset THEN flag[v][i] ELSE TRUE
  OBVIOUS
<1> HIDE DEF r, f, n
<1>4. QED
  BY <1>1, <1>2, <1>3 DEF TypeOK

\* What flagging a block does to each row and version.
LEMMA FlagEffect ==
    ASSUME TypeOK, NEW v \in Version, NEW i \in Idx, SetBlockInvalid(v, i)
    PROVE  /\ flag' \in [Version -> [Idx -> BOOLEAN]]
           /\ status' \in [Version -> {"absent", "incomplete", "valid", "invalid"}]
           /\ \A w \in Version, j \in Idx :
                flag'[w][j] <=>
                    flag[w][j] /\ ~(rows[w][j] = rows[v][i] /\ rows[w][j] # NoUid)
           /\ \A w \in Version :
                \/ status'[w] = status[w]
                \/ status'[w] = "invalid" /\ \E j \in Idx : rows[w][j] # NoUid
<1> DEFINE hit(w) == {j \in Idx : rows[w][j] = rows[v][i] /\ rows[w][j] # NoUid}
<1>1. /\ flag' = [w \in Version |-> [j \in Idx |-> flag[w][j] /\ j \notin hit(w)]]
      /\ status' = [w \in Version |-> IF hit(w) = {} THEN status[w] ELSE "invalid"]
  BY DEF SetBlockInvalid
<1>2. \A w \in Version, j \in Idx :
        j \in hit(w) <=> rows[w][j] = rows[v][i] /\ rows[w][j] # NoUid
  OBVIOUS
<1>3. \A w \in Version : hit(w) # {} => \E j \in Idx : rows[w][j] # NoUid
  OBVIOUS
<1> HIDE DEF hit
<1>4. \A w \in Version, j \in Idx : flag'[w][j] = (flag[w][j] /\ j \notin hit(w))
  BY <1>1, Zenon
<1>5. flag' \in [Version -> [Idx -> BOOLEAN]]
  BY <1>1, Zenon
<1>6. status' \in [Version -> {"absent", "incomplete", "valid", "invalid"}]
  BY <1>1 DEF TypeOK
<1>7. \A w \in Version : status'[w] = IF hit(w) = {} THEN status[w] ELSE "invalid"
  BY <1>1
<1>8. QED
  BY <1>2, <1>3, <1>4, <1>5, <1>6, <1>7

\* One block of a backup.
LEMMA BackupBlockStep ==
    ASSUME VerificationInv, NEW v \in Version, NEW b \in Idx, BackupBlock(v, b)
    PROVE  VerificationInv'
<1>1. TypeOK /\ UidsHaveObjects /\ JobsFit /\ ValidUnlessEmpty
  BY DEF VerificationInv
<1>2. PICK u \in Known(v) \cup {NoUid, <<v, b>>} :
        /\ health' = IF u = <<v, b>> THEN [health EXCEPT ![u] = "good"] ELSE health
        /\ \/ CommitRows(v, [pend[v] EXCEPT ![b] = u])
           \/ /\ pend' = [pend EXCEPT ![v] = [pend[v] EXCEPT ![b] = u]]
              /\ UNCHANGED <<rows, flag>>
  BY DEF BackupBlock
<1>3. /\ at[v] = "backup" /\ b \in left[v]
      /\ left' = [left EXCEPT ![v] = @ \ {b}]
      /\ UNCHANGED <<status, at, cur, target, result, complete>>
  BY DEF BackupBlock, restoreVars
<1>4. u \in Uid \cup {NoUid}
  BY <1>2, OwnUid DEF Known
<1> DEFINE p == [pend[v] EXCEPT ![b] = u]
<1>5. /\ p \in [Idx -> Uid \cup {NoUid, Unset}]
      /\ \A i \in Idx : p[i] = IF i = b THEN u ELSE pend[v][i]
  BY <1>1, <1>4 DEF TypeOK
<1>6. \/ CommitRows(v, p)
      \/ pend' = [pend EXCEPT ![v] = p] /\ UNCHANGED <<rows, flag>>
  BY <1>2
<1> HIDE DEF p
\* objects
<1>7. /\ health' \in [Uid -> {"absent", "good"} \cup Damages]
      /\ \A x \in Uid : health'[x] = IF x = <<v, b>> /\ u = x THEN "good" ELSE health[x]
  BY <1>1, <1>2, OwnUid DEF TypeOK
<1>8. u \in Uid => health'[u] # "absent"
  <2>1. CASE u = <<v, b>>
    BY <1>7, <2>1
  <2>2. CASE u \in Known(v)
    <3>1. \/ \E w \in Version, i \in Idx : rows[w][i] = u
          \/ \E i \in Idx : pend[v][i] = u
      BY <2>2 DEF Known
    <3>2. u \in Uid /\ u # NoUid
      BY <2>2, VerificationAssumption DEF Known
    <3>3. health[u] # "absent"
      BY <1>1, <3>1, <3>2 DEF UidsHaveObjects
    <3>4. QED
      BY <1>7, <3>2, <3>3
  <2>3. CASE u = NoUid
    BY <2>3, VerificationAssumption
  <2>4. QED
    BY <1>2, <2>1, <2>2, <2>3
<1>9. health[<<v, b>>] = "absent"
  BY <1>1, <1>3 DEF UidsHaveObjects
\* rows
<1>10. /\ rows' \in [Version -> [Idx -> Uid \cup {NoUid}]]
       /\ flag' \in [Version -> [Idx -> BOOLEAN]]
       /\ pend' \in [Version -> [Idx -> Uid \cup {NoUid, Unset}]]
       /\ \A w \in Version \ {v} :
            rows'[w] = rows[w] /\ flag'[w] = flag[w] /\ pend'[w] = pend[w]
       /\ \A i \in Idx : /\ pend'[v][i] \in {Unset, p[i]}
                         /\ \/ rows'[v][i] = rows[v][i] /\ flag'[v][i] = flag[v][i]
                            \/ p[i] # Unset /\ rows'[v][i] = p[i] /\ flag'[v][i] = TRUE
  <2>1. CASE CommitRows(v, p)
    <3>1. \A i \in Idx : /\ pend'[v][i] = Unset
                         /\ rows'[v][i] = IF p[i] = Unset THEN rows[v][i] ELSE p[i]
                         /\ flag'[v][i] = IF p[i] = Unset THEN flag[v][i] ELSE TRUE
      BY <1>1, <1>5, <2>1, CommitEffect
    <3>2. \A i \in Idx : /\ pend'[v][i] \in {Unset, p[i]}
                         /\ \/ rows'[v][i] = rows[v][i] /\ flag'[v][i] = flag[v][i]
                            \/ p[i] # Unset /\ rows'[v][i] = p[i] /\ flag'[v][i] = TRUE
      BY <3>1, Zenon
    <3>3. /\ rows' \in [Version -> [Idx -> Uid \cup {NoUid}]]
          /\ flag' \in [Version -> [Idx -> BOOLEAN]]
          /\ pend' \in [Version -> [Idx -> Uid \cup {NoUid, Unset}]]
          /\ \A w \in Version \ {v} :
                rows'[w] = rows[w] /\ flag'[w] = flag[w] /\ pend'[w] = pend[w]
      BY <1>1, <1>5, <2>1, CommitEffect
    <3>4. QED
      BY <3>2, <3>3
  <2>2. CASE pend' = [pend EXCEPT ![v] = p] /\ UNCHANGED <<rows, flag>>
    BY <1>1, <1>5, <2>2 DEF TypeOK
  <2>3. QED
    BY <1>6, <2>1, <2>2
<1>a. \A x \in Uid : health[x] # "absent" => health'[x] # "absent"
  BY <1>7
<1>11. \A i \in Idx : p[i] \in Uid => health'[p[i]] # "absent"
  <2>1. \A i \in Idx : pend[v][i] \in Uid => health[pend[v][i]] # "absent"
    BY <1>1 DEF UidsHaveObjects
  <2>2. QED
    BY <1>5, <1>8, <1>a, <2>1
<1>b. ASSUME NEW w \in Version, w # v
      PROVE  /\ Filled(w)' = Filled(w) /\ left'[w] = left[w]
             /\ rows'[w] = rows[w] /\ flag'[w] = flag[w]
  <2>1. rows'[w] = rows[w] /\ flag'[w] = flag[w]
    BY <1>10, <1>b
  <2>2. left'[w] = left[w]
    BY <1>1, <1>3, <1>b DEF TypeOK
  <2>3. QED
    BY <2>1, <2>2, FilledKept
<1>12. TypeOK'
  BY <1>1, <1>3, <1>7, <1>10 DEF TypeOK
<1>13. UidsHaveObjects'
  <2>1. ASSUME NEW w \in Version, NEW i \in Idx
        PROVE  /\ rows'[w][i] # NoUid => health'[rows'[w][i]] # "absent"
               /\ pend'[w][i] \in Uid => health'[pend'[w][i]] # "absent"
    <3>a. /\ rows[w][i] \in Uid => health'[rows[w][i]] # "absent"
          /\ pend[w][i] \in Uid => health'[pend[w][i]] # "absent"
      BY <1>1, <1>a, VerificationAssumption DEF UidsHaveObjects
    <3>b. /\ rows'[w][i] \in Uid \cup {NoUid}
          /\ Unset \notin Uid
      BY <1>10, VerificationAssumption
    <3>1. CASE w = v
      BY <1>10, <1>11, <3>1, <3>a, <3>b
    <3>2. CASE w # v
      BY <1>10, <3>2, <3>a, <3>b
    <3>3. QED
      BY <3>1, <3>2
  <2>2. ASSUME NEW w \in Version, NEW i \in Idx,
               status'[w] = "absent" \/ (at'[w] = "backup" /\ i \in left'[w])
        PROVE  health'[<<w, i>>] = "absent"
    <3>1. status[w] = "absent" \/ (at[w] = "backup" /\ i \in left[w])
      BY <1>1, <1>3, <2>2 DEF TypeOK
    <3>2. <<w, i>> # <<v, b>>
      BY <1>1, <1>3, <2>2, OwnUid DEF TypeOK, JobsFit
    <3>3. QED
      BY <1>1, <1>7, <3>1, <3>2, OwnUid DEF UidsHaveObjects
  <2>3. QED
    BY <2>1, <2>2 DEF UidsHaveObjects
<1>14. JobsFit'
  <2>1. status[v] # "absent"
    BY <1>1, <1>3 DEF JobsFit
  <2>3. ASSUME NEW w \in Version
        PROVE  (/\ status[w] = "absent" =>
                      at[w] = "idle" /\ result[w] = "none" /\ Filled(w) = {}
                /\ at[w] \in {"backup", "committed"} => status[w] # "valid"
                /\ at[w] \in {"backup", "committed", "marked"} => result[w] = "none"
                /\ at[w] = "deep" => left[w] = Filled(w)
                /\ at[w] = "restore" => left[w] \subseteq Filled(w))'
    <3>1. CASE w = v
      BY <1>1, <1>3, <2>1, <3>1 DEF JobsFit
    <3>2. CASE w # v
      BY <1>1, <1>3, <1>b, <3>2 DEF JobsFit
    <3>3. QED
      BY <3>1, <3>2
  <2>4. QED
    BY <2>3 DEF JobsFit
<1>15. ValidUnlessEmpty'
  <2>1. status[v] # "valid"
    BY <1>1, <1>3 DEF JobsFit
  <2>2. QED
    BY <1>1, <1>3, <1>b, <2>1 DEF ValidUnlessEmpty
<1>16. ASSUME NoKeyFaults
       PROVE  (OnlyDamagedFlagged /\ RestoringHonestly /\ RestoreHonest)'
  <2>1. OnlyDamagedFlagged /\ RestoringHonestly /\ RestoreHonest
    BY <1>16 DEF VerificationInv
  <2>2. OnlyDamagedFlagged'
    <3>1. ASSUME NEW w \in Version, NEW i \in Idx, ~flag'[w][i]
          PROVE  rows'[w][i] # NoUid /\ health'[rows'[w][i]] \in Damages
      <4>1. rows'[w][i] = rows[w][i] /\ ~flag[w][i]
        BY <1>10, <3>1, Zenon
      <4>2. rows[w][i] # NoUid /\ health[rows[w][i]] \in Damages
        BY <2>1, <4>1 DEF OnlyDamagedFlagged, Damaged
      <4>3. rows[w][i] \in Uid /\ rows[w][i] # <<v, b>>
        <5>1. rows[w][i] \in Uid \/ rows[w][i] = NoUid
          BY <1>1, RowType
        <5>2. health[<<v, b>>] \notin Damages
          BY <1>9 DEF Damages
        <5>3. QED
          BY <4>2, <5>1, <5>2
      <4>4. QED
        BY <1>7, <4>1, <4>2, <4>3
    <3>2. QED
      BY <3>1 DEF OnlyDamagedFlagged, Damaged
  <2>3. RestoringHonestly'
    BY <1>3, <1>b, <2>1 DEF RestoringHonestly
  <2>4. RestoreHonest'
    BY <1>1, <1>3, <1>b, <2>1 DEF RestoreHonest, JobsFit
  <2>5. QED
    BY <2>2, <2>3, <2>4
<1>17. NoKeyFaults' = NoKeyFaults
  BY DEF NoKeyFaults
<1>18. QED
  BY <1>12, <1>13, <1>14, <1>15, <1>16, <1>17 DEF VerificationInv

\* A backup session commits for the last time, or loses what it has not
\* committed, and is over.
LEMMA SessionEndStep ==
    ASSUME VerificationInv, NEW v \in Version, at[v] \in {"backup", "committed", "marked"},
           NEW p \in [Idx -> Uid \cup {NoUid, Unset}],
           \A i \in Idx : p[i] \in {Unset, pend[v][i]}, CommitRows(v, p),
           NEW s \in {status[v], "invalid"}, at[v] = "backup" \/ s = "invalid", status' = [status EXCEPT ![v] = s],
           NEW a \in {"committed", "idle"}, at' = [at EXCEPT ![v] = a],
           left' = [left EXCEPT ![v] = {}],
           UNCHANGED <<health, cur, target, result, complete>>
    PROVE  VerificationInv'
<1>1. TypeOK /\ UidsHaveObjects /\ JobsFit /\ ValidUnlessEmpty
  BY DEF VerificationInv
<1>2. /\ rows' \in [Version -> [Idx -> Uid \cup {NoUid}]]
      /\ flag' \in [Version -> [Idx -> BOOLEAN]]
      /\ pend' \in [Version -> [Idx -> Uid \cup {NoUid, Unset}]]
  BY <1>1, CommitEffect
<1>3. \A w \in Version \ {v} :
          rows'[w] = rows[w] /\ flag'[w] = flag[w] /\ pend'[w] = pend[w]
  BY <1>1, CommitEffect
<1>4. \A i \in Idx : /\ pend'[v][i] = Unset
                     /\ rows'[v][i] = IF p[i] = Unset THEN rows[v][i] ELSE p[i]
                     /\ flag'[v][i] = IF p[i] = Unset THEN flag[v][i] ELSE TRUE
  BY <1>1, CommitEffect
<1>5. status[v] # "absent" /\ (at[v] = "backup" => status[v] # "valid") /\ result[v] = "none"
  BY <1>1 DEF JobsFit
<1>6. /\ status'[v] \notin {"absent", "valid"}
      /\ at'[v] \in {"committed", "idle"} /\ left'[v] = {}
  BY <1>1, <1>5 DEF TypeOK
<1>7. ASSUME NEW w \in Version, w # v
      PROVE  /\ Filled(w)' = Filled(w) /\ left'[w] = left[w] /\ flag'[w] = flag[w]
             /\ status'[w] = status[w] /\ at'[w] = at[w]
  BY <1>1, <1>3, <1>7, FilledKept DEF TypeOK
<1>8. TypeOK'
  BY <1>1, <1>2 DEF TypeOK
<1>9. UidsHaveObjects'
  <2>1. ASSUME NEW w \in Version, NEW i \in Idx
        PROVE  /\ rows'[w][i] # NoUid => health'[rows'[w][i]] # "absent"
               /\ pend'[w][i] \in Uid => health'[pend'[w][i]] # "absent"
    <3>1. /\ rows[w][i] # NoUid => health[rows[w][i]] # "absent"
          /\ pend[w][i] \in Uid => health[pend[w][i]] # "absent"
      BY <1>1 DEF UidsHaveObjects
    <3>2. Unset \notin Uid /\ rows'[w][i] \in Uid \cup {NoUid}
      BY <1>2, VerificationAssumption
    <3>3. CASE w = v
      BY <1>4, <3>1, <3>2, <3>3
    <3>4. CASE w # v
      BY <1>3, <3>1, <3>4
    <3>5. QED
      BY <3>3, <3>4
  <2>2. ASSUME NEW w \in Version, NEW i \in Idx,
               status'[w] = "absent" \/ (at'[w] = "backup" /\ i \in left'[w])
        PROVE  health'[<<w, i>>] = "absent"
    BY <1>1, <1>6, <1>7, <2>2 DEF UidsHaveObjects
  <2>3. QED
    BY <2>1, <2>2 DEF UidsHaveObjects
<1>10. JobsFit'
  BY <1>1, <1>6, <1>7 DEF JobsFit
<1>11. ValidUnlessEmpty'
  BY <1>1, <1>6, <1>7 DEF ValidUnlessEmpty
<1>12. ASSUME NoKeyFaults
       PROVE  (OnlyDamagedFlagged /\ RestoringHonestly /\ RestoreHonest)'
  <2>1. OnlyDamagedFlagged /\ RestoringHonestly /\ RestoreHonest
    BY <1>12 DEF VerificationInv
  <2>2. ASSUME NEW w \in Version, NEW i \in Idx, ~flag'[w][i]
        PROVE  rows'[w][i] = rows[w][i] /\ ~flag[w][i]
    <3>1. CASE w = v
      BY <1>4, <2>2, <3>1, Zenon
    <3>2. CASE w # v
      BY <1>3, <2>2, <3>2, Zenon
    <3>3. QED
      BY <3>1, <3>2
  <2>3. OnlyDamagedFlagged'
    BY <2>1, <2>2 DEF OnlyDamagedFlagged, Damaged
  <2>4. RestoringHonestly'
    BY <1>6, <1>7, <2>1 DEF RestoringHonestly
  <2>5. RestoreHonest'
    BY <1>5, <1>7, <2>1 DEF RestoreHonest
  <2>6. QED
    BY <2>3, <2>4, <2>5
<1>13. NoKeyFaults' = NoKeyFaults
  BY DEF NoKeyFaults
<1>14. QED
  BY <1>8, <1>9, <1>10, <1>11, <1>12, <1>13 DEF VerificationInv

LEMMA BackupStepKeeps ==
    ASSUME VerificationInv, NEW v \in Version,
           StartBackup(v) \/ CommitBackup(v) \/ MarkValid(v) \/ EndBackup(v) \/ FailBackup(v)
    PROVE  VerificationInv'
<1>1. TypeOK /\ UidsHaveObjects /\ JobsFit /\ ValidUnlessEmpty
  BY DEF VerificationInv
<1>2. pend[v] \in [Idx -> Uid \cup {NoUid, Unset}]
  BY <1>1 DEF TypeOK
<1>3. CASE CommitBackup(v)
  <2>1. /\ at[v] = "backup" /\ CommitRows(v, pend[v])
        /\ at' = [at EXCEPT ![v] = "committed"]
        /\ UNCHANGED <<health, cur, target, result, complete>>
    BY <1>3 DEF CommitBackup, restoreVars
  <2>2. status' = [status EXCEPT ![v] = status[v]] /\ left' = [left EXCEPT ![v] = {}]
    BY <1>1, <1>3 DEF CommitBackup, TypeOK
  <2>3. QED
    BY <1>2, <2>1, <2>2, SessionEndStep
<1>4. CASE FailBackup(v)
  <2>1. /\ at[v] \in {"backup", "committed", "marked"}
        /\ status' = [status EXCEPT ![v] = "invalid"]
        /\ at' = [at EXCEPT ![v] = "idle"]
        /\ left' = [left EXCEPT ![v] = {}]
        /\ UNCHANGED <<health, cur, target, result, complete>>
    BY <1>4 DEF FailBackup, restoreVars
  <2> DEFINE none == [i \in Idx |-> Unset]
  <2>2. none \in [Idx -> Uid \cup {NoUid, Unset}] /\ \A i \in Idx : none[i] = Unset
    OBVIOUS
  <2>3. CommitRows(v, pend[v]) \/ CommitRows(v, none)
    BY <1>4 DEF FailBackup
  <2> HIDE DEF none
  <2>4. CASE CommitRows(v, pend[v])
    BY <1>2, <2>1, <2>4, SessionEndStep
  <2>5. CASE CommitRows(v, none)
    BY <2>1, <2>2, <2>5, SessionEndStep
  <2>6. QED
    BY <2>3, <2>4, <2>5
<1>5. CASE StartBackup(v) \/ MarkValid(v) \/ EndBackup(v)
  <2>1. UNCHANGED <<rows, flag, pend, health, cur, target, result>>
    BY <1>5 DEF StartBackup, MarkValid, EndBackup, restoreVars
  <2>2. \A w \in Version : Filled(w)' = Filled(w)
    BY <2>1, FilledKept
  <2>3. ASSUME NEW w \in Version, w # v
        PROVE  status'[w] = status[w] /\ at'[w] = at[w] /\ left'[w] = left[w]
    BY <1>1, <1>5, <2>3 DEF StartBackup, MarkValid, EndBackup, TypeOK
  <2>4. \/ /\ status[v] = "absent"
           /\ status'[v] = "incomplete" /\ at'[v] = "backup" /\ complete' = complete
        \/ /\ at[v] = "committed"
           /\ status'[v] = "valid" /\ at'[v] = "marked" /\ complete' = complete \cup {v}
        \/ /\ at[v] = "marked"
           /\ status'[v] = status[v] /\ at'[v] = "idle" /\ complete' = complete
    BY <1>1, <1>5 DEF StartBackup, MarkValid, EndBackup, TypeOK
  <2>5. TypeOK'
    <3>1. CASE StartBackup(v)
      BY <1>1, <2>1, <3>1 DEF StartBackup, TypeOK
    <3>2. CASE MarkValid(v)
      BY <1>1, <2>1, <3>2 DEF MarkValid, TypeOK
    <3>3. CASE EndBackup(v)
      BY <1>1, <2>1, <3>3 DEF EndBackup, TypeOK
    <3>4. QED
      BY <1>5, <3>1, <3>2, <3>3
  <2>6. UidsHaveObjects'
    BY <1>1, <2>1, <2>3, <2>4 DEF UidsHaveObjects
  <2>7. JobsFit'
    BY <1>1, <2>1, <2>2, <2>3, <2>4 DEF JobsFit
  <2>8. ValidUnlessEmpty'
    BY <1>1, <2>2, <2>3, <2>4 DEF ValidUnlessEmpty
  <2>9. ASSUME NoKeyFaults
        PROVE  (OnlyDamagedFlagged /\ RestoringHonestly /\ RestoreHonest)'
    <3>1. OnlyDamagedFlagged /\ RestoringHonestly /\ RestoreHonest
      BY <2>9 DEF VerificationInv
    <3>2. OnlyDamagedFlagged'
      BY <2>1, <3>1 DEF OnlyDamagedFlagged, Damaged
    <3>3. RestoringHonestly' /\ RestoreHonest'
      BY <2>1, <2>2, <2>3, <2>4, <3>1 DEF RestoringHonestly, RestoreHonest
    <3>4. QED
      BY <3>2, <3>3
  <2>10. NoKeyFaults' = NoKeyFaults
    BY DEF NoKeyFaults
  <2>11. QED
    BY <2>5, <2>6, <2>7, <2>8, <2>9, <2>10 DEF VerificationInv
<1>6. QED
  BY <1>3, <1>4, <1>5

LEMMA DecayKeeps ==
    ASSUME VerificationInv, NEW u \in Uid, Decay(u)
    PROVE  VerificationInv'
<1>1. TypeOK /\ UidsHaveObjects /\ JobsFit /\ ValidUnlessEmpty
  BY DEF VerificationInv
<1>2. UNCHANGED <<status, rows, flag, pend, at, left, cur, target, result, complete>>
  BY DEF Decay, restoreVars
<1>3. PICK d \in Damage : health[u] = "good" /\ health' = [health EXCEPT ![u] = d]
  BY DEF Decay
<1>4. d \in Damages
  BY VerificationAssumption
<1>5. \A x \in Uid : /\ health[x] = "absent" <=> health'[x] = "absent"
                     /\ health[x] \in Damages => health'[x] \in Damages
  BY <1>1, <1>3, <1>4 DEF TypeOK, Damages
<1>6. \A w \in Version : Filled(w)' = Filled(w)
  BY <1>2, FilledKept
<1>7. \A w \in Version, i \in Idx : rows[w][i] \in Uid \/ rows[w][i] = NoUid
  BY <1>1, RowType
<1>8. TypeOK'
  BY <1>1, <1>2, <1>3, <1>4 DEF TypeOK
<1>9. UidsHaveObjects'
  BY <1>1, <1>2, <1>5, <1>7, OwnUid DEF UidsHaveObjects
<1>10. JobsFit' /\ ValidUnlessEmpty'
  BY <1>1, <1>2, <1>6 DEF JobsFit, ValidUnlessEmpty
<1>11. ASSUME NoKeyFaults
       PROVE  (OnlyDamagedFlagged /\ RestoringHonestly /\ RestoreHonest)'
  <2>1. OnlyDamagedFlagged /\ RestoringHonestly /\ RestoreHonest
    BY <1>11 DEF VerificationInv
  <2>2. OnlyDamagedFlagged'
    BY <1>2, <1>5, <1>7, <2>1 DEF OnlyDamagedFlagged, Damaged
  <2>3. RestoringHonestly' /\ RestoreHonest'
    BY <1>2, <1>6, <2>1 DEF RestoringHonestly, RestoreHonest
  <2>4. QED
    BY <2>2, <2>3
<1>12. NoKeyFaults' = NoKeyFaults
  BY DEF NoKeyFaults
<1>13. QED
  BY <1>8, <1>9, <1>10, <1>11, <1>12 DEF VerificationInv

\* Steps that change only the job of a version, its status or its result: the
\* start and the end of scrubs and restores.
LEMMA JobStepKeeps ==
    ASSUME VerificationInv, NEW v \in Version,
           \/ StartScrub(v) \/ EndScrub(v) \/ StartDeepScrub(v) \/ EndDeepScrub(v)
           \/ CloseSession(v) \/ StartRestore(v) \/ FailRestore(v) \/ EndRestore(v)
    PROVE  VerificationInv'
<1>1. TypeOK /\ UidsHaveObjects /\ JobsFit /\ ValidUnlessEmpty
  BY DEF VerificationInv
<1>2. UNCHANGED <<rows, flag, pend, health, complete>>
  BY DEF StartScrub, EndScrub, StartDeepScrub, EndDeepScrub, CloseSession,
         StartRestore, FailRestore, EndRestore
<1>3. \A w \in Version : Filled(w)' = Filled(w) /\ Filled(w) \subseteq Idx
  BY <1>2, FilledKept DEF Filled
\* the version whose job it is
<1>4. /\ TypeOK'
      /\ at[v] # "backup" /\ at'[v] \notin {"backup", "committed", "marked"}
      /\ status[v] # "absent" /\ status'[v] # "absent"
      /\ status'[v] = "valid" /\ status[v] # "valid" => Filled(v) = {}
      /\ at'[v] = "deep" => left'[v] = Filled(v)
      /\ at'[v] = "restore" => left'[v] = Filled(v)
      /\ result'[v] = "done" => \/ result[v] = "done" /\ target'[v] = target[v]
                                \/ /\ at[v] = "restore" /\ left[v] = {}
                                   /\ target'[v] = target[v]
  <2>0. Filled(v) \in SUBSET Idx
    BY DEF Filled
  <2>1. CASE StartScrub(v)
    <3>1. PICK full \in BOOLEAN : \E S \in Selections(v, full) :
                left' = [left EXCEPT ![v] = S]
      BY <2>1 DEF StartScrub
    <3>2. PICK S \in Selections(v, full) : left' = [left EXCEPT ![v] = S]
      BY <3>1
    <3>3. S \in SUBSET Idx
      BY <2>0 DEF Selections
    <3>4. QED
      BY <1>1, <1>2, <2>1, <3>2, <3>3 DEF StartScrub, TypeOK, restoreVars
  <2>2. CASE EndScrub(v)
    BY <1>1, <2>2 DEF EndScrub, TypeOK, restoreVars, JobsFit
  <2>3. CASE StartDeepScrub(v)
    <3>1. PICK full \in BOOLEAN :
            /\ at' = [at EXCEPT ![v] = IF full THEN "deep" ELSE "deep part"]
            /\ \E S \in Selections(v, full) : left' = [left EXCEPT ![v] = S]
      BY <2>3 DEF StartDeepScrub
    <3>2. PICK S \in Selections(v, full) : left' = [left EXCEPT ![v] = S]
      BY <3>1
    <3>3. S \in SUBSET Idx /\ (full => S = Filled(v))
      BY <2>0 DEF Selections
    <3>4. at' \in [Version -> {"idle", "backup", "committed", "marked", "scrub", "deep",
                               "deep part", "leaked", "restore"}]
          /\ at'[v] = IF full THEN "deep" ELSE "deep part"
      BY <1>1, <3>1 DEF TypeOK
    <3>5. QED
      BY <1>1, <1>2, <2>3, <3>2, <3>3, <3>4 DEF StartDeepScrub, TypeOK, restoreVars
  <2>4. CASE EndDeepScrub(v)
    <3>1. TypeOK'
      BY <1>1, <2>4 DEF EndDeepScrub, TypeOK, restoreVars
    <3>2. /\ at[v] \in {"deep", "deep part"} /\ at'[v] \in {"idle", "leaked"}
          /\ result' = result /\ target' = target
          /\ status'[v] # status[v] =>
                at[v] = "deep" /\ left[v] = {} /\ status'[v] = "valid"
      BY <1>1, <2>4 DEF EndDeepScrub, TypeOK, restoreVars
    <3>3. status[v] # "absent" /\ (at[v] = "deep" => left[v] = Filled(v))
      BY <1>1, <3>2 DEF JobsFit
    <3>4. QED
      BY <3>1, <3>2, <3>3
  <2>5. CASE CloseSession(v)
    BY <1>1, <2>5 DEF CloseSession, TypeOK, restoreVars, JobsFit
  <2>6. CASE StartRestore(v)
    <3> DEFINE old == [i \in Idx |-> "old"]
    <3>1. /\ target' = [target EXCEPT ![v] = old]
          /\ old \in [Idx -> {"old", "right", "wrong"}]
          /\ Last \in Idx
      BY <2>6, VerificationAssumption DEF StartRestore, Idx
    <3> HIDE DEF old
    <3>a. /\ target' \in [Version -> [Idx -> {"old", "right", "wrong"}]]
          /\ cur' \in [Version -> Idx] /\ left' \in [Version -> SUBSET Idx]
      <4>1. target' \in [Version -> [Idx -> {"old", "right", "wrong"}]]
        BY <1>1, <3>1 DEF TypeOK
      <4>2. cur' \in [Version -> Idx]
        BY <1>1, <2>6, <3>1 DEF StartRestore, TypeOK
      <4>3. left' \in [Version -> SUBSET Idx]
        BY <1>1, <2>0, <2>6 DEF StartRestore, TypeOK
      <4>4. QED
        BY <4>1, <4>2, <4>3
    <3>b. /\ at' \in [Version -> {"idle", "backup", "committed", "marked", "scrub", "deep",
                                  "deep part", "leaked", "restore"}]
          /\ result' \in [Version -> {"none", "done", "failed"}]
          /\ UNCHANGED <<status, rows, flag, pend, health, complete>>
      BY <1>1, <2>6 DEF StartRestore, TypeOK
    <3>2. TypeOK'
      BY <1>1, <3>a, <3>b DEF TypeOK
    <3>3. QED
      BY <1>1, <2>6, <3>2 DEF StartRestore, TypeOK
  <2>7. CASE FailRestore(v)
    BY <1>1, <2>7 DEF FailRestore, TypeOK, restoreVars, JobsFit
  <2>8. CASE EndRestore(v)
    BY <1>1, <2>8 DEF EndRestore, TypeOK, restoreVars, JobsFit
  <2>9. QED
    BY <2>1, <2>2, <2>3, <2>4, <2>5, <2>6, <2>7, <2>8
\* the others
<1>5. ASSUME NEW w \in Version, w # v
      PROVE  /\ status'[w] = status[w] /\ at'[w] = at[w] /\ left'[w] = left[w]
             /\ target'[w] = target[w] /\ result'[w] = result[w]
  BY <1>1, <1>5 DEF StartScrub, EndScrub, StartDeepScrub, EndDeepScrub, CloseSession,
         StartRestore, FailRestore, EndRestore, TypeOK, restoreVars
<1>6. UidsHaveObjects'
  BY <1>1, <1>2, <1>4, <1>5 DEF UidsHaveObjects
<1>7. JobsFit' /\ ValidUnlessEmpty'
  BY <1>1, <1>2, <1>3, <1>4, <1>5 DEF JobsFit, ValidUnlessEmpty
<1>8. ASSUME NoKeyFaults
      PROVE  (OnlyDamagedFlagged /\ RestoringHonestly /\ RestoreHonest)'
  <2>1. OnlyDamagedFlagged /\ RestoringHonestly /\ RestoreHonest
    BY <1>8 DEF VerificationInv
  <2>2. OnlyDamagedFlagged'
    BY <1>2, <2>1 DEF OnlyDamagedFlagged, Damaged
  <2>3. RestoringHonestly'
    BY <1>2, <1>3, <1>4, <1>5, <2>1 DEF RestoringHonestly
  <2>4. RestoreHonest'
    BY <1>2, <1>3, <1>4, <1>5, <2>1 DEF RestoringHonestly, RestoreHonest
  <2>5. QED
    BY <2>2, <2>3, <2>4
<1>9. NoKeyFaults' = NoKeyFaults
  BY DEF NoKeyFaults
<1>10. QED
  BY <1>4, <1>6, <1>7, <1>8, <1>9 DEF VerificationInv

\* The result of a read is handled, with the right keys or without.
LEMMA RestoreBlockKeeps ==
    ASSUME VerificationInv, NEW v \in Version, NEW b \in Idx, RestoreBlock(v, b)
    PROVE  VerificationInv'
<1>1. TypeOK /\ UidsHaveObjects /\ JobsFit /\ ValidUnlessEmpty
  BY DEF VerificationInv
<1>2. /\ at[v] = "restore" /\ b \in left[v]
      /\ left' = [left EXCEPT ![v] = @ \ {b}]
      /\ UNCHANGED <<rows, pend, health, at, result, complete>>
  BY DEF RestoreBlock
<1>3. \A w \in Version : Filled(w)' = Filled(w)
  BY <1>2, FilledKept
<1>4. b \in Filled(v) /\ rows[v][b] # NoUid
  BY <1>1, <1>2 DEF JobsFit, Filled
<1>5. cur[v] \in Idx
  BY <1>1 DEF TypeOK
<1> DEFINE wrote(what) == WriteTarget(v, b, what)
           same == UNCHANGED <<flag, status>>
<1>6. \/ health[rows[v][b]] = "good" /\ wrote("right") /\ same
      \/ health[rows[v][b]] \in Damages /\ wrote("wrong") /\ SetBlockInvalid(v, b)
      \/ health[rows[v][b]] \in Damages /\ wrote("right") /\ SetBlockInvalid(v, b)
      \/ "key" \in Fault /\ SetBlockInvalid(v, cur[v]) /\ UNCHANGED <<target, cur>>
  BY DEF RestoreBlock, Damages
<1>7. /\ flag' \in [Version -> [Idx -> BOOLEAN]]
      /\ status' \in [Version -> {"absent", "incomplete", "valid", "invalid"}]
      /\ \A w \in Version, j \in Idx : flag'[w][j] => flag[w][j]
      /\ \A w \in Version : \/ status'[w] = status[w]
                            \/ status'[w] = "invalid" /\ \E j \in Idx : rows[w][j] # NoUid
  <2>1. CASE same
    <3>1. flag \in [Version -> [Idx -> BOOLEAN]]
      BY <1>1 DEF TypeOK
    <3>2. QED
      BY <1>1, <2>1, <3>1 DEF TypeOK
  <2>2. ASSUME NEW c \in Idx, SetBlockInvalid(v, c) PROVE <1>7!:
    BY <1>1, <2>2, FlagEffect
  <2>3. QED
    BY <1>5, <1>6, <2>1, <2>2
<1>8. /\ target' \in [Version -> [Idx -> {"old", "right", "wrong"}]]
      /\ cur' \in [Version -> Idx]
      /\ left' \in [Version -> SUBSET Idx]
  <2>1. ASSUME NEW what \in {"right", "wrong"}, wrote(what)
        PROVE  target' \in [Version -> [Idx -> {"old", "right", "wrong"}]]
               /\ cur' \in [Version -> Idx]
    <3>1. /\ target' = [target EXCEPT ![v] = [target[v] EXCEPT ![b] = what]]
          /\ cur' = [cur EXCEPT ![v] = b]
      BY <1>1, <2>1 DEF WriteTarget, TypeOK
    <3>2. [target[v] EXCEPT ![b] = what] \in [Idx -> {"old", "right", "wrong"}]
      BY <1>1 DEF TypeOK
    <3>3. QED
      BY <1>1, <3>1, <3>2 DEF TypeOK
  <2>2. left' \in [Version -> SUBSET Idx]
    BY <1>1, <1>2 DEF TypeOK
  <2>3. CASE UNCHANGED <<target, cur>>
    BY <1>1, <2>2, <2>3 DEF TypeOK
  <2>4. QED
    BY <1>6, <2>1, <2>2, <2>3
<1>9. TypeOK'
  BY <1>1, <1>2, <1>7, <1>8 DEF TypeOK
<1>10. \A w \in Version : (status'[w] = "absent") <=> (status[w] = "absent")
  <2>1. \A w \in Version : status[w] = "absent" => Filled(w) = {}
    BY <1>1 DEF JobsFit
  <2>2. QED
    BY <1>7, <2>1 DEF Filled
<1>11. UidsHaveObjects'
  <2>1. ASSUME NEW w \in Version, at[w] = "backup"
        PROVE  left'[w] = left[w]
    BY <1>1, <1>2, <2>1 DEF TypeOK
  <2>2. QED
    BY <1>1, <1>2, <1>10, <2>1 DEF UidsHaveObjects
<1>12. JobsFit'
  <2>1. ASSUME NEW w \in Version
        PROVE  (/\ status[w] = "absent" =>
                      at[w] = "idle" /\ result[w] = "none" /\ Filled(w) = {}
                /\ at[w] \in {"backup", "committed"} => status[w] # "valid"
                /\ at[w] \in {"backup", "committed", "marked"} => result[w] = "none"
                /\ at[w] = "deep" => left[w] = Filled(w)
                /\ at[w] = "restore" => left[w] \subseteq Filled(w))'
    <3>1. left'[w] \subseteq left[w] /\ (w # v => left'[w] = left[w])
      BY <1>1, <1>2 DEF TypeOK
    <3>2. status'[w] = "valid" => status[w] = "valid"
      BY <1>7
    <3>3. QED
      BY <1>1, <1>2, <1>3, <1>10, <3>1, <3>2 DEF JobsFit
  <2>2. QED
    BY <2>1 DEF JobsFit
<1>13. ValidUnlessEmpty'
  BY <1>1, <1>2, <1>3, <1>7 DEF ValidUnlessEmpty
<1>14. ASSUME NoKeyFaults
       PROVE  (OnlyDamagedFlagged /\ RestoringHonestly /\ RestoreHonest)'
  <2>1. OnlyDamagedFlagged /\ RestoringHonestly /\ RestoreHonest
    BY <1>14 DEF VerificationInv
  \* the block is written right, or it is damaged and flagged
  <2>2. \E what \in {"right", "wrong"} :
            /\ wrote(what)
            /\ \/ what = "right" /\ same
               \/ health[rows[v][b]] \in Damages /\ SetBlockInvalid(v, b)
    BY <1>6, <1>14 DEF NoKeyFaults
  <2>3. PICK what \in {"right", "wrong"} :
            /\ wrote(what)
            /\ \/ what = "right" /\ same
               \/ health[rows[v][b]] \in Damages /\ SetBlockInvalid(v, b)
    BY <2>2
  <2>4. \A w \in Version, j \in Idx :
            target'[w][j] = IF w = v /\ j = b THEN what ELSE target[w][j]
    BY <1>1, <2>3 DEF WriteTarget, TypeOK
  <2>5. /\ what = "wrong" => ~flag'[v][b]
        /\ \A w \in Version, j \in Idx : ~flag'[w][j] =>
              \/ ~flag[w][j]
              \/ rows[w][j] # NoUid /\ health[rows[w][j]] \in Damages
    <3>1. CASE what = "right" /\ same
      BY <3>1
    <3>2. CASE health[rows[v][b]] \in Damages /\ SetBlockInvalid(v, b)
      <4>1. \A w \in Version, j \in Idx : flag'[w][j] <=>
                flag[w][j] /\ ~(rows[w][j] = rows[v][b] /\ rows[w][j] # NoUid)
        BY <1>1, <3>2, FlagEffect
      <4>2. ~flag'[v][b]
        BY <1>4, <4>1
      <4>3. \A w \in Version, j \in Idx : ~flag'[w][j] =>
              \/ ~flag[w][j]
              \/ rows[w][j] # NoUid /\ health[rows[w][j]] \in Damages
        BY <3>2, <4>1
      <4>4. QED
        BY <4>2, <4>3
    <3>3. QED
      BY <2>3, <3>1, <3>2
  <2>6. OnlyDamagedFlagged'
    BY <1>2, <2>1, <2>5 DEF OnlyDamagedFlagged, Damaged
  <2>7. ASSUME NEW w \in Version, NEW j \in Idx,
               target[w][j] = "right" \/ ~flag[w][j] \/ (w = v /\ j = b)
        PROVE  target'[w][j] = "right" \/ ~flag'[w][j]
    BY <1>7, <2>4, <2>5, <2>7
  <2>8. RestoringHonestly'
    <3>1. ASSUME NEW w \in Version, at'[w] = "restore", NEW j \in Filled(w)' \ left'[w]
          PROVE  target'[w][j] = "right" \/ ~flag'[w][j]
      <4>1. at[w] = "restore" /\ j \in Filled(w) /\ j \in Idx
        BY <1>2, <1>3, <3>1 DEF Filled
      <4>2. j \notin left[w] \/ (w = v /\ j = b)
        BY <1>1, <1>2, <3>1 DEF TypeOK
      <4>3. QED
        BY <2>1, <2>7, <4>1, <4>2 DEF RestoringHonestly
    <3>2. QED
      BY <3>1 DEF RestoringHonestly
  <2>9. RestoreHonest'
    <3>1. ASSUME NEW w \in Version, result'[w] = "done", NEW j \in Filled(w)'
          PROVE  target'[w][j] = "right" \/ ~flag'[w][j]
      <4>1. result[w] = "done" /\ j \in Filled(w) /\ j \in Idx
        BY <1>2, <1>3, <3>1 DEF Filled
      <4>2. QED
        BY <2>1, <2>7, <4>1 DEF RestoreHonest
    <3>2. QED
      BY <3>1 DEF RestoreHonest
  <2>10. QED
    BY <2>6, <2>8, <2>9
<1>15. NoKeyFaults' = NoKeyFaults
  BY DEF NoKeyFaults
<1>16. QED
  BY <1>9, <1>11, <1>12, <1>13, <1>14, <1>15 DEF VerificationInv

-----------------------------------------------------------------------------

\* The invariant holds in every state, whatever fails.
THEOREM VerificationInvariance == Spec => []VerificationInv
<1>1. Init => VerificationInv
  <2> SUFFICES ASSUME Init PROVE VerificationInv
    OBVIOUS
  <2>1. Last \in Idx
    BY VerificationAssumption DEF Idx
  <2>2. TypeOK
    BY <2>1 DEF Init, TypeOK
  <2>3. \A v \in Version : Filled(v) = {}
    BY DEF Init, Filled
  <2>4. \A v \in Version, i \in Idx : pend[v][i] \notin Uid /\ rows[v][i] = NoUid
    BY VerificationAssumption DEF Init
  <2>5. UidsHaveObjects
    BY <2>4, OwnUid DEF Init, UidsHaveObjects
  <2>6. JobsFit /\ ValidUnlessEmpty
    BY <2>3 DEF Init, JobsFit, ValidUnlessEmpty
  <2>7. OnlyDamagedFlagged /\ RestoringHonestly /\ RestoreHonest
    BY <2>3 DEF Init, OnlyDamagedFlagged, RestoringHonestly, RestoreHonest
  <2>8. QED
    BY <2>2, <2>5, <2>6, <2>7 DEF VerificationInv
<1>2. VerificationInv /\ [Next]_vars => VerificationInv'
  <2> SUFFICES ASSUME VerificationInv, [Next]_vars PROVE VerificationInv'
    OBVIOUS
  <2>1. CASE UNCHANGED vars
    <3>1. UNCHANGED <<status, rows, flag, pend, health, at, left, cur, target, result,
                      complete>>
      BY <2>1 DEF vars
    <3>2. \A v \in Version : Filled(v)' = Filled(v)
      BY <3>1, FilledKept
    <3>3. TypeOK /\ UidsHaveObjects /\ JobsFit /\ ValidUnlessEmpty
      BY DEF VerificationInv
    <3>4. TypeOK'
      BY <3>1, <3>3 DEF TypeOK
    <3>5. UidsHaveObjects'
      BY <3>1, <3>3 DEF UidsHaveObjects
    <3>6. JobsFit' /\ ValidUnlessEmpty'
      BY <3>1, <3>2, <3>3 DEF JobsFit, ValidUnlessEmpty
    <3>7. NoKeyFaults' = NoKeyFaults
      BY DEF NoKeyFaults
    <3>8. ASSUME NoKeyFaults
          PROVE  (OnlyDamagedFlagged /\ RestoringHonestly /\ RestoreHonest)'
      <4>1. OnlyDamagedFlagged /\ RestoringHonestly /\ RestoreHonest
        BY <3>8 DEF VerificationInv
      <4>2. OnlyDamagedFlagged'
        BY <3>1, <4>1 DEF OnlyDamagedFlagged, Damaged
      <4>3. RestoringHonestly' /\ RestoreHonest'
        BY <3>1, <3>2, <4>1 DEF RestoringHonestly, RestoreHonest
      <4>4. QED
        BY <4>2, <4>3
    <3>9. QED
      BY <3>4, <3>5, <3>6, <3>7, <3>8 DEF VerificationInv
  <2>2. ASSUME NEW v \in Version, BackupStep(v) PROVE VerificationInv'
    BY <2>2, BackupStepKeeps, BackupBlockStep DEF BackupStep
  <2>3. ASSUME NEW v \in Version, ScrubStep(v) PROVE VerificationInv'
    BY <2>3, JobStepKeeps DEF ScrubStep
  <2>4. ASSUME NEW v \in Version, RestoreStep(v) PROVE VerificationInv'
    BY <2>4, JobStepKeeps, RestoreBlockKeeps DEF RestoreStep
  <2>5. QED
    BY <2>1, <2>2, <2>3, <2>4, DecayKeeps DEF Next
<1>3. QED
  BY <1>1, <1>2, PTL DEF Spec

\* A deep-scrub never makes a failed backup with blocks a valid version.
THEOREM ValidAlwaysEarned == Spec => []ValidUnlessEmpty
<1>1. VerificationInv => ValidUnlessEmpty
  BY DEF VerificationInv
<1>2. QED
  BY <1>1, VerificationInvariance, PTL

\* As long as reads do not fail for want of keys, a restore that reports
\* success has written the right data or flagged the block.
THEOREM RestoresAreHonest ==
    ASSUME NoKeyFaults
    PROVE  Spec => []RestoreHonest
<1>1. VerificationInv => RestoreHonest
  BY DEF VerificationInv
<1>2. QED
  BY <1>1, VerificationInvariance, PTL

\* As long as reads do not fail for want of keys, only damaged blocks are
\* flagged.
THEOREM FlagsAreEarned ==
    ASSUME NoKeyFaults
    PROVE  Spec => []OnlyDamagedFlagged
<1>1. VerificationInv => OnlyDamagedFlagged
  BY DEF VerificationInv
<1>2. QED
  BY <1>1, VerificationInvariance, PTL

-----------------------------------------------------------------------------
(* JobExecutor: the semaphore is never over-released and limits what is in *)
(* memory, for any number of jobs and workers and in both modes.           *)

LEMMA HoldingFinite ==
    ASSUME PoolTypeOK PROVE Holding \subseteq Job /\ IsFiniteSet(Holding) /\ Cardinality(Holding) \in Nat
<1>1. Holding \subseteq Job
  BY DEF Holding, In
<1>2. IsFiniteSet(Holding)
  <2>1. IsFiniteSet(Job)
    BY FS_Interval, ExecutorAssumption DEF Job
  <2>2. QED
    BY <1>1, <2>1, FS_Subset
<1>3. QED
  BY <1>1, <1>2, FS_CardinalityType

\* A step that takes a permit for one more job, gives back the permit of one
\* job, or does neither keeps the sum.
LEMMA PermitBalance ==
    ASSUME PoolTypeOK, permits + Cardinality(Holding) = Limit, NEW j \in Job,
           \/ Holding' = Holding /\ permits' = permits
           \/ Holding' = Holding \cup {j} /\ j \notin Holding /\ permits > 0 /\ permits' = permits - 1
           \/ Holding' = Holding \ {j} /\ j \in Holding /\ permits' = permits + 1
    PROVE  permits' \in Nat /\ permits' + Cardinality(Holding') = Limit
<1>1. permits \in Nat /\ Cardinality(Holding) \in Nat /\ IsFiniteSet(Holding)
  BY HoldingFinite DEF PoolTypeOK
<1>2. CASE Holding' = Holding /\ permits' = permits
  BY <1>1, <1>2
<1>3. CASE Holding' = Holding \cup {j} /\ j \notin Holding /\ permits > 0 /\ permits' = permits - 1
  <2>1. Cardinality(Holding') = Cardinality(Holding) + 1
    BY <1>1, <1>3, FS_AddElement
  <2>2. QED
    BY <1>1, <1>3, <2>1
<1>4. CASE Holding' = Holding \ {j} /\ j \in Holding /\ permits' = permits + 1
  <2>1. Cardinality(Holding') = Cardinality(Holding) - 1
    BY <1>1, <1>4, FS_RemoveElement
  <2>2. QED
    BY <1>1, <1>4, <2>1
<1>5. QED
  BY <1>2, <1>3, <1>4

\* The steps of the threads of the pool.
LEMMA WorkerBalance ==
    ASSUME PermitsAccounted, NEW j \in Job,
           Take(j) \/ Acquire(j) \/ Return(j) \/ SetResult(j) \/ NotifyCancel(j)
    PROVE  PermitsAccounted'
<1> USE ExecutorAssumption DEF Become
<1>1. CASE Take(j)
  <2>1. Holding' = Holding /\ permits' = permits
    BY <1>1 DEF Take, Holding, In, PermitsAccounted, PoolTypeOK, JobState
  <2>2. permits' \in Nat /\ permits' + Cardinality(Holding') = Limit
    BY <2>1, PermitBalance DEF PermitsAccounted
  <2>3. QED
    BY <1>1, <2>2 DEF Take, In, PermitsAccounted, PoolTypeOK, JobState, Limit
<1>2. CASE Acquire(j)
  <2>1. Holding' = Holding \cup {j} /\ j \notin Holding /\ permits > 0 /\ permits' = permits - 1
    BY <1>2 DEF Acquire, Holding, In, PermitsAccounted, PoolTypeOK, JobState
  <2>2. permits' \in Nat /\ permits' + Cardinality(Holding') = Limit
    BY <2>1, PermitBalance DEF PermitsAccounted
  <2>3. QED
    BY <1>2, <2>2 DEF Acquire, In, PermitsAccounted, PoolTypeOK, JobState, Limit
<1>3. CASE Return(j)
  <2>1. \/ Holding' = Holding /\ permits' = permits
        \/ Holding' = Holding \ {j} /\ j \in Holding /\ permits' = permits + 1
    BY <1>3 DEF Return, Holding, In, PermitsAccounted, PoolTypeOK, JobState
  <2>2. permits' \in Nat /\ permits' + Cardinality(Holding') = Limit
    BY <2>1, PermitBalance DEF PermitsAccounted
  <2>3. QED
    BY <1>3, <2>2 DEF Return, In, PermitsAccounted, PoolTypeOK, JobState, Limit
<1>4. CASE SetResult(j)
  <2>1. Holding' = Holding /\ permits' = permits
    BY <1>4 DEF SetResult, Holding, In, PermitsAccounted, PoolTypeOK, JobState
  <2>2. permits' \in Nat /\ permits' + Cardinality(Holding') = Limit
    BY <2>1, PermitBalance DEF PermitsAccounted
  <2>3. QED
    BY <1>4, <2>2 DEF SetResult, In, PermitsAccounted, PoolTypeOK, JobState, Limit
<1>5. CASE NotifyCancel(j)
  <2>1. Holding' = Holding /\ permits' = permits
    BY <1>5 DEF NotifyCancel, Holding, In, PermitsAccounted, PoolTypeOK, JobState
  <2>2. permits' \in Nat /\ permits' + Cardinality(Holding') = Limit
    BY <2>1, PermitBalance DEF PermitsAccounted
  <2>3. QED
    BY <1>5, <2>2 DEF NotifyCancel, In, PermitsAccounted, PoolTypeOK, JobState, Limit
<1>6. QED
  BY <1>1, <1>2, <1>3, <1>4, <1>5

\* The steps of the caller that concern one job.
LEMMA CallerBalance ==
    ASSUME PermitsAccounted, NEW j \in Job,
           Submit(j) \/ Enqueue(j) \/ GetCompleted(j) \/ Cancel(j)
    PROVE  PermitsAccounted'
<1> USE ExecutorAssumption DEF Become
<1>1. CASE Submit(j)
  <2>1. Holding' = Holding /\ permits' = permits
    BY <1>1 DEF Submit, Holding, In, PermitsAccounted, PoolTypeOK, JobState
  <2>2. permits' \in Nat /\ permits' + Cardinality(Holding') = Limit
    BY <2>1, PermitBalance DEF PermitsAccounted
  <2>3. QED
    BY <1>1, <2>2 DEF Submit, In, PermitsAccounted, PoolTypeOK, JobState, CallerState, Limit
<1>2. CASE Enqueue(j)
  <2>1. \/ Holding' = Holding /\ permits' = permits
        \/ Holding' = Holding \cup {j} /\ j \notin Holding /\ permits > 0 /\ permits' = permits - 1
    BY <1>2 DEF Enqueue, Holding, In, PermitsAccounted, PoolTypeOK, JobState
  <2>2. permits' \in Nat /\ permits' + Cardinality(Holding') = Limit
    BY <2>1, PermitBalance DEF PermitsAccounted
  <2>3. QED
    BY <1>2, <2>2 DEF Enqueue, In, PermitsAccounted, PoolTypeOK, JobState, CallerState, Limit
<1>3. CASE GetCompleted(j)
  <2>1. \/ Holding' = Holding /\ permits' = permits
        \/ Holding' = Holding \ {j} /\ j \in Holding /\ permits' = permits + 1
    BY <1>3 DEF GetCompleted, Holding, In, PermitsAccounted, PoolTypeOK, JobState
  <2>2. permits' \in Nat /\ permits' + Cardinality(Holding') = Limit
    BY <2>1, PermitBalance DEF PermitsAccounted
  <2>3. QED
    BY <1>3, <2>2 DEF GetCompleted, In, PermitsAccounted, PoolTypeOK, JobState, Limit
<1>4. CASE Cancel(j)
  <2>1. Holding' = Holding /\ permits' = permits
    BY <1>4 DEF Cancel, Holding, In, PermitsAccounted, PoolTypeOK, JobState
  <2>2. permits' \in Nat /\ permits' + Cardinality(Holding') = Limit
    BY <2>1, PermitBalance DEF PermitsAccounted
  <2>3. QED
    BY <1>4, <2>2 DEF Cancel, In, PermitsAccounted, PoolTypeOK, JobState, Limit
<1>5. QED
  BY <1>1, <1>2, <1>3, <1>4

\* No permit of the semaphore of a JobExecutor is lost or given back twice.
THEOREM PermitsAlwaysAccounted == PoolSpec => []PermitsAccounted
<1>1. PoolInit => PermitsAccounted
  <2> SUFFICES ASSUME PoolInit PROVE PermitsAccounted
    OBVIOUS
  <2>1. Holding = {}
    BY DEF PoolInit, Holding, In
  <2>2. Cardinality(Holding) = 0
    BY <2>1, FS_EmptySet
  <2>3. Limit \in Nat
    BY ExecutorAssumption DEF Limit
  <2>4. QED
    BY <2>2, <2>3 DEF PoolInit, PermitsAccounted, PoolTypeOK, JobState, CallerState, In
<1>2. PermitsAccounted /\ [PoolNext]_poolVars => PermitsAccounted'
  <2> SUFFICES ASSUME PermitsAccounted, [PoolNext]_poolVars PROVE PermitsAccounted'
    OBVIOUS
  <2>1. CASE \E j \in Job : Take(j) \/ Acquire(j) \/ Return(j) \/ SetResult(j) \/ NotifyCancel(j)
    BY <2>1, WorkerBalance
  <2>2. CASE \E j \in Job : Submit(j) \/ Enqueue(j) \/ GetCompleted(j) \/ Cancel(j)
    BY <2>2, CallerBalance
  <2>3. CASE WaitForAll \/ Shutdown \/ AllCancelled \/ Drained \/ Join \/ UNCHANGED poolVars
    <3>1. job' = job /\ futures' = futures /\ permits' = permits /\ blocking' = blocking
      BY <2>3 DEF WaitForAll, Shutdown, AllCancelled, Drained, Join, poolVars
    <3>2. PoolTypeOK'
      BY <2>3, <3>1 DEF WaitForAll, Shutdown, AllCancelled, Drained, Join, poolVars,
                        PermitsAccounted, PoolTypeOK, CallerState
    <3>3. Holding' = Holding
      BY <3>1 DEF Holding, In
    <3>4. In({"queued", "acquiring", "running", "released"})' =
              In({"queued", "acquiring", "running", "released"})
          /\ In({"released"})' = In({"released"})
      BY <3>1 DEF In
    <3>5. QED
      BY <3>1, <3>2, <3>3, <3>4 DEF PermitsAccounted, Limit
  <2>4. QED
    BY <2>1, <2>2, <2>3 DEF PoolNext, CallerStep, WorkerStep
<1>3. QED
  BY <1>1, <1>2, PTL DEF PoolSpec

\* The limit of the class comment of JobExecutor holds in both modes.
THEOREM OutstandingAlwaysBounded == PoolSpec => []OutstandingBounded
<1>1. PermitsAccounted => OutstandingBounded
  <2> SUFFICES ASSUME PermitsAccounted PROVE OutstandingBounded
    OBVIOUS
  <2>1. /\ permits \in Nat /\ Cardinality(Holding) \in Nat /\ IsFiniteSet(Holding)
        /\ Cardinality(Holding) <= Limit
    <3>1. permits \in Nat /\ Cardinality(Holding) \in Nat /\ IsFiniteSet(Holding)
      BY HoldingFinite DEF PermitsAccounted, PoolTypeOK
    <3>2. Limit \in Nat
      BY ExecutorAssumption DEF Limit
    <3>3. QED
      BY <3>1, <3>2 DEF PermitsAccounted
  <2>2. CASE blocking
    <3>1. In({"queued", "running"}) \subseteq Holding
      BY <2>2 DEF Holding, In
    <3>2. /\ Cardinality(In({"queued", "running"})) <= Cardinality(Holding)
          /\ IsFiniteSet(In({"queued", "running"}))
      BY <2>1, <3>1, FS_Subset
    <3>3. Cardinality(In({"queued", "running"})) \in Nat
      BY <3>2, FS_CardinalityType
    <3>4. Limit \in Nat
      BY ExecutorAssumption DEF Limit
    <3>5. QED
      BY <2>1, <2>2, <3>2, <3>3, <3>4 DEF OutstandingBounded
  <2>3. CASE ~blocking
    BY <2>1, <2>3 DEF OutstandingBounded, Holding
  <2>4. QED
    BY <2>2, <2>3
<1>2. QED
  BY <1>1, PermitsAlwaysAccounted, PTL

=============================================================================
