----------------------- MODULE BlockLifecycleProofs -----------------------
(***************************************************************************)
(* Proofs about BlockLifecycle: its types, and the inductive invariant     *)
(* from which DanglingOnlyIfRash and ValidIsComplete follow, for any       *)
(* number of versions, blocks and contents and for every choice of faults; *)
(* and MetadataGoesWithVersion for every choice of faults without          *)
(* overridden locks.                                                       *)
(***************************************************************************)
EXTENDS BlockLifecycle, TLAPS

(***************************************************************************)
(* Types.                                                                  *)
(***************************************************************************)

\* What set_block, commits and rollbacks may leave of the block table.
TypeRows ==
    /\ rows \in [Version -> [Idx -> RowValue]]
    /\ pend \in [Version -> [Idx -> RowValue \cup {Unset}]]
    /\ txStart \in [Version -> Nat]
    /\ lost \in [Uid -> Nat \cup {Never}]

\* A commit or a rollback of a session keeps the types of the block table.
LEMMA CommitRowsType ==
    ASSUME TypeOK, NEW v \in Version,
           NEW p \in [Idx -> RowValue \cup {Unset}],
           CommitRows(v, p) \/ RollbackRows(v)
    PROVE  TypeRows'
  <1>1. CASE CommitRows(v, p)
    <2>1. Merge(v, p) \in [Idx -> RowValue]
      BY DEF TypeOK, Merge
    <2> QED
      BY <1>1, <2>1 DEF TypeOK, TypeRows, CommitRows, SetRows, ClearPend, NoPend
  <1>2. CASE RollbackRows(v)
    BY <1>2 DEF TypeOK, TypeRows, RollbackRows, ClearPend, NoPend
  <1> QED
    BY <1>1, <1>2

\* Version.set_block keeps the types of the block table.
LEMMA SetBlockType ==
    ASSUME TypeOK, NEW v \in Version, NEW i \in Idx, NEW u \in RowValue,
           SetBlock(v, i, u)
    PROVE  TypeRows'
  <1> DEFINE p == [pend[v] EXCEPT ![i] = u]
  <1>1. p \in [Idx -> RowValue \cup {Unset}]
    BY DEF TypeOK
  <1>2. CASE CommitRows(v, p)
    BY <1>1, <1>2, CommitRowsType
  <1>3. CASE UNCHANGED <<rows, lost, pend, txStart>>
    BY <1>3 DEF TypeOK, TypeRows
  <1>4. CASE /\ pend' = [pend EXCEPT ![v] = p]
             /\ txStart' = [txStart EXCEPT ![v] = IF HasPend(v) THEN @ ELSE now]
             /\ UNCHANGED <<rows, lost>>
    BY <1>1, <1>4 DEF TypeOK, TypeRows
  <1> QED
    BY <1>2, <1>3, <1>4 DEF SetBlock

\* The rows of v that a removal turns into candidates are typed.
LEMMA RemoveVersionType ==
    ASSUME TypeOK, NEW v \in Version, RemoveVersion(v),
           UNCHANGED cleanVars \/ Start("clean")
    PROVE  TypeOK'
  <1>1. cand' \subseteq Candidate
    BY DEF TypeOK, RemoveVersion, RowUids, Candidate
  <1>2. TypeRows' /\ status' \in [Version ->
            {"absent", "incomplete", "valid", "invalid", "removed"}]
    BY DEF TypeOK, TypeRows, RemoveVersion, SetRows, backupVars, RowValue
  <1>3. /\ meta' \subseteq Version /\ kept' \subseteq Version
        /\ lock' \in [Version -> {"free", "backup"}]
        /\ UNCHANGED <<now, backupVars, objects, rash>>
    BY DEF TypeOK, RemoveVersion
  <1>4. CASE UNCHANGED cleanVars
    BY <1>1, <1>2, <1>3, <1>4 DEF TypeOK, TypeRows, cleanVars, backupVars
  <1>5. CASE Start("clean")
    <2>1. /\ cpc' \in [Cleaners -> {"idle", "check", "delete", "remove"}]
          /\ cstart' \in [Cleaners -> Nat]
          /\ UNCHANGED <<hits, fps, dels>>
      BY <1>5 DEF TypeOK, Start, Cleaners
    <2> QED
      BY <1>1, <1>2, <1>3, <2>1 DEF TypeOK, TypeRows, backupVars
  <1> QED
    BY <1>4, <1>5

\* A step of a backup keeps the types.
LEMMA BackupType ==
    ASSUME TypeOK, NEW v \in Version,
           CreateVersion(v) \/ BackupStep(v) \/ FailBackup(v) \/ CrashBackup(v)
    PROVE  TypeOK'
  <1> USE DEF dbVars, cleanVars, storeVars
  <1>1. CASE CreateVersion(v)
    BY <1>1 DEF TypeOK, CreateVersion, backupVars
  <1>2. CASE UpdateVersion(v)
    <2>1. CASE UNCHANGED <<rows, lost>>
      BY <1>2, <2>1 DEF TypeOK, UpdateVersion
    <2>2. ASSUME NEW b \in Version, SetRows([rows EXCEPT ![v] = rows[b]])
          PROVE  TypeRows'
      <3>1. rows[b] \in [Idx -> RowValue]
        BY DEF TypeOK
      <3>2. rows' \in [Version -> [Idx -> RowValue]]
        BY <2>2, <3>1 DEF TypeOK, SetRows
      <3> QED
        BY <1>2, <2>2, <3>2 DEF TypeOK, TypeRows, UpdateVersion, SetRows
    <2> QED
      BY <1>2, <2>1, <2>2 DEF TypeOK, TypeRows, UpdateVersion
  <1>3. CASE RefuseBackup(v)
    BY <1>3 DEF TypeOK, RefuseBackup
  <1>4. ASSUME NEW i \in Idx, ReadBlock(v, i)
        PROVE  TypeOK'
    <2>1. PICK c \in Data :
            /\ data' = [data EXCEPT ![v][i] = c]
            /\ \/ SetBlock(v, i, NoUid) /\ UNCHANGED wq
               \/ (\E u \in KnownUids(v, c) : SetBlock(v, i, u)) /\ UNCHANGED wq
               \/ /\ wq' = [wq EXCEPT ![v] = @ \cup {i}]
                  /\ UNCHANGED <<rows, lost, pend, txStart>>
      BY <1>4 DEF ReadBlock
    <2>2. TypeRows'
      <3>1. \A u \in KnownUids(v, c) : u \in RowValue
        BY DEF KnownUids, RowValue
      <3>2. NoUid \in RowValue
        BY DEF RowValue
      <3>3. CASE \E u \in RowValue : SetBlock(v, i, u)
        BY <3>3, SetBlockType
      <3>4. CASE UNCHANGED <<rows, lost, pend, txStart>>
        BY <3>4 DEF TypeOK, TypeRows
      <3> QED
        BY <2>1, <3>1, <3>2, <3>3, <3>4
    <2>3. /\ data' \in [Version -> [Idx -> Data \cup {Unread}]]
          /\ wq' \in [Version -> SUBSET Idx]
      <3>1. [data[v] EXCEPT ![i] = c] \in [Idx -> Data \cup {Unread}]
        BY DEF TypeOK
      <3>2. wq[v] \cup {i} \in SUBSET Idx
        BY DEF TypeOK
      <3>3. data' = [data EXCEPT ![v] = [data[v] EXCEPT ![i] = c]]
        BY <2>1
      <3>4. wq' = [wq EXCEPT ![v] = wq[v] \cup {i}] \/ wq' = wq
        BY <2>1
      <3>5. data' \in [Version -> [Idx -> Data \cup {Unread}]]
        BY <3>1, <3>3 DEF TypeOK
      <3> QED
        BY <3>2, <3>4, <3>5 DEF TypeOK
    <2> QED
      BY <1>4, <2>2, <2>3 DEF TypeOK, TypeRows, ReadBlock
  <1>5. ASSUME NEW i \in Idx, WriteLands(v, i)
        PROVE  TypeOK'
    BY <1>5 DEF TypeOK, WriteLands, Uid
  <1>6. ASSUME NEW i \in Idx, HandleWriteCompleted(v, i)
        PROVE  TypeOK'
    <2>1. TypeRows'
      BY <1>6, SetBlockType DEF HandleWriteCompleted, RowValue, Uid
    <2> QED
      BY <1>6, <2>1 DEF TypeOK, TypeRows, HandleWriteCompleted
  <1>7. CASE CommitBackup(v)
    <2>1. TypeRows'
      BY <1>7, CommitRowsType DEF CommitBackup, TypeOK
    <2> QED
      BY <1>7, <2>1 DEF TypeOK, TypeRows, CommitBackup
  <1>8. CASE MarkValid(v)
    BY <1>8 DEF TypeOK, MarkValid
  <1>9. CASE ExportMetadata(v)
    BY <1>9 DEF TypeOK, ExportMetadata
  <1>10. CASE WriteMetadata(v)
    BY <1>10 DEF TypeOK, WriteMetadata
  <1>11. CASE FinishBackup(v)
    BY <1>11 DEF TypeOK, FinishBackup
  <1>12. CASE FailBackup(v)
    <2>1. TypeRows'
      BY <1>12, CommitRowsType DEF FailBackup, TypeOK
    <2>2. wq' \in [Version -> SUBSET Idx] /\ landed' \in [Version -> SUBSET Idx]
      <3>1. PICK failed \in SUBSET wq[v] : wq' = [wq EXCEPT ![v] = @ \ failed]
        BY <1>12 DEF FailBackup
      <3>2. wq[v] \ failed \in SUBSET Idx
        BY DEF TypeOK
      <3> QED
        BY <1>12, <3>1, <3>2 DEF TypeOK, FailBackup
    <2> QED
      BY <1>12, <2>1, <2>2 DEF TypeOK, TypeRows, FailBackup
  <1>13. CASE MarkInvalid(v)
    BY <1>13 DEF TypeOK, MarkInvalid
  <1>14. CASE CrashBackup(v)
    <2>1. TypeRows'
      BY <1>14, CommitRowsType DEF CrashBackup, TypeOK
    <2> QED
      BY <1>14, <2>1 DEF TypeOK, TypeRows, CrashBackup
  <1> QED
    BY <1>1, <1>2, <1>3, <1>4, <1>5, <1>6, <1>7, <1>8, <1>9, <1>10, <1>11, <1>12,
       <1>13, <1>14 DEF BackupStep

\* A step of a cleanup keeps the types.
LEMMA CleanupType ==
    ASSUME TypeOK, NEW k \in Cleaners,
           CleanupStep(k) \/ FailCleanup(k) \/ CrashCleanup(k)
    PROVE  TypeOK'
  <1> USE DEF dbVars, backupVars, storeVars
  <1>1. CASE CheckCandidates(k)
    <2>1. CandidateUids(k) \subseteq Uid
      BY DEF TypeOK, CandidateUids, Candidates, Candidate
    <2> DEFINE used == {u \in CandidateUids(k) : CommittedRef(u)}
               unused == {u \in CandidateUids(k) : ~CommittedRef(u)}
    <2>2. used \in SUBSET Uid /\ unused \in SUBSET Uid
      BY <2>1
    <2>3. /\ fps' = fps /\ hits' = hits
          \/ /\ fps' = [fps EXCEPT ![k] = used]
             /\ hits' = [hits EXCEPT ![k] = unused]
      BY <1>1 DEF CheckCandidates
    <2> HIDE DEF used, unused
    <2>4. fps' \in [Cleaners -> SUBSET Uid] /\ hits' \in [Cleaners -> SUBSET Uid]
      BY <2>2, <2>3 DEF TypeOK
    <2>5. /\ cand' \subseteq Candidate
          /\ dels' \in [Cleaners -> SUBSET Candidate]
          /\ cpc' \in [Cleaners -> {"idle", "check", "delete", "remove"}]
          /\ UNCHANGED <<now, status, rows, lock, backupVars, storeVars, cstart, lost, rash>>
      BY <1>1 DEF TypeOK, CheckCandidates
    <2> QED
      BY <2>4, <2>5 DEF TypeOK
  <1>2. CASE DeleteCandidates(k)
    BY <1>2 DEF TypeOK, DeleteCandidates
  <1>3. CASE CommitRound(k)
    BY <1>3 DEF TypeOK, CommitRound
  <1>4. ASSUME NEW u \in Uid, RemoveObject(k, u)
        PROVE  TypeOK'
    BY <1>4 DEF TypeOK, RemoveObject
  <1>5. CASE FailCleanup(k)
    BY <1>5 DEF TypeOK, FailCleanup
  <1>6. CASE CrashCleanup(k)
    BY <1>6 DEF TypeOK, CrashCleanup
  <1> QED
    BY <1>1, <1>2, <1>3, <1>4, <1>5, <1>6 DEF CleanupStep

\* Every step keeps the types.
LEMMA NextType ==
    ASSUME TypeOK, [Next]_vars
    PROVE  TypeOK'
  <1>1. ASSUME NEW v \in Version, Rm(v) \/ Delete(v)
        PROVE  TypeOK'
    BY <1>1, RemoveVersionType DEF Rm, Delete
  <1>2. CASE StartCleanup
    BY <1>2 DEF TypeOK, StartCleanup, Start, Cleaners, dbVars, backupVars, storeVars
  <1>3. CASE Tick
    BY <1>3 DEF TypeOK, Tick, dbVars, backupVars, storeVars, cleanVars
  <1>4. CASE UNCHANGED vars
    BY <1>4 DEF TypeOK, vars, dbVars, backupVars, storeVars, cleanVars
  <1> QED
    BY <1>1, <1>2, <1>3, <1>4, BackupType, CleanupType DEF Next

(* The state of the system always has the types of the model: statuses,    *)
(* block rows, sessions, candidate rows and program counters.              *)
THEOREM TypeCorrect == Spec => []TypeOK
  <1>1. Init => TypeOK
    BY ClockAssumption DEF Init, TypeOK, NoPend, RowValue
  <1> QED
    BY <1>1, NextType, PTL DEF Spec

(***************************************************************************)
(* What a step does to references.                                         *)
(***************************************************************************)

\* Only blocks of N become referenced.
KeepsRefs(N) == \A u \in Uid : Referenced(u)' => Referenced(u) \/ u \in N

\* A block that loses a committed reference loses it now.
LostStep ==
    \A u \in Uid :
        \/ lost'[u] = lost[u] /\ (CommittedRef(u) => CommittedRef(u)')
        \/ lost'[u] = now /\ CommittedRef(u)

\* A change of the committed block table dates the references it drops.
LEMMA SetRowsLost ==
    ASSUME TypeOK, NEW r, SetRows(r)
    PROVE  LostStep
  <1> SUFFICES ASSUME NEW u \in Uid
               PROVE  \/ lost'[u] = lost[u] /\ (CommittedRef(u) => CommittedRef(u)')
                      \/ lost'[u] = now /\ CommittedRef(u)
    BY DEF LostStep
  <1>1. lost'[u] = IF u \in Loses(r) THEN now ELSE lost[u]
    BY DEF SetRows
  <1>2. CASE u \in Loses(r)
    BY <1>1, <1>2 DEF Loses, CommittedRef
  <1>3. CASE u \notin Loses(r)
    <2>1. \A v \in Version, i \in Idx : rows[v][i] = u => rows'[v][i] = u
      BY <1>3 DEF Loses, SetRows
    <2> QED
      BY <1>1, <1>3, <2>1 DEF CommittedRef
  <1> QED
    BY <1>2, <1>3

\* A commit makes referenced only what its rows reference.
LEMMA CommitRowsRefs ==
    ASSUME TypeOK, NEW v \in Version, NEW N,
           NEW p \in [Idx -> RowValue \cup {Unset}],
           \A i \in Idx : p[i] \in Uid => Referenced(p[i]) \/ p[i] \in N,
           CommitRows(v, p)
    PROVE  KeepsRefs(N) /\ LostStep
  <1>1. LostStep
    BY SetRowsLost DEF CommitRows
  <1>2. SUFFICES ASSUME NEW u \in Uid, Referenced(u)'
                 PROVE  Referenced(u) \/ u \in N
    BY <1>1 DEF KeepsRefs
  <1>3. /\ rows' = [rows EXCEPT ![v] = Merge(v, p)]
        /\ pend' = [pend EXCEPT ![v] = NoPend]
    BY DEF CommitRows, SetRows, ClearPend
  <1>4. ASSUME NEW w \in Version, NEW i \in Idx, rows'[w][i] = u
        PROVE  Referenced(u) \/ u \in N
    <2>1. CASE w # v
      BY <1>3, <1>4, <2>1 DEF TypeOK, Referenced, CommittedRef
    <2>2. CASE w = v
      <3>1. rows'[w][i] = IF p[i] = Unset THEN rows[v][i] ELSE p[i]
        BY <1>3, <2>2 DEF TypeOK, Merge
      <3> QED
        BY <1>4, <3>1 DEF Referenced, CommittedRef
    <2> QED
      BY <2>1, <2>2
  <1>5. ASSUME NEW w \in Version, NEW i \in Idx, pend'[w][i] = u
        PROVE  Referenced(u)
    <2>1. w # v
      BY <1>3, <1>5, ValueAssumption DEF TypeOK, NoPend, RowValue
    <2> QED
      BY <1>3, <1>5, <2>1 DEF TypeOK, Referenced
  <1> QED
    BY <1>2, <1>4, <1>5 DEF Referenced, CommittedRef

\* A rollback makes nothing referenced.
LEMMA RollbackRowsRefs ==
    ASSUME TypeOK, NEW v \in Version, RollbackRows(v)
    PROVE  KeepsRefs({}) /\ LostStep
  <1>1. /\ rows' = rows /\ lost' = lost
        /\ pend' = [pend EXCEPT ![v] = NoPend]
    BY DEF RollbackRows, ClearPend
  <1>2. \A w \in Version, i \in Idx : \A u \in Uid :
            pend'[w][i] = u => pend[w][i] = u
    BY <1>1, ValueAssumption DEF TypeOK, NoPend, RowValue
  <1>3. KeepsRefs({})
    BY <1>1, <1>2 DEF KeepsRefs, Referenced, CommittedRef
  <1>4. LostStep
    BY <1>1 DEF LostStep, CommittedRef
  <1> QED
    BY <1>3, <1>4

\* Version.set_block makes referenced only the block it is given.
LEMMA SetBlockRefs ==
    ASSUME TypeOK, NEW v \in Version, NEW i \in Idx, NEW N, NEW u \in RowValue,
           u \in Uid => Referenced(u) \/ u \in N,
           SetBlock(v, i, u)
    PROVE  KeepsRefs(N) /\ LostStep
  <1> DEFINE p == [pend[v] EXCEPT ![i] = u]
  <1>1. /\ p \in [Idx -> RowValue \cup {Unset}]
        /\ \A j \in Idx : p[j] = u \/ p[j] = pend[v][j]
    BY DEF TypeOK
  <1>2. \A j \in Idx : p[j] \in Uid => Referenced(p[j]) \/ p[j] \in N
    BY <1>1 DEF Referenced
  <1>3. CASE CommitRows(v, p)
    BY <1>1, <1>2, <1>3, CommitRowsRefs
  <1>4. CASE UNCHANGED <<rows, lost, pend>>
    BY <1>4 DEF KeepsRefs, LostStep, Referenced, CommittedRef
  <1>5. CASE pend' = [pend EXCEPT ![v] = p] /\ UNCHANGED <<rows, lost>>
    <2>1. LostStep
      BY <1>5 DEF LostStep, CommittedRef
    <2>2. \A w \in Version, j \in Idx :
              pend'[w][j] = pend[w][j] \/ pend'[w][j] = u
      BY <1>1, <1>5 DEF TypeOK
    <2>3. KeepsRefs(N)
      BY <1>5, <2>2 DEF KeepsRefs, Referenced, CommittedRef
    <2> QED
      BY <2>1, <2>3
  <1> QED
    BY <1>3, <1>4, <1>5 DEF SetBlock

\* After set_block the session sees the new row and the others as before.
LEMMA SetBlockSeen ==
    ASSUME TypeOK, NEW v \in Version, NEW i \in Idx, NEW u \in RowValue,
           SetBlock(v, i, u)
    PROVE  /\ \A j \in Idx : SeenBy(v, v, j)' = IF j = i THEN u ELSE SeenBy(v, v, j)
           /\ \A w \in Version \ {v} : rows'[w] = rows[w] /\ pend'[w] = pend[w]
           /\ \A w \in Version \ {v} : txStart'[w] = txStart[w]
           /\ (HasPend(v)' /\ HasPend(v) => txStart'[v] = txStart[v])
           /\ (HasPend(v)' /\ ~HasPend(v) => txStart'[v] = now)
           /\ (HasPend(v)' /\ ~HasPend(v) => status[v] # "removed")
  <1> DEFINE p == [pend[v] EXCEPT ![i] = u]
  <1>1. /\ p \in [Idx -> RowValue \cup {Unset}]
        /\ \A j \in Idx : p[j] = IF j = i THEN u ELSE pend[v][j]
    BY DEF TypeOK
  <1>2. u # Unset
    BY ValueAssumption
  <1>3. CASE CommitRows(v, p)
    <2>1. /\ rows' = [rows EXCEPT ![v] = Merge(v, p)]
          /\ pend' = [pend EXCEPT ![v] = NoPend]
          /\ txStart' = [txStart EXCEPT ![v] = 0]
      BY <1>3 DEF CommitRows, SetRows, ClearPend
    <2>2. \A j \in Idx : /\ rows'[v][j] = IF p[j] = Unset THEN rows[v][j] ELSE p[j]
                         /\ pend'[v][j] = Unset
      BY <2>1 DEF TypeOK, Merge, NoPend
    <2>3. ~HasPend(v)'
      BY <2>2 DEF HasPend
    <2>4. \A j \in Idx : SeenBy(v, v, j)' = IF j = i THEN u ELSE SeenBy(v, v, j)
      BY <1>1, <1>2, <2>2 DEF SeenBy
    <2> QED
      BY <2>1, <2>3, <2>4 DEF TypeOK
  <1>4. CASE /\ u = NoUid /\ SeenBy(v, v, i) = NoUid
             /\ UNCHANGED <<rows, lost, pend, txStart>>
    BY <1>4 DEF SeenBy, HasPend
  <1>5. CASE /\ status[v] # "removed"
             /\ pend' = [pend EXCEPT ![v] = p]
             /\ txStart' = [txStart EXCEPT ![v] = IF HasPend(v) THEN @ ELSE now]
             /\ UNCHANGED <<rows, lost>>
    <2>1. \A j \in Idx : pend'[v][j] = p[j]
      BY <1>1, <1>5 DEF TypeOK
    <2>2. \A j \in Idx : SeenBy(v, v, j)' = IF j = i THEN u ELSE SeenBy(v, v, j)
      BY <1>1, <1>2, <1>5, <2>1 DEF SeenBy
    <2> QED
      BY <1>5, <2>2 DEF TypeOK
  <1> QED
    BY <1>3, <1>4, <1>5 DEF SetBlock

\* A commit of the session's own rows makes everybody see what it saw.
LEMMA CommitSeen ==
    ASSUME TypeOK, NEW v \in Version,
           CommitRows(v, pend[v]) \/ RollbackRows(v)
    PROVE  /\ CommitRows(v, pend[v]) => \A j \in Idx : rows'[v][j] = SeenBy(v, v, j)
           /\ ~HasPend(v)'
           /\ \A w \in Version \ {v} : rows'[w] = rows[w] /\ pend'[w] = pend[w]
           /\ \A w \in Version \ {v} : txStart'[w] = txStart[w]
           /\ ~HasPend(v) => rows' = rows
  <1>1. /\ pend' = [pend EXCEPT ![v] = NoPend]
        /\ txStart' = [txStart EXCEPT ![v] = 0]
        /\ rows' = [rows EXCEPT ![v] = Merge(v, pend[v])] \/ rows' = rows
        /\ CommitRows(v, pend[v]) => rows' = [rows EXCEPT ![v] = Merge(v, pend[v])]
    BY DEF CommitRows, RollbackRows, SetRows, ClearPend
  <1>2. ~HasPend(v)'
    BY <1>1 DEF TypeOK, HasPend, NoPend
  <1>3. CommitRows(v, pend[v]) => \A j \in Idx : rows'[v][j] = SeenBy(v, v, j)
    BY <1>1 DEF TypeOK, Merge, SeenBy
  <1>4. ~HasPend(v) => rows' = rows
    <2>1. ~HasPend(v) => Merge(v, pend[v]) = rows[v]
      BY DEF TypeOK, HasPend, Merge
    <2> QED
      BY <1>1, <2>1 DEF TypeOK
  <1>5. /\ \A w \in Version \ {v} : rows'[w] = rows[w] /\ pend'[w] = pend[w]
        /\ \A w \in Version \ {v} : txStart'[w] = txStart[w]
    BY <1>1 DEF TypeOK
  <1> QED
    BY <1>2, <1>3, <1>4, <1>5

(***************************************************************************)
(* The conjuncts of the invariant, each under the change that matters.     *)
(***************************************************************************)

\* FreshUnused holds after a step that makes only recorded blocks referenced.
LEMMA FreshStep ==
    ASSUME TypeOK, FreshUnused, LostStep, NEW N, KeepsRefs(N),
           objects \subseteq objects',
           \A v \in Version, i \in Idx :
              /\ data'[v][i] = Unread => data[v][i] = Unread
              /\ data'[v][i] \notin Content => i \notin wq'[v] \cup landed'[v]
              /\ i \in wq'[v] \cup landed'[v] =>
                    data[v][i] = Unread \/ i \in wq[v] \cup landed[v]
              /\ i \in landed'[v] => i \notin wq'[v]
              /\ i \in landed'[v] => i \in landed[v] \/ <<v, i>> \in objects'
              /\ <<v, i>> \in N => data'[v][i] # Unread /\ i \notin wq'[v] \cup landed'[v]
    PROVE  FreshUnused'
  <1> SUFFICES ASSUME NEW v \in Version, NEW i \in Idx
               PROVE  /\ data'[v][i] \notin Content => i \notin wq'[v] \cup landed'[v]
                      /\ data'[v][i] = Unread \/ i \in wq'[v] \cup landed'[v]
                            => lost'[<<v, i>>] = Never /\ ~Referenced(<<v, i>>)'
                      /\ i \in landed'[v] => i \notin wq'[v] /\ <<v, i>> \in objects'
    BY DEF FreshUnused
  <1>1. <<v, i>> \in Uid
    BY DEF Uid
  <1>2. ASSUME data'[v][i] = Unread \/ i \in wq'[v] \cup landed'[v]
        PROVE  lost'[<<v, i>>] = Never /\ ~Referenced(<<v, i>>)'
    <2>1. lost[<<v, i>>] = Never /\ ~Referenced(<<v, i>>)
      BY <1>2 DEF FreshUnused
    <2>2. <<v, i>> \notin N
      BY <1>2
    <2>3. ~Referenced(<<v, i>>)'
      BY <1>1, <2>1, <2>2 DEF KeepsRefs
    <2>4. ~CommittedRef(<<v, i>>)
      BY <2>1 DEF Referenced
    <2> QED
      BY <1>1, <2>1, <2>3, <2>4 DEF LostStep
  <1> QED
    BY <1>2 DEF FreshUnused

\* A reference lost now is no long lost one.
LEMMA HitsStep ==
    ASSUME TypeOK, CandidatesLost, HitsUnused, LostStep, NEW N, KeepsRefs(N),
           \A u \in N : u \in Uid => lost[u] = Never,
           UNCHANGED hits,
           \A k \in Cleaners : hits[k] # {} => cstart'[k] = cstart[k]
    PROVE  HitsUnused'
  <1> SUFFICES ASSUME NEW k \in Cleaners, NEW u \in hits[k], LongLost(k, u)'
               PROVE  ~Referenced(u)'
    BY DEF HitsUnused
  <1>1. u \in Uid /\ lost[u] # Never /\ lost[u] \in Nat
    BY DEF TypeOK, CandidatesLost
  <1>2. lost'[u] # now
    BY <1>1, ClockAssumption DEF TypeOK, LongLost, CandidatesLost
  <1>3. lost'[u] = lost[u]
    BY <1>1, <1>2 DEF LostStep
  <1>4. ~Referenced(u)
    BY <1>3 DEF HitsUnused, LongLost
  <1> QED
    BY <1>1, <1>4 DEF KeepsRefs

\* DanglingOnlyIfRash holds after a step that makes only stored blocks referenced.
LEMMA DanglingStep ==
    ASSUME DanglingOnlyIfRash, NEW N, KeepsRefs(N), N \subseteq objects',
           objects \subseteq objects', rash \subseteq rash'
    PROVE  DanglingOnlyIfRash'
  BY DEF DanglingOnlyIfRash, KeepsRefs

\* PendBacked holds if every new uncommitted reference has its backing.
LEMMA BackedStep ==
    ASSUME TypeOK, PendYoung, PendBacked, LostStep,
           \A w \in Version, j \in Idx : \A u \in Uid :
              pend'[w][j] = u =>
                \/ /\ txStart'[w] = txStart[w]
                   /\ \E i \in Idx : pend[w][i] = u
                \/ CommittedRef(u)' \/ lost'[u] = Never \/ lost'[u] >= txStart'[w]
    PROVE  PendBacked'
  <1> SUFFICES ASSUME NEW w \in Version, NEW i \in Idx, NEW u \in Uid,
                      pend[w][i] = u, txStart'[w] = txStart[w]
               PROVE  CommittedRef(u)' \/ lost'[u] = Never \/ lost'[u] >= txStart'[w]
    BY DEF PendBacked
  <1>1. HasPend(w)
    BY ValueAssumption DEF HasPend, RowValue
  <1>2. now >= txStart[w]
    BY <1>1 DEF PendYoung, TypeOK
  <1>3. CommittedRef(u) \/ lost[u] = Never \/ lost[u] >= txStart[w]
    BY DEF PendBacked
  <1> QED
    BY <1>2, <1>3 DEF LostStep

\* A candidate stays one whose reference was lost.
LEMMA CandidateStep ==
    ASSUME TypeOK, CandidatesLost, LostStep,
           \A r \in cand' : r \in cand \/ (r.uid \in Uid /\ lost'[r.uid] # Never),
           \A k \in Cleaners : hits'[k] \subseteq hits[k],
           \A k \in Cleaners : cpc'[k] \in {"idle", "check"} => hits'[k] = {},
           \A k \in Cleaners : cstart'[k] <= now'
    PROVE  CandidatesLost'
  <1>1. \A u \in Uid : lost[u] # Never => lost'[u] # Never
    BY ValueAssumption DEF LostStep, TypeOK
  <1>2. \A r \in cand : r.uid \in Uid
    BY DEF TypeOK, Candidate
  <1>3. \A k \in Cleaners : \A u \in hits[k] : u \in Uid
    BY DEF TypeOK
  <1> QED
    BY <1>1, <1>2, <1>3 DEF CandidatesLost

\* A row value stays right while neither block is read again.
LEMMA RightStep ==
    ASSUME NEW v \in Version, NEW i \in Idx, NEW r \in RowValue, Right(v, i, r),
           data'[v][i] = data[v][i],
           r \in Uid => Checksum(r)' = Checksum(r)
    PROVE  Right(v, i, r)'
  BY ValueAssumption DEF Right, RowValue

(***************************************************************************)
(* Steps that leave the block table alone.                                 *)
(***************************************************************************)

\* Nothing happens to references while the block table stays as it is.
LEMMA SameRows ==
    ASSUME TypeOK, UNCHANGED <<rows, pend, lost>>
    PROVE  /\ KeepsRefs({}) /\ LostStep
           /\ \A v \in Version : HasPend(v)' <=> HasPend(v)
           /\ \A v, w \in Version, i \in Idx : SeenBy(v, w, i)' = SeenBy(v, w, i)
  BY DEF KeepsRefs, LostStep, Referenced, CommittedRef, HasPend, SeenBy

\* A step of a backup that is not in its read loop changes its status or place.
LEMMA PlaceStep ==
    ASSUME TypeOK, IndInv, NEW v \in Version, bpc[v] # "reading",
           UNCHANGED <<now, rows, cand, pend, txStart, data, wq, landed, objects,
                       cleanVars, lost, rash>>,
           \A w \in Version \ {v} : status'[w] = status[w] /\ bpc'[w] = bpc[w],
           bpc'[v] # "reading",
           bpc'[v] = "idle" => bpc[v] = "idle" /\ status'[v] # "valid",
           status'[v] = "absent" => bpc'[v] = "idle",
           (bpc'[v] \in Running /\ status'[v] # "removed") \/ status'[v] = "valid" =>
              \A i \in Idx : Right(v, i, rows[v][i])
    PROVE  IndInv'
  <1> USE DEF cleanVars
  <1>1. KeepsRefs({}) /\ LostStep
    BY SameRows
  <1>2. FreshUnused'
    BY <1>1, FreshStep DEF IndInv, FreshUnused
  <1>3. CandidatesLost'
    BY <1>1, CandidateStep DEF IndInv, CandidatesLost
  <1>4. PendYoung'
    BY SameRows DEF IndInv, PendYoung
  <1>5. PendBacked'
    BY <1>1, BackedStep DEF IndInv
  <1>6. HitsUnused'
    BY <1>1, HitsStep DEF IndInv
  <1>7. DanglingOnlyIfRash'
    BY <1>1, DanglingStep DEF IndInv
  <1>8. \A w \in Version, i \in Idx : \A r \in RowValue : Right(w, i, r)' <=> Right(w, i, r)
    BY DEF Right, Checksum
  <1>9. \A w \in Version, i \in Idx : rows[w][i] \in RowValue
    BY DEF TypeOK
  <1>10. ValidIsComplete'
    BY <1>8, <1>9 DEF IndInv, ValidIsComplete
  <1>11. Recorded'
    <2> SUFFICES ASSUME NEW w \in Version
                 PROVE  /\ bpc'[w] = "reading" /\ status'[w] # "removed" =>
                            \A i \in Idx :
                                data'[w][i] # Unread /\ i \notin wq'[w] \cup landed'[w]
                                    => Right(w, i, SeenBy(w, w, i))'
                        /\ bpc'[w] \in Running \ {"reading"} /\ status'[w] # "removed" =>
                            \A i \in Idx : Right(w, i, rows[w][i])'
                        /\ bpc'[w] \in {"idle", "reading"} => status'[w] # "valid"
                        /\ bpc'[w] = "idle" => \A i \in Idx : data'[w][i] = Unread
                        /\ status'[w] = "absent" => bpc'[w] = "idle"
      BY DEF Recorded
    <2>1. \A i \in Idx : Right(w, i, SeenBy(w, w, i))' <=> Right(w, i, SeenBy(w, w, i))
      BY DEF Right, Checksum, SeenBy
    <2>2. \A i \in Idx : Right(w, i, rows[w][i])' <=> Right(w, i, rows[w][i])
      BY DEF Right, Checksum
    <2>3. CASE w = v
      BY <2>2, <2>3 DEF IndInv, Recorded
    <2>4. CASE w # v
      BY <2>1, <2>2, <2>4 DEF IndInv, Recorded
    <2> QED
      BY <2>3, <2>4
  <1> QED
    BY <1>2, <1>3, <1>4, <1>5, <1>6, <1>7, <1>10, <1>11 DEF IndInv

\* A step of a cleanup disturbs only what is said about candidates and objects.
LEMMA CleanerStep ==
    ASSUME TypeOK, IndInv,
           UNCHANGED <<now, status, rows, backupVars, lost>>,
           \A u \in objects \ objects' : lost[u] # Never,
           CandidatesLost', HitsUnused', DanglingOnlyIfRash'
    PROVE  IndInv'
  <1> USE DEF backupVars
  <1>1. KeepsRefs({}) /\ LostStep
    BY SameRows
  <1>2. FreshUnused'
    BY <1>1 DEF IndInv, FreshUnused, KeepsRefs, Uid
  <1>3. PendYoung'
    BY SameRows DEF IndInv, PendYoung
  <1>4. PendBacked'
    BY <1>1, BackedStep DEF IndInv
  <1>5. ValidIsComplete'
    BY DEF IndInv, ValidIsComplete, Right, Checksum
  <1>6. Recorded'
    BY DEF IndInv, Recorded, Right, Checksum, SeenBy
  <1> QED
    BY <1>2, <1>3, <1>4, <1>5, <1>6 DEF IndInv

\* The steps of a backup outside its read loop preserve the invariant.
LEMMA PlaceActions ==
    ASSUME TypeOK, IndInv, NEW v \in Version,
           \/ CreateVersion(v) \/ RefuseBackup(v) \/ MarkValid(v) \/ ExportMetadata(v)
           \/ WriteMetadata(v) \/ FinishBackup(v) \/ MarkInvalid(v)
    PROVE  IndInv'
  <1> USE DEF dbVars, storeVars
  <1>1. \A i \in Idx : bpc[v] \in Running \ {"reading"} /\ status[v] # "removed"
                        => Right(v, i, rows[v][i])
    BY DEF IndInv, Recorded
  <1>2. \A i \in Idx : status[v] = "valid" => Right(v, i, rows[v][i])
    BY DEF IndInv, ValidIsComplete
  <1>3. status[v] = "absent" => bpc[v] = "idle"
    BY DEF IndInv, Recorded
  <1>4. CASE CreateVersion(v)
    BY <1>3, <1>4, PlaceStep DEF CreateVersion, TypeOK, backupVars, Running
  <1>5. CASE RefuseBackup(v)
    BY <1>5, PlaceStep DEF RefuseBackup, TypeOK, Running
  <1>6. CASE MarkValid(v)
    BY <1>1, <1>6, PlaceStep DEF MarkValid, TypeOK, Running
  <1>7. CASE ExportMetadata(v)
    BY <1>1, <1>2, <1>3, <1>7, PlaceStep DEF ExportMetadata, TypeOK, Running
  <1>8. CASE WriteMetadata(v)
    BY <1>1, <1>2, <1>3, <1>8, PlaceStep DEF WriteMetadata, TypeOK, Running
  <1>9. CASE FinishBackup(v)
    BY <1>1, <1>2, <1>3, <1>9, PlaceStep DEF FinishBackup, TypeOK, Running
  <1>10. CASE MarkInvalid(v)
    BY <1>10, PlaceStep DEF MarkInvalid, TypeOK, Running
  <1> QED
    BY <1>4, <1>5, <1>6, <1>7, <1>8, <1>9, <1>10

\* A block that nobody references and that lost its references long ago has
\* no uncommitted deduplication either: that would be too old by now.
LEMMA LongLostUnused ==
    ASSUME TypeOK, IndInv, NEW k \in Cleaners, NEW u \in Uid,
           LongLost(k, u), ~CommittedRef(u)
    PROVE  ~Referenced(u)
  <1> SUFFICES ASSUME NEW v \in Version, NEW i \in Idx, pend[v][i] = u
               PROVE  FALSE
    BY DEF Referenced
  <1>1. HasPend(v)
    BY ValueAssumption DEF HasPend, RowValue
  <1>2. lost[u] \in Nat /\ lost[u] + Dt < cstart[k] /\ cstart[k] <= now
    BY DEF LongLost, TypeOK, IndInv, CandidatesLost
  <1>3. lost[u] >= txStart[v]
    BY <1>2, ValueAssumption DEF IndInv, PendBacked
  <1>4. now <= txStart[v] + CommitWindow
    BY <1>1 DEF IndInv, PendYoung
  <1> QED
    BY <1>2, <1>3, <1>4, ClockAssumption DEF TypeOK

\* Every step of a cleanup preserves the invariant.
LEMMA CleanupActions ==
    ASSUME TypeOK, IndInv, NEW k \in Cleaners,
           CleanupStep(k) \/ FailCleanup(k) \/ CrashCleanup(k)
    PROVE  IndInv'
  <1> USE DEF dbVars, storeVars
  <1> DEFINE Frame == UNCHANGED <<now, status, rows, backupVars, lost, cstart>>
  <1>1. Frame
    BY DEF CleanupStep, CheckCandidates, DeleteCandidates, CommitRound, RemoveObject,
           FailCleanup, CrashCleanup
  <1>2. /\ \A u \in Uid : Referenced(u)' <=> Referenced(u)
        /\ \A l \in Cleaners, u \in Uid : LongLost(l, u)' <=> LongLost(l, u)
    BY <1>1 DEF Referenced, CommittedRef, LongLost, backupVars
  <1>3. ASSUME \A l \in Cleaners : hits'[l] \subseteq hits[l]
        PROVE  HitsUnused'
    BY <1>2, <1>3 DEF IndInv, HitsUnused, TypeOK
  <1>4. ASSUME UNCHANGED <<objects, rash>>
        PROVE  DanglingOnlyIfRash'
    BY <1>2, <1>4 DEF IndInv, DanglingOnlyIfRash
  <1>5. ASSUME \A l \in Cleaners : hits'[l] \subseteq hits[l], cand' \subseteq cand,
               \A l \in Cleaners : cpc'[l] \in {"idle", "check"} => hits'[l] = {}
        PROVE  CandidatesLost'
    BY <1>1, <1>5 DEF IndInv, CandidatesLost
  <1>6. CASE CheckCandidates(k)
    <2>1. UNCHANGED <<objects, rash>>
      BY <1>6 DEF CheckCandidates
    <2>2. CASE /\ UNCHANGED hits /\ cand' \subseteq cand
               /\ cpc' = [cpc EXCEPT ![k] = "idle"]
      <3>1. \A l \in Cleaners : cpc'[l] \in {"idle", "check"} => hits'[l] = {}
        BY <1>6, <2>2 DEF CheckCandidates, IndInv, CandidatesLost, TypeOK
      <3> QED
        BY <1>1, <1>3, <1>4, <1>5, <2>1, <2>2, <3>1, CleanerStep
    <2>3. CASE /\ hits' = [hits EXCEPT ![k] = {u \in CandidateUids(k) : ~CommittedRef(u)}]
               /\ cpc' = [cpc EXCEPT ![k] = "delete"]
               /\ UNCHANGED cand
      <3>1. \A u \in CandidateUids(k) : u \in Uid /\ lost[u] # Never
        BY DEF CandidateUids, Candidates, TypeOK, Candidate, IndInv, CandidatesLost
      <3>2. \A l \in Cleaners : \A u \in hits'[l] :
                \/ u \in hits[l]
                \/ l = k /\ u \in CandidateUids(k) /\ ~CommittedRef(u)
        <4> DEFINE unused == {u \in CandidateUids(k) : ~CommittedRef(u)}
        <4>1. hits' = [hits EXCEPT ![k] = unused]
          BY <2>3
        <4>2. \A u \in unused : u \in CandidateUids(k) /\ ~CommittedRef(u)
          OBVIOUS
        <4> HIDE DEF unused
        <4>3. \A l \in Cleaners : hits'[l] = IF l = k THEN unused ELSE hits[l]
          BY <4>1 DEF TypeOK
        <4> SUFFICES ASSUME NEW l \in Cleaners, NEW u \in hits'[l]
                     PROVE  \/ u \in hits[l]
                            \/ l = k /\ u \in CandidateUids(k) /\ ~CommittedRef(u)
          OBVIOUS
        <4>4. CASE l = k
          BY <4>2, <4>3, <4>4
        <4>5. CASE l # k
          BY <4>3, <4>5
        <4> QED
          BY <4>4, <4>5
      <3>3. \A l \in Cleaners : cpc'[l] \in {"idle", "check"} => hits'[l] = {}
        BY <2>3 DEF IndInv, CandidatesLost, TypeOK
      <3>4. CandidatesLost'
        BY <1>1, <2>3, <3>1, <3>2, <3>3 DEF IndInv, CandidatesLost
      <3>5. HitsUnused'
        <4> SUFFICES ASSUME NEW l \in Cleaners, NEW u \in hits'[l], LongLost(l, u)'
                     PROVE  ~Referenced(u)'
          BY DEF HitsUnused
        <4>1. u \in Uid
          BY <3>1, <3>2 DEF TypeOK
        <4>2. LongLost(l, u)
          BY <1>2, <4>1
        <4>3. ~Referenced(u)
          BY <3>2, <4>1, <4>2, LongLostUnused DEF IndInv, HitsUnused
        <4> QED
          BY <1>2, <4>1, <4>3
      <3> QED
        BY <1>1, <1>4, <2>1, <3>4, <3>5, CleanerStep
    <2> QED
      BY <1>6, <2>2, <2>3 DEF CheckCandidates
  <1>7. CASE DeleteCandidates(k)
    <2>1. UNCHANGED <<objects, rash, hits, cand>>
      BY <1>7 DEF DeleteCandidates
    <2>2. \A l \in Cleaners : cpc'[l] \in {"idle", "check"} => hits'[l] = {}
      BY <1>7 DEF DeleteCandidates, IndInv, CandidatesLost, TypeOK
    <2> QED
      BY <1>1, <1>3, <1>4, <1>5, <2>1, <2>2, CleanerStep
  <1>8. CASE CommitRound(k)
    <2>1. UNCHANGED <<objects, rash, hits>> /\ cand' \subseteq cand
      BY <1>8 DEF CommitRound
    <2>2. \A l \in Cleaners : cpc'[l] \in {"idle", "check"} => hits'[l] = {}
      BY <1>8 DEF CommitRound, IndInv, CandidatesLost, TypeOK
    <2> QED
      BY <1>1, <1>3, <1>4, <1>5, <2>1, <2>2, CleanerStep
  <1>9. CASE CrashCleanup(k)
    <2>1. UNCHANGED <<objects, rash, cand>>
      BY <1>9 DEF CrashCleanup
    <2>2. /\ \A l \in Cleaners : hits'[l] \subseteq hits[l]
          /\ \A l \in Cleaners : cpc'[l] \in {"idle", "check"} => hits'[l] = {}
      BY <1>9 DEF CrashCleanup, IndInv, CandidatesLost, TypeOK
    <2> QED
      BY <1>1, <1>3, <1>4, <1>5, <2>1, <2>2, CleanerStep
  <1>10. ASSUME NEW gone \in SUBSET hits[k],
                objects' = objects \ gone,
                rash' = rash \cup {u \in gone : ~LongLost(k, u)},
                cand' \subseteq cand,
                \A l \in Cleaners : hits'[l] \subseteq hits[l],
                \A l \in Cleaners : cpc'[l] \in {"idle", "check"} => hits'[l] = {}
         PROVE  IndInv'
    <2>1. CandidatesLost' /\ HitsUnused'
      BY <1>3, <1>5, <1>10
    <2>2. DanglingOnlyIfRash'
      BY <1>2, <1>10 DEF IndInv, DanglingOnlyIfRash, HitsUnused
    <2>3. \A u \in objects \ objects' : lost[u] # Never
      BY <1>10 DEF IndInv, CandidatesLost
    <2> QED
      BY <1>1, <2>1, <2>2, <2>3, CleanerStep
  <1>11. ASSUME NEW u \in Uid, RemoveObject(k, u)
         PROVE  IndInv'
    <2>1. /\ {u} \in SUBSET hits[k] /\ objects' = objects \ {u} /\ cand' \subseteq cand
          /\ rash' = rash \cup {x \in {u} : ~LongLost(k, x)}
      BY <1>11 DEF RemoveObject
    <2>2. /\ \A l \in Cleaners : hits'[l] \subseteq hits[l]
          /\ \A l \in Cleaners : cpc'[l] \in {"idle", "check"} => hits'[l] = {}
      BY <1>11 DEF RemoveObject, IndInv, CandidatesLost, TypeOK
    <2> QED
      BY <1>10, <2>1, <2>2
  <1>12. CASE FailCleanup(k)
    <2>1. PICK failed \in SUBSET hits[k] :
            /\ objects' = objects \ (hits[k] \ failed)
            /\ rash' = rash \cup {u \in hits[k] \ failed : ~LongLost(k, u)}
      BY <1>12 DEF FailCleanup
    <2>2. /\ cand' \subseteq cand
          /\ \A l \in Cleaners : hits'[l] \subseteq hits[l]
          /\ \A l \in Cleaners : cpc'[l] \in {"idle", "check"} => hits'[l] = {}
      BY <1>12 DEF FailCleanup, IndInv, CandidatesLost, TypeOK
    <2> QED
      BY <1>10, <2>1, <2>2
  <1> QED
    BY <1>6, <1>7, <1>8, <1>9, <1>11, <1>12 DEF CleanupStep

\* Starting a cleanup and the passing of time preserve the invariant.
LEMMA ClockActions ==
    ASSUME TypeOK, IndInv, StartCleanup \/ Tick
    PROVE  IndInv'
  <1> USE DEF dbVars, backupVars, storeVars, cleanVars
  <1>1. CASE StartCleanup
    <2>1. /\ cpc["cleanup"] = "idle" /\ hits["cleanup"] = {}
          /\ cpc' = [cpc EXCEPT !["cleanup"] = "check"]
          /\ cstart' = [cstart EXCEPT !["cleanup"] = now]
          /\ UNCHANGED <<now, status, rows, backupVars, objects, lost, rash, hits, cand>>
      BY <1>1 DEF StartCleanup, Start, IndInv, CandidatesLost, Cleaners
    <2>2. CandidatesLost'
      BY <2>1 DEF IndInv, CandidatesLost, TypeOK
    <2>3. \A k \in Cleaners : hits[k] # {} => cstart'[k] = cstart[k]
      BY <2>1 DEF TypeOK
    <2>4. HitsUnused'
      BY <2>1, <2>3 DEF IndInv, HitsUnused, LongLost, Referenced, CommittedRef
    <2>5. DanglingOnlyIfRash'
      BY <2>1 DEF IndInv, DanglingOnlyIfRash, Referenced, CommittedRef
    <2> QED
      BY <2>1, <2>2, <2>4, <2>5, CleanerStep
  <1>2. CASE Tick
    <2>1. /\ now' = now + 1
          /\ UNCHANGED <<status, rows, cand, pend, txStart, data, bpc, wq, landed,
                         objects, hits, cpc, cstart, lost, rash>>
      BY <1>2 DEF Tick
    <2>2. KeepsRefs({}) /\ LostStep
      BY <2>1, SameRows
    <2>3. FreshUnused'
      BY <2>1, <2>2, FreshStep DEF IndInv, FreshUnused
    <2>4. CandidatesLost'
      BY <2>1 DEF IndInv, CandidatesLost, TypeOK
    <2>5. PendYoung'
      <3> SUFFICES ASSUME NEW v \in Version, HasPend(v)'
                   PROVE  /\ bpc'[v] = "reading" /\ status'[v] # "removed"
                          /\ txStart'[v] <= now' /\ now' <= txStart'[v] + CommitWindow
        BY DEF PendYoung
      <3>1. HasPend(v)
        BY <2>1 DEF HasPend
      <3>2. now < txStart[v] + CommitWindow /\ txStart[v] <= now
        BY <1>2, <3>1 DEF Tick, IndInv, PendYoung
      <3>3. bpc[v] = "reading" /\ status[v] # "removed"
        BY <3>1 DEF IndInv, PendYoung
      <3> QED
        BY <2>1, <3>2, <3>3, ClockAssumption DEF TypeOK
    <2>6. PendBacked'
      BY <2>1, <2>2, BackedStep DEF IndInv
    <2>7. HitsUnused'
      BY <2>1, <2>2, HitsStep DEF IndInv
    <2>8. DanglingOnlyIfRash'
      BY <2>1, <2>2, DanglingStep DEF IndInv
    <2>9. ValidIsComplete'
      BY <2>1 DEF IndInv, ValidIsComplete, Right, Checksum
    <2>10. Recorded'
      BY <2>1 DEF IndInv, Recorded, Right, Checksum, SeenBy
    <2> QED
      BY <2>3, <2>4, <2>5, <2>6, <2>7, <2>8, <2>9, <2>10 DEF IndInv
  <1> QED
    BY <1>1, <1>2

(***************************************************************************)
(* Steps that change the block table.                                      *)
(***************************************************************************)

\* What set_block leaves uncommitted was backed, or is backed by its argument.
LEMMA SetBlockBacked ==
    ASSUME TypeOK, PendYoung, PendBacked,
           NEW v \in Version, NEW i \in Idx, NEW r \in RowValue, SetBlock(v, i, r),
           r \in Uid => (\E j \in Idx : pend[v][j] = r) \/ CommittedRef(r) \/ lost[r] = Never
    PROVE  PendBacked'
  <1> DEFINE p == [pend[v] EXCEPT ![i] = r]
  <1>1. LostStep
    BY SetBlockRefs DEF Referenced
  <1>2. \A w \in Version \ {v} : pend'[w] = pend[w] /\ txStart'[w] = txStart[w]
    BY SetBlockSeen
  <1>3. ASSUME NEW j \in Idx, NEW u \in Uid, pend'[v][j] = u
        PROVE  \/ /\ txStart'[v] = txStart[v]
                  /\ \E l \in Idx : pend[v][l] = u
               \/ CommittedRef(u)' \/ lost'[u] = Never
    <2>1. CASE CommitRows(v, p)
      <3>1. pend'[v][j] = Unset
        BY <2>1 DEF CommitRows, ClearPend, NoPend, TypeOK
      <3> QED
        BY <1>3, <3>1, ValueAssumption DEF RowValue
    <2>2. CASE UNCHANGED <<rows, lost, pend, txStart>>
      BY <1>3, <2>2
    <2>3. CASE /\ pend' = [pend EXCEPT ![v] = p]
               /\ txStart' = [txStart EXCEPT ![v] = IF HasPend(v) THEN @ ELSE now]
               /\ UNCHANGED <<rows, lost>>
      <3>1. (\E l \in Idx : pend[v][l] = u) => txStart'[v] = txStart[v]
        BY <2>3, ValueAssumption DEF TypeOK, HasPend, RowValue
      <3>2. u = r \/ u = pend[v][j]
        BY <1>3, <2>3 DEF TypeOK
      <3> QED
        BY <2>3, <3>1, <3>2 DEF CommittedRef
    <2> QED
      BY <2>1, <2>2, <2>3 DEF SetBlock
  <1> QED
    BY <1>1, <1>2, <1>3, BackedStep

\* What set_block leaves uncommitted is young.
LEMMA SetBlockYoung ==
    ASSUME TypeOK, PendYoung, NEW v \in Version, NEW i \in Idx, NEW r \in RowValue,
           SetBlock(v, i, r), bpc[v] = "reading", UNCHANGED <<now, bpc, status>>
    PROVE  PendYoung'
  <1> SUFFICES ASSUME NEW w \in Version, HasPend(w)'
               PROVE  /\ bpc[w] = "reading" /\ status[w] # "removed"
                      /\ txStart'[w] <= now /\ now <= txStart'[w] + CommitWindow
    BY DEF PendYoung
  <1>1. CASE w # v
    <2>1. pend'[w] = pend[w] /\ txStart'[w] = txStart[w]
      BY <1>1, SetBlockSeen
    <2>2. HasPend(w)
      BY <2>1 DEF HasPend
    <2> QED
      BY <2>1, <2>2 DEF PendYoung
  <1>2. CASE w = v /\ HasPend(v)
    BY <1>2, SetBlockSeen DEF PendYoung
  <1>3. CASE w = v /\ ~HasPend(v)
    <2>1. txStart'[v] = now /\ status[v] # "removed"
      BY <1>3, SetBlockSeen
    <2> QED
      BY <1>3, <2>1, ClockAssumption DEF TypeOK
  <1> QED
    BY <1>1, <1>2, <1>3

\* Reading a block leaves the checksums of referenced blocks alone.
LEMMA DataStep ==
    ASSUME TypeOK, FreshUnused, NEW v \in Version, NEW i \in Idx, NEW c \in Data,
           data[v][i] = Unread, data' = [data EXCEPT ![v][i] = c]
    PROVE  /\ \A u \in Uid : Referenced(u) => Checksum(u)' = Checksum(u)
           /\ \A w \in Version, j \in Idx : w # v \/ j # i => data'[w][j] = data[w][j]
           /\ data'[v][i] = c
  <1>1. /\ \A w \in Version, j \in Idx : w # v \/ j # i => data'[w][j] = data[w][j]
        /\ data'[v][i] = c
    BY DEF TypeOK
  <1>2. ASSUME NEW u \in Uid, Referenced(u)
        PROVE  Checksum(u)' = Checksum(u)
    <2>1. PICK w \in Version, j \in Idx : u = <<w, j>>
      BY DEF Uid
    <2>2. w # v \/ j # i
      BY <1>2, <2>1 DEF FreshUnused
    <2> QED
      BY <1>1, <2>1, <2>2 DEF Checksum
  <1> QED
    BY <1>1, <1>2

\* Right is about referenced blocks.
LEMMA RightRefs ==
    ASSUME TypeOK, NEW w \in Version, NEW j \in Idx,
           \A u \in Uid : Referenced(u) => Checksum(u)' = Checksum(u),
           data'[w][j] = data[w][j]
    PROVE  /\ Right(w, j, rows[w][j]) /\ rows'[w][j] = rows[w][j] =>
                Right(w, j, rows[w][j])'
           /\ Right(w, j, SeenBy(w, w, j)) /\ SeenBy(w, w, j)' = SeenBy(w, w, j) =>
                Right(w, j, SeenBy(w, w, j))'
           /\ Right(w, j, SeenBy(w, w, j)) /\ rows'[w][j] = SeenBy(w, w, j) =>
                Right(w, j, rows[w][j])'
  <1>1. rows[w][j] \in RowValue /\ SeenBy(w, w, j) \in RowValue
    BY DEF TypeOK, SeenBy
  <1>2. /\ rows[w][j] \in Uid => Referenced(rows[w][j])
        /\ SeenBy(w, w, j) \in Uid => Referenced(SeenBy(w, w, j))
    BY DEF Referenced, CommittedRef, SeenBy
  <1>3. ASSUME NEW r \in RowValue, NEW q, q = r, r \in Uid => Referenced(r),
               Right(w, j, r)
        PROVE  /\ data'[w][j] # Unread
               /\ data'[w][j] = Sparse <=> q = NoUid
               /\ q # NoUid => data'[q[1]][q[2]] = data'[w][j]
    BY <1>3 DEF Right, Checksum, RowValue
  <1> QED
    BY <1>1, <1>2, <1>3 DEF Right, Checksum

\* The part of the invariant that a step of one session keeps as soon as it
\* makes only the blocks of N, fresh and stored, referenced.
LEMMA SessionStep ==
    ASSUME TypeOK, IndInv, LostStep, NEW N \in SUBSET objects, KeepsRefs(N),
           \A u \in N : u \in Uid /\ lost[u] = Never,
           objects \subseteq objects', UNCHANGED <<now, cand, cleanVars, rash>>
    PROVE  CandidatesLost' /\ HitsUnused' /\ DanglingOnlyIfRash'
  <1> USE DEF cleanVars
  <1>1. CandidatesLost'
    BY CandidateStep DEF IndInv, CandidatesLost
  <1>2. HitsUnused'
    BY HitsStep DEF IndInv
  <1>3. DanglingOnlyIfRash'
    BY DanglingStep DEF IndInv
  <1> QED
    BY <1>1, <1>2, <1>3

\* Preparing a version preserves the invariant.
LEMMA UpdateVersionInv ==
    ASSUME TypeOK, IndInv, NEW v \in Version, UpdateVersion(v)
    PROVE  IndInv'
  <1> USE DEF storeVars
  <1>1. /\ bpc[v] = "idle" /\ status[v] = "incomplete"
        /\ bpc' = [bpc EXCEPT ![v] = "reading"]
        /\ UNCHANGED <<now, status, cand, pend, txStart, data, wq, landed, objects,
                       cleanVars, rash>>
    BY DEF UpdateVersion
  <1>2. /\ \A w \in Version \ {v} : rows'[w] = rows[w]
        /\ KeepsRefs({}) /\ LostStep
    <2>1. CASE UNCHANGED <<rows, lost>>
      BY <1>1, <2>1, SameRows
    <2>2. ASSUME NEW b \in Version, SetRows([rows EXCEPT ![v] = rows[b]])
          PROVE  /\ \A w \in Version \ {v} : rows'[w] = rows[w]
                 /\ KeepsRefs({}) /\ LostStep
      <3>1. \A w \in Version : rows'[w] = IF w = v THEN rows[b] ELSE rows[w]
        BY <2>2 DEF SetRows, TypeOK
      <3>2. KeepsRefs({})
        BY <1>1, <3>1 DEF KeepsRefs, Referenced, CommittedRef
      <3>3. LostStep
        BY <2>2, SetRowsLost
      <3> QED
        BY <3>1, <3>2, <3>3
    <2> QED
      BY <2>1, <2>2 DEF UpdateVersion
  <1>3. FreshUnused'
    BY <1>1, <1>2, FreshStep DEF IndInv, FreshUnused
  <1>4. CandidatesLost' /\ HitsUnused' /\ DanglingOnlyIfRash'
    BY <1>1, <1>2, SessionStep
  <1>5. PendYoung'
    BY <1>1 DEF IndInv, PendYoung, HasPend, TypeOK
  <1>6. PendBacked'
    BY <1>1, <1>2, BackedStep DEF IndInv
  <1>7. ValidIsComplete'
    BY <1>1, <1>2 DEF IndInv, ValidIsComplete, Right, Checksum
  <1>8. Recorded'
    <2> SUFFICES ASSUME NEW w \in Version
                 PROVE  /\ bpc'[w] = "reading" /\ status'[w] # "removed" =>
                            \A i \in Idx :
                                data'[w][i] # Unread /\ i \notin wq'[w] \cup landed'[w]
                                    => Right(w, i, SeenBy(w, w, i))'
                        /\ bpc'[w] \in Running \ {"reading"} /\ status'[w] # "removed" =>
                            \A i \in Idx : Right(w, i, rows[w][i])'
                        /\ bpc'[w] \in {"idle", "reading"} => status'[w] # "valid"
                        /\ bpc'[w] = "idle" => \A i \in Idx : data'[w][i] = Unread
                        /\ status'[w] = "absent" => bpc'[w] = "idle"
      BY DEF Recorded
    <2>1. CASE w = v
      BY <1>1, <2>1 DEF IndInv, Recorded, TypeOK
    <2>2. CASE w # v
      <3>1. /\ rows'[w] = rows[w] /\ bpc'[w] = bpc[w]
            /\ \A i \in Idx : SeenBy(w, w, i)' = SeenBy(w, w, i)
        BY <1>1, <1>2, <2>2 DEF TypeOK, SeenBy
      <3>2. \A i \in Idx :
                /\ Right(w, i, SeenBy(w, w, i))' <=> Right(w, i, SeenBy(w, w, i))
                /\ Right(w, i, rows[w][i])' <=> Right(w, i, rows[w][i])
        BY <1>1, <3>1 DEF Right, Checksum
      <3> QED
        BY <1>1, <3>1, <3>2 DEF IndInv, Recorded
    <2> QED
      BY <2>1, <2>2
  <1> QED
    BY <1>3, <1>4, <1>5, <1>6, <1>7, <1>8 DEF IndInv

\* A write landing on the storage preserves the invariant.
LEMMA WriteLandsInv ==
    ASSUME TypeOK, IndInv, NEW v \in Version, NEW i \in Idx, WriteLands(v, i)
    PROVE  IndInv'
  <1> USE DEF dbVars
  <1>1. /\ i \in wq[v] /\ objects' = objects \cup {<<v, i>>}
        /\ UNCHANGED <<now, status, rows, cand, pend, txStart, data, bpc, cleanVars,
                       lost, rash>>
    BY DEF WriteLands
  <1>2. /\ \A w \in Version \ {v} : wq'[w] = wq[w] /\ landed'[w] = landed[w]
        /\ wq'[v] = wq[v] \ {i}
        /\ landed'[v] = landed[v] \/ landed'[v] = landed[v] \cup {i}
        /\ bpc[v] = "reading" => landed'[v] = landed[v] \cup {i}
    BY DEF WriteLands, TypeOK
  <1>3. KeepsRefs({}) /\ LostStep
    BY <1>1, SameRows
  <1>4. FreshUnused'
    <2>1. \A w \in Version, j \in Idx :
             /\ j \in wq'[w] \cup landed'[w] => j \in wq[w] \cup landed[w]
             /\ j \in landed'[w] => j \in landed[w] \/ <<w, j>> \in objects'
             /\ j \in landed'[w] => j \notin wq'[w]
      <3>1. \A w \in Version, j \in Idx : j \in landed[w] => j \notin wq[w]
        BY DEF IndInv, FreshUnused
      <3> QED
        BY <1>1, <1>2, <3>1
    <2>2. \A w \in Version, j \in Idx :
             data[w][j] \notin Content => j \notin wq[w] \cup landed[w]
      BY DEF IndInv, FreshUnused
    <2> QED
      BY <1>1, <1>3, <2>1, <2>2, FreshStep DEF IndInv
  <1>5. CandidatesLost' /\ HitsUnused' /\ DanglingOnlyIfRash'
    BY <1>1, <1>3, SessionStep
  <1>6. PendYoung' /\ PendBacked'
    BY <1>1, <1>3, SameRows, BackedStep DEF IndInv, PendYoung
  <1>7. ValidIsComplete'
    BY <1>1 DEF IndInv, ValidIsComplete, Right, Checksum
  <1>8. Recorded'
    <2>1. \A w \in Version, j \in Idx : bpc[w] = "reading" =>
            (j \notin wq'[w] \cup landed'[w] => j \notin wq[w] \cup landed[w])
      BY <1>1, <1>2
    <2> QED
      BY <1>1, <2>1 DEF IndInv, Recorded, Right, Checksum, SeenBy
  <1> QED
    BY <1>4, <1>5, <1>6, <1>7, <1>8 DEF IndInv

\* After set_block in the read loop of v everything that was recorded still
\* is, provided the new row is right.
LEMMA SetBlockRecorded ==
    ASSUME TypeOK, IndInv, NEW v \in Version, NEW i \in Idx, NEW r \in RowValue,
           SetBlock(v, i, r), bpc[v] = "reading", UNCHANGED <<bpc, status>>,
           \A u \in Uid : Referenced(u) => Checksum(u)' = Checksum(u),
           \A w \in Version, j \in Idx : w # v \/ j # i => data'[w][j] = data[w][j],
           \A w \in Version \ {v} : wq'[w] = wq[w] /\ landed'[w] = landed[w],
           \A j \in Idx \ {i} :
              j \notin wq'[v] \cup landed'[v] => j \notin wq[v] \cup landed[v],
           Right(v, i, r)'
    PROVE  Recorded' /\ ValidIsComplete'
  <1>1. /\ \A j \in Idx : SeenBy(v, v, j)' = IF j = i THEN r ELSE SeenBy(v, v, j)
        /\ \A w \in Version \ {v} : rows'[w] = rows[w] /\ pend'[w] = pend[w]
    BY SetBlockSeen
  <1>2. \A w \in Version \ {v}, j \in Idx :
            SeenBy(w, w, j)' = SeenBy(w, w, j) /\ rows'[w][j] = rows[w][j]
    BY <1>1 DEF SeenBy
  <1>3. status[v] # "valid"
    BY DEF IndInv, Recorded
  <1>4. ValidIsComplete'
    <2> SUFFICES ASSUME NEW w \in Version, status[w] = "valid", NEW j \in Idx
                 PROVE  Right(w, j, rows[w][j])'
      BY DEF ValidIsComplete
    <2>1. w # v
      BY <1>3
    <2> QED
      BY <1>2, <2>1, RightRefs DEF IndInv, ValidIsComplete
  <1>5. Recorded'
    <2> SUFFICES ASSUME NEW w \in Version
                 PROVE  /\ bpc[w] = "reading" /\ status[w] # "removed" =>
                            \A j \in Idx :
                                data'[w][j] # Unread /\ j \notin wq'[w] \cup landed'[w]
                                    => Right(w, j, SeenBy(w, w, j))'
                        /\ bpc[w] \in Running \ {"reading"} /\ status[w] # "removed" =>
                            \A j \in Idx : Right(w, j, rows[w][j])'
                        /\ bpc[w] \in {"idle", "reading"} => status[w] # "valid"
                        /\ bpc[w] = "idle" => \A j \in Idx : data'[w][j] = Unread
                        /\ status[w] = "absent" => bpc[w] = "idle"
      BY DEF Recorded
    <2>1. CASE w # v
      <3>1. \A j \in Idx :
                /\ data'[w][j] = data[w][j]
                /\ Right(w, j, SeenBy(w, w, j)) => Right(w, j, SeenBy(w, w, j))'
                /\ Right(w, j, rows[w][j]) => Right(w, j, rows[w][j])'
        BY <1>2, <2>1, RightRefs
      <3> QED
        BY <2>1, <3>1 DEF IndInv, Recorded
    <2>2. CASE w = v
      <3>1. ASSUME NEW j \in Idx, j # i, data'[v][j] # Unread,
                   j \notin wq'[v] \cup landed'[v], status[v] # "removed"
            PROVE  Right(v, j, SeenBy(v, v, j))'
        <4>1. Right(v, j, SeenBy(v, v, j))
          BY <3>1 DEF IndInv, Recorded
        <4> QED
          BY <1>1, <3>1, <4>1, RightRefs
      <3>2. Right(v, i, SeenBy(v, v, i))'
        BY <1>1 DEF Right, Checksum
      <3> QED
        BY <2>2, <3>1, <3>2 DEF IndInv, Recorded
    <2> QED
      BY <2>1, <2>2
  <1> QED
    BY <1>4, <1>5

\* Reading a block preserves the invariant.
LEMMA ReadBlockInv ==
    ASSUME TypeOK, IndInv, NEW v \in Version, NEW i \in Idx, ReadBlock(v, i)
    PROVE  IndInv'
  <1> USE DEF storeVars
  <1>1. /\ bpc[v] = "reading" /\ data[v][i] = Unread
        /\ UNCHANGED <<now, status, cand, bpc, landed, objects, cleanVars, rash>>
    BY DEF ReadBlock
  <1>2. PICK c \in Data :
            /\ data' = [data EXCEPT ![v][i] = c]
            /\ \/ c = Sparse /\ SetBlock(v, i, NoUid) /\ UNCHANGED wq
               \/ c # Sparse /\ (\E u \in KnownUids(v, c) : SetBlock(v, i, u)) /\ UNCHANGED wq
               \/ /\ c # Sparse
                  /\ wq' = [wq EXCEPT ![v] = @ \cup {i}]
                  /\ UNCHANGED <<rows, lost, pend, txStart>>
    BY DEF ReadBlock
  <1>3. c # Unread
    BY ValueAssumption
  <1>4. /\ \A u \in Uid : Referenced(u) => Checksum(u)' = Checksum(u)
        /\ \A w \in Version, j \in Idx : w # v \/ j # i => data'[w][j] = data[w][j]
        /\ data'[v][i] = c
    BY <1>1, <1>2, DataStep DEF IndInv
  <1>5. ASSUME NEW r \in RowValue, SetBlock(v, i, r), UNCHANGED wq,
               \/ r = NoUid /\ c = Sparse
               \/ r \in KnownUids(v, c) /\ c # Sparse
        PROVE  IndInv'
    <2>1. r \in Uid => (\E j \in Idx : pend[v][j] = r) \/ CommittedRef(r)
      BY <1>5, ValueAssumption DEF KnownUids, SeenBy, CommittedRef
    <2>2. KeepsRefs({}) /\ LostStep
      BY <1>5, <2>1, SetBlockRefs DEF Referenced
    <2>3. FreshUnused'
      <3>1. i \notin wq[v] \cup landed[v]
        BY <1>1, ValueAssumption DEF IndInv, FreshUnused, Data
      <3>2. \A w \in Version, j \in Idx :
               /\ data'[w][j] = Unread => data[w][j] = Unread
               /\ data'[w][j] \notin Content => j \notin wq[w] \cup landed[w]
        <4> SUFFICES ASSUME NEW w \in Version, NEW j \in Idx
                     PROVE  /\ data'[w][j] = Unread => data[w][j] = Unread
                            /\ data'[w][j] \notin Content => j \notin wq[w] \cup landed[w]
          OBVIOUS
        <4>1. CASE w = v /\ j = i
          BY <1>3, <1>4, <3>1, <4>1
        <4>2. CASE w # v \/ j # i
          <5>1. data'[w][j] = data[w][j]
            BY <1>4, <4>2
          <5> QED
            BY <5>1 DEF IndInv, FreshUnused
        <4> QED
          BY <4>1, <4>2
      <3>3. \A w \in Version, j \in Idx : j \in landed[w] => j \notin wq[w]
        BY DEF IndInv, FreshUnused
      <3> QED
        BY <1>1, <1>5, <2>2, <3>2, <3>3, FreshStep DEF IndInv
    <2>4. CandidatesLost' /\ HitsUnused' /\ DanglingOnlyIfRash'
      BY <1>1, <2>2, SessionStep
    <2>5. PendYoung'
      BY <1>1, <1>5, SetBlockYoung DEF IndInv
    <2>6. PendBacked'
      BY <1>5, <2>1, SetBlockBacked DEF IndInv
    <2>7. Right(v, i, r)'
      <3>1. r \in Uid => Checksum(r)' = Checksum(r)
        BY <1>4, <2>1 DEF Referenced
      <3>2. r \in KnownUids(v, c) => r \in Uid /\ Checksum(r) = c
        BY DEF KnownUids
      <3> QED
        BY <1>3, <1>4, <1>5, <3>1, <3>2, ValueAssumption DEF Right
    <2>8. Recorded' /\ ValidIsComplete'
      BY <1>1, <1>4, <1>5, <2>7, SetBlockRecorded
    <2> QED
      BY <2>3, <2>4, <2>5, <2>6, <2>8 DEF IndInv
  <1>6. CASE /\ c # Sparse
             /\ wq' = [wq EXCEPT ![v] = @ \cup {i}]
             /\ UNCHANGED <<rows, lost, pend, txStart>>
    <2>1. KeepsRefs({}) /\ LostStep
      BY <1>6, SameRows
    <2>2. \A w \in Version, j \in Idx :
             /\ j \in wq[w] => j \in wq'[w]
             /\ j \in wq'[w] => j \in wq[w] \/ (w = v /\ j = i)
      BY <1>6 DEF TypeOK
    <2>3. i \in wq'[v] /\ c \in Content
      BY <1>6 DEF TypeOK, Data
    <2>4. FreshUnused'
      <3>1. \A w \in Version, j \in Idx :
               /\ data'[w][j] = Unread => data[w][j] = Unread
               /\ data'[w][j] \notin Content => j \notin wq'[w] \cup landed[w]
               /\ j \in wq'[w] \cup landed[w] =>
                     data[w][j] = Unread \/ j \in wq[w] \cup landed[w]
               /\ j \in landed[w] => j \notin wq'[w]
        <4> SUFFICES ASSUME NEW w \in Version, NEW j \in Idx
                     PROVE  /\ data'[w][j] = Unread => data[w][j] = Unread
                            /\ data'[w][j] \notin Content => j \notin wq'[w] \cup landed[w]
                            /\ j \in wq'[w] \cup landed[w] =>
                                 data[w][j] = Unread \/ j \in wq[w] \cup landed[w]
                            /\ j \in landed[w] => j \notin wq'[w]
          OBVIOUS
        <4>1. CASE w = v /\ j = i
          <5>1. i \notin landed[v]
            BY <1>1, ValueAssumption DEF IndInv, FreshUnused, Data
          <5> QED
            BY <1>1, <1>3, <1>4, <2>3, <4>1, <5>1
        <4>2. CASE w # v \/ j # i
          <5>1. data'[w][j] = data[w][j]
            BY <1>4, <4>2
          <5>2. j \in wq'[w] => j \in wq[w]
            BY <2>2, <4>2
          <5>3. /\ data[w][j] \notin Content => j \notin wq[w] \cup landed[w]
                /\ j \in landed[w] => j \notin wq[w]
            BY DEF IndInv, FreshUnused
          <5> QED
            BY <5>1, <5>2, <5>3
        <4> QED
          BY <4>1, <4>2
      <3> QED
        BY <1>1, <2>1, <3>1, FreshStep DEF IndInv
    <2>5. CandidatesLost' /\ HitsUnused' /\ DanglingOnlyIfRash'
      BY <1>1, <2>1, SessionStep
    <2>6. PendYoung' /\ PendBacked'
      BY <1>1, <1>6, <2>1, SameRows, BackedStep DEF IndInv, PendYoung
    <2>7. ValidIsComplete'
      <3> SUFFICES ASSUME NEW w \in Version, status[w] = "valid", NEW j \in Idx
                   PROVE  Right(w, j, rows[w][j])'
        BY <1>1 DEF ValidIsComplete
      <3>1. w # v
        BY <1>1 DEF IndInv, Recorded
      <3> QED
        BY <1>4, <1>6, <3>1, RightRefs DEF IndInv, ValidIsComplete
    <2>8. Recorded'
      <3> SUFFICES ASSUME NEW w \in Version
                   PROVE  /\ bpc[w] = "reading" /\ status[w] # "removed" =>
                              \A j \in Idx :
                                  data'[w][j] # Unread /\ j \notin wq'[w] \cup landed[w]
                                      => Right(w, j, SeenBy(w, w, j))'
                          /\ bpc[w] \in Running \ {"reading"} /\ status[w] # "removed" =>
                              \A j \in Idx : Right(w, j, rows[w][j])'
                          /\ bpc[w] \in {"idle", "reading"} => status[w] # "valid"
                          /\ bpc[w] = "idle" => \A j \in Idx : data'[w][j] = Unread
                          /\ status[w] = "absent" => bpc[w] = "idle"
        BY <1>1 DEF Recorded
      <3>1. \A j \in Idx : w # v \/ j # i =>
                /\ Right(w, j, SeenBy(w, w, j)) => Right(w, j, SeenBy(w, w, j))'
                /\ Right(w, j, rows[w][j]) => Right(w, j, rows[w][j])'
        BY <1>4, <1>6, SameRows, RightRefs
      <3>2. CASE w # v
        BY <1>4, <2>2, <3>1, <3>2 DEF IndInv, Recorded
      <3>3. CASE w = v
        <4>1. \A j \in Idx : j \notin wq'[v] \cup landed[v] =>
                  j # i /\ data'[v][j] = data[v][j] /\ j \notin wq[v] \cup landed[v]
          BY <1>4, <2>2, <2>3
        <4> QED
          BY <1>1, <3>1, <3>3, <4>1 DEF IndInv, Recorded
      <3> QED
        BY <3>2, <3>3
    <2> QED
      BY <2>4, <2>5, <2>6, <2>7, <2>8 DEF IndInv
  <1>7. NoUid \in RowValue /\ \A u \in KnownUids(v, c) : u \in RowValue
    BY DEF RowValue, KnownUids
  <1> QED
    BY <1>2, <1>5, <1>6, <1>7

\* Recording a written block preserves the invariant.
LEMMA HandleWriteInv ==
    ASSUME TypeOK, IndInv, NEW v \in Version, NEW i \in Idx, HandleWriteCompleted(v, i)
    PROVE  IndInv'
  <1> USE DEF storeVars
  <1>1. /\ bpc[v] = "reading" /\ i \in landed[v] /\ SetBlock(v, i, <<v, i>>)
        /\ landed' = [landed EXCEPT ![v] = @ \ {i}]
        /\ UNCHANGED <<now, status, cand, data, bpc, wq, objects, cleanVars, rash>>
    BY DEF HandleWriteCompleted
  <1>2. <<v, i>> \in Uid /\ <<v, i>> \in RowValue
    BY DEF Uid, RowValue
  <1>3. /\ data[v][i] \in Content /\ lost[<<v, i>>] = Never /\ <<v, i>> \in objects
        /\ ~Referenced(<<v, i>>)
    BY <1>1 DEF IndInv, FreshUnused
  <1>4. KeepsRefs({<<v, i>>}) /\ LostStep
    BY <1>1, <1>2, SetBlockRefs
  <1>5. /\ \A w \in Version \ {v} : landed'[w] = landed[w]
        /\ landed'[v] = landed[v] \ {i}
    BY <1>1 DEF TypeOK
  <1>6. FreshUnused'
    <2>1. \A w \in Version, j \in Idx :
             /\ j \in landed'[w] => j \in landed[w] /\ j \notin wq[w]
             /\ <<w, j>> = <<v, i>> => j \notin wq[w] \cup landed'[w]
      BY <1>1, <1>5 DEF IndInv, FreshUnused
    <2>2. data[v][i] # Unread
      BY <1>3, ValueAssumption DEF Data
    <2> QED
      BY <1>1, <1>4, <2>1, <2>2, FreshStep DEF IndInv, FreshUnused
  <1>7. CandidatesLost' /\ HitsUnused' /\ DanglingOnlyIfRash'
    BY <1>1, <1>2, <1>3, <1>4, SessionStep
  <1>8. PendYoung'
    BY <1>1, <1>2, SetBlockYoung DEF IndInv
  <1>9. PendBacked'
    BY <1>1, <1>2, <1>3, SetBlockBacked DEF IndInv
  <1>10. Recorded' /\ ValidIsComplete'
    <2>1. Right(v, i, <<v, i>>)'
      BY <1>1, <1>2, <1>3, ValueAssumption DEF Right, Checksum, Data
    <2>2. \A u \in Uid : Referenced(u) => Checksum(u)' = Checksum(u)
      BY <1>1 DEF Checksum
    <2> QED
      BY <1>1, <1>2, <1>5, <2>1, <2>2, SetBlockRecorded
  <1> QED
    BY <1>6, <1>7, <1>8, <1>9, <1>10 DEF IndInv

\* The end of the read loop preserves the invariant, however it ends.
LEMMA EndOfLoopInv ==
    ASSUME TypeOK, IndInv, NEW v \in Version,
           CommitBackup(v) \/ FailBackup(v) \/ CrashBackup(v)
    PROVE  IndInv'
  <1> USE DEF dbVars, storeVars
  <1>1. /\ CommitRows(v, pend[v]) \/ RollbackRows(v)
        /\ UNCHANGED <<now, status, cand, data, objects, cleanVars, rash>>
        /\ bpc[v] \in Running \cup {"failed"}
        /\ \A w \in Version \ {v} :
              wq'[w] = wq[w] /\ landed'[w] = landed[w] /\ bpc'[w] = bpc[w]
        /\ bpc'[v] \in {"committed", "failed", "crashed"}
    BY DEF CommitBackup, FailBackup, CrashBackup, TypeOK, Running
  <1>2. wq'[v] \subseteq wq[v] /\ landed'[v] \subseteq landed[v]
    <2>1. CASE CommitBackup(v)
      BY <2>1 DEF CommitBackup
    <2>2. CASE FailBackup(v)
      <3>1. PICK failed \in SUBSET wq[v] : wq' = [wq EXCEPT ![v] = @ \ failed]
        BY <2>2 DEF FailBackup
      <3> QED
        BY <2>2, <3>1 DEF FailBackup, TypeOK
    <2>3. CASE CrashBackup(v)
      BY <2>3 DEF CrashBackup, TypeOK
    <2> QED
      BY <2>1, <2>2, <2>3
  <1>3. KeepsRefs({}) /\ LostStep
    <2>1. /\ pend[v] \in [Idx -> RowValue \cup {Unset}]
          /\ \A j \in Idx : pend[v][j] \in Uid => Referenced(pend[v][j])
      BY DEF TypeOK, Referenced
    <2> QED
      BY <1>1, <2>1, CommitRowsRefs, RollbackRowsRefs
  <1>4. /\ CommitRows(v, pend[v]) => \A j \in Idx : rows'[v][j] = SeenBy(v, v, j)
        /\ ~HasPend(v)'
        /\ \A w \in Version \ {v} : rows'[w] = rows[w] /\ pend'[w] = pend[w]
        /\ \A w \in Version \ {v} : txStart'[w] = txStart[w]
        /\ ~HasPend(v) => rows' = rows
    BY <1>1, CommitSeen
  <1>5. FreshUnused'
    <2>1. \A w \in Version : wq'[w] \subseteq wq[w] /\ landed'[w] \subseteq landed[w]
      BY <1>1, <1>2
    <2> QED
      BY <1>1, <1>3, <2>1, FreshStep DEF IndInv, FreshUnused
  <1>6. CandidatesLost' /\ HitsUnused' /\ DanglingOnlyIfRash'
    BY <1>1, <1>3, SessionStep
  <1>7. PendYoung'
    BY <1>1, <1>4 DEF IndInv, PendYoung, HasPend
  <1>8. PendBacked'
    <2>1. \A w \in Version, j \in Idx : \A u \in Uid : pend'[w][j] = u => w # v
      BY <1>4, ValueAssumption DEF HasPend, RowValue
    <2> QED
      BY <1>3, <1>4, <2>1, BackedStep DEF IndInv
  <1>9. /\ \A u \in Uid : Referenced(u) => Checksum(u)' = Checksum(u)
        /\ \A w \in Version, j \in Idx : data'[w][j] = data[w][j]
    BY <1>1 DEF Checksum
  <1>10. ASSUME NEW w \in Version \ {v}, NEW j \in Idx
         PROVE  /\ Right(w, j, SeenBy(w, w, j)) => Right(w, j, SeenBy(w, w, j))'
                /\ Right(w, j, rows[w][j]) => Right(w, j, rows[w][j])'
    <2>1. SeenBy(w, w, j)' = SeenBy(w, w, j) /\ rows'[w][j] = rows[w][j]
      BY <1>4 DEF SeenBy
    <2> QED
      BY <1>9, <2>1, RightRefs
  <1>11. ValidIsComplete'
    <2> SUFFICES ASSUME NEW w \in Version, status[w] = "valid", NEW j \in Idx
                 PROVE  Right(w, j, rows[w][j])'
      BY <1>1 DEF ValidIsComplete
    <2>1. Right(w, j, rows[w][j])
      BY DEF IndInv, ValidIsComplete
    <2>2. CASE w # v
      BY <1>10, <2>1, <2>2
    <2>3. CASE w = v
      <3>1. ~HasPend(v)
        BY <2>3 DEF IndInv, Recorded, PendYoung
      <3> QED
        BY <1>4, <1>9, <2>1, <2>3, <3>1, RightRefs
    <2> QED
      BY <2>2, <2>3
  <1>12. Recorded'
    <2> SUFFICES ASSUME NEW w \in Version
                 PROVE  /\ bpc'[w] = "reading" /\ status[w] # "removed" =>
                            \A j \in Idx :
                                data[w][j] # Unread /\ j \notin wq'[w] \cup landed'[w]
                                    => Right(w, j, SeenBy(w, w, j))'
                        /\ bpc'[w] \in Running \ {"reading"} /\ status[w] # "removed" =>
                            \A j \in Idx : Right(w, j, rows[w][j])'
                        /\ bpc'[w] \in {"idle", "reading"} => status[w] # "valid"
                        /\ bpc'[w] = "idle" => \A j \in Idx : data[w][j] = Unread
                        /\ status[w] = "absent" => bpc'[w] = "idle"
      BY <1>1 DEF Recorded
    <2>1. CASE w # v
      BY <1>1, <1>10, <2>1 DEF IndInv, Recorded
    <2>2. CASE w = v
      <3>1. status[v] # "absent"
        BY <1>1 DEF IndInv, Recorded, Running
      <3>2. ASSUME bpc'[v] = "committed", status[v] # "removed", NEW j \in Idx
            PROVE  Right(v, j, rows[v][j])'
        <4>1. CommitBackup(v)
          BY <3>2 DEF CommitBackup, FailBackup, CrashBackup, TypeOK
        <4>2. rows'[v][j] = SeenBy(v, v, j)
          BY <1>4, <4>1 DEF CommitBackup
        <4>3. Right(v, j, SeenBy(v, v, j))
          BY <3>2, <4>1 DEF CommitBackup, IndInv, Recorded
        <4> QED
          BY <1>9, <4>2, <4>3, RightRefs
      <3> QED
        BY <1>1, <2>2, <3>1, <3>2 DEF Running
    <2> QED
      BY <2>1, <2>2
  <1> QED
    BY <1>5, <1>6, <1>7, <1>8, <1>11, <1>12 DEF IndInv

\* Removing a version, with or without a clean after it, preserves the invariant.
LEMMA RemoveVersionInv ==
    ASSUME TypeOK, IndInv, NEW v \in Version, RemoveVersion(v),
           UNCHANGED cleanVars \/ (cpc["clean"] = "idle" /\ Start("clean"))
    PROVE  IndInv'
  <1> USE DEF backupVars
  <1> DEFINE r == [rows EXCEPT ![v] = [i \in Idx |-> NoUid]]
  <1>1. /\ ~HasPend(v) /\ SetRows(r) /\ status[v] # "absent"
        /\ status' = [status EXCEPT ![v] = "removed"]
        /\ cand' = cand \cup {[uid |-> u, date |-> now] : u \in RowUids(v)}
        /\ UNCHANGED <<now, pend, txStart, data, bpc, wq, landed, objects, rash>>
    BY DEF RemoveVersion
  <1>2. /\ \A w \in Version \ {v} : rows'[w] = rows[w] /\ status'[w] = status[w]
        /\ \A i \in Idx : rows'[v][i] = NoUid
        /\ status'[v] = "removed"
    BY <1>1 DEF SetRows, TypeOK
  <1>3. LostStep
    BY <1>1, SetRowsLost
  <1>4. KeepsRefs({})
    BY <1>1, <1>2, ValueAssumption DEF KeepsRefs, Referenced, CommittedRef
  <1>5. /\ UNCHANGED hits
        /\ \A k \in Cleaners : cpc'[k] \in {"idle", "check"} => hits[k] = {}
        /\ \A k \in Cleaners : cstart'[k] <= now
        /\ \A k \in Cleaners : hits[k] # {} => cstart'[k] = cstart[k]
    <2>1. CASE UNCHANGED cleanVars
      BY <2>1 DEF cleanVars, IndInv, CandidatesLost
    <2>2. CASE cpc["clean"] = "idle" /\ Start("clean")
      <3>1. /\ UNCHANGED hits /\ hits["clean"] = {}
            /\ cpc' = [cpc EXCEPT !["clean"] = "check"]
            /\ cstart' = [cstart EXCEPT !["clean"] = now]
        BY <2>2 DEF Start, IndInv, CandidatesLost, Cleaners
      <3> QED
        BY <3>1 DEF IndInv, CandidatesLost, TypeOK
    <2> QED
      BY <2>1, <2>2
  <1>6. CandidatesLost'
    <2>1. \A u \in RowUids(v) : u \in Uid /\ lost'[u] = now
      <3> SUFFICES ASSUME NEW u \in RowUids(v)
                   PROVE  u \in Uid /\ lost'[u] = now
        OBVIOUS
      <3>1. u \in Uid /\ \E i \in Idx : rows[v][i] = u
        BY DEF RowUids
      <3>2. u \in Loses(r)
        BY <1>2, <3>1, ValueAssumption DEF Loses, TypeOK
      <3> QED
        BY <1>1, <3>1, <3>2 DEF SetRows
    <2>2. \A x \in cand' : x \in cand \/ (x.uid \in Uid /\ lost'[x.uid] = now)
      BY <1>1, <2>1
    <2>3. now # Never
      BY ValueAssumption DEF TypeOK
    <2> QED
      BY <1>1, <1>3, <1>5, <2>2, <2>3, CandidateStep DEF IndInv
  <1>7. HitsUnused'
    BY <1>3, <1>4, <1>5, HitsStep DEF IndInv
  <1>8. DanglingOnlyIfRash'
    BY <1>1, <1>4, DanglingStep DEF IndInv
  <1>9. FreshUnused'
    BY <1>1, <1>3, <1>4, FreshStep DEF IndInv, FreshUnused
  <1>10. PendYoung'
    BY <1>1, <1>2 DEF IndInv, PendYoung, HasPend
  <1>11. PendBacked'
    BY <1>1, <1>3, BackedStep DEF IndInv
  <1>12. ValidIsComplete'
    BY <1>1, <1>2 DEF IndInv, ValidIsComplete, Right, Checksum
  <1>13. Recorded'
    BY <1>1, <1>2 DEF IndInv, Recorded, Right, Checksum, SeenBy
  <1> QED
    BY <1>6, <1>7, <1>8, <1>9, <1>10, <1>11, <1>12, <1>13 DEF IndInv

(***************************************************************************)
(* The theorems.                                                           *)
(***************************************************************************)

\* Every step preserves the invariant.
LEMMA NextInv ==
    ASSUME TypeOK, IndInv, [Next]_vars
    PROVE  IndInv'
  <1>1. ASSUME NEW v \in Version, CreateVersion(v) \/ BackupStep(v)
        PROVE  IndInv'
    BY <1>1, PlaceActions, UpdateVersionInv, EndOfLoopInv, ReadBlockInv, WriteLandsInv,
       HandleWriteInv DEF BackupStep
  <1>2. ASSUME NEW v \in Version, FailBackup(v) \/ CrashBackup(v)
        PROVE  IndInv'
    BY <1>2, EndOfLoopInv
  <1>3. ASSUME NEW v \in Version, Rm(v) \/ Delete(v)
        PROVE  IndInv'
    BY <1>3, RemoveVersionInv DEF Rm, Delete
  <1>4. CASE UNCHANGED vars
    <2>1. UNCHANGED <<now, status, rows, cand, backupVars, objects, rash, cleanVars, lost>>
      BY <1>4 DEF vars, dbVars, storeVars
    <2>2. CandidatesLost'
      BY <2>1 DEF IndInv, CandidatesLost, cleanVars
    <2>3. HitsUnused' /\ DanglingOnlyIfRash'
      BY <2>1 DEF IndInv, HitsUnused, DanglingOnlyIfRash, LongLost, Referenced,
         CommittedRef, cleanVars, backupVars
    <2> QED
      BY <2>1, <2>2, <2>3, CleanerStep
  <1> QED
    BY <1>1, <1>2, <1>3, <1>4, CleanupActions, ClockActions DEF Next

\* The initial state satisfies the invariant.
LEMMA InitInv ==
    ASSUME Init
    PROVE  IndInv
  <1>1. \A u \in Uid : ~Referenced(u)
    BY ValueAssumption DEF Init, Referenced, CommittedRef, NoPend, RowValue
  <1>2. \A v \in Version : ~HasPend(v)
    BY DEF Init, HasPend, NoPend
  <1>3. FreshUnused
    BY <1>1 DEF Init, FreshUnused, Uid
  <1>4. CandidatesLost /\ HitsUnused
    BY DEF Init, CandidatesLost, HitsUnused
  <1>5. PendYoung /\ DanglingOnlyIfRash
    BY <1>1, <1>2 DEF PendYoung, DanglingOnlyIfRash
  <1>6. PendBacked
    BY <1>1 DEF PendBacked, Referenced
  <1>7. Recorded /\ ValidIsComplete
    BY DEF Init, Recorded, ValidIsComplete, Running
  <1> QED
    BY <1>3, <1>4, <1>5, <1>6, <1>7 DEF IndInv

(* The inductive invariant holds in every state of the system.             *)
THEOREM Invariance == Spec => []IndInv
  <1>1. Init => IndInv
    BY InitInv
  <1>2. TypeOK /\ IndInv /\ [Next]_vars => IndInv'
    BY NextInv
  <1> QED
    BY <1>1, <1>2, TypeCorrect, PTL DEF Spec

(* A reference dangles only if a cleanup removed the object less than Dt   *)
(* after the block lost a committed reference: for blocks unreferenced for *)
(* longer the delay of get_unused_block_uids closes the race with the      *)
(* uncommitted deduplications of Benji.backup, however many backups,       *)
(* removals and cleanups run and whatever fails.                           *)
THEOREM DanglingOnlyIfRashAlways == Spec => []DanglingOnlyIfRash
  <1>1. IndInv => DanglingOnlyIfRash
    BY DEF IndInv
  <1> QED
    BY <1>1, Invariance, PTL

(* A version marked valid by Benji.backup is complete and every block row  *)
(* of it has the checksum of what was read, whatever fails in between.     *)
THEOREM ValidIsCompleteAlways == Spec => []ValidIsComplete
  <1>1. IndInv => ValidIsComplete
    BY DEF IndInv
  <1> QED
    BY <1>1, Invariance, PTL

(***************************************************************************)
(* The metadata objects.                                                   *)
(***************************************************************************)

\* MetadataGoesWithVersion with what makes it inductive: a backup at work has the
\* lock of its version, and so nobody has removed the version.
LockedMeta ==
    /\ \A v \in Version : bpc[v] \in Running => lock[v] = "backup" /\ status[v] # "removed"
    /\ MetadataGoesWithVersion

\* What is left alone: the places of backups, the locks and the statuses.
LEMMA LockedMetaFrame ==
    ASSUME LockedMeta, UNCHANGED <<status, bpc, lock, meta, kept>>
    PROVE  LockedMeta'
  BY DEF LockedMeta, MetadataGoesWithVersion

LEMMA LockedMetaBackup ==
    ASSUME TypeOK, LockedMeta, NEW v \in Version,
           CreateVersion(v) \/ BackupStep(v) \/ FailBackup(v) \/ CrashBackup(v)
    PROVE  LockedMeta'
  <1> USE DEF dbVars, storeVars
  <1>a. /\ status \in [Version -> {"absent", "incomplete", "valid", "invalid", "removed"}]
        /\ bpc \in [Version -> {"idle", "reading", "committed", "valid", "exported",
                               "saved", "failed", "done", "crashed"}]
        /\ lock \in [Version -> {"free", "backup"}]
    BY DEF TypeOK
  <1>1. CASE CreateVersion(v) \/ RefuseBackup(v)
    BY <1>1, <1>a DEF CreateVersion, RefuseBackup, backupVars, LockedMeta, MetadataGoesWithVersion, Running
  <1>2. CASE UpdateVersion(v)
    BY <1>2, <1>a DEF UpdateVersion, LockedMeta, MetadataGoesWithVersion
  <1>3. CASE CommitBackup(v) \/ ExportMetadata(v)
    BY <1>3, <1>a DEF CommitBackup, ExportMetadata, LockedMeta, MetadataGoesWithVersion, Running
  <1>4. CASE MarkValid(v)
    BY <1>4, <1>a DEF MarkValid, LockedMeta, MetadataGoesWithVersion, Running
  <1>5. CASE WriteMetadata(v)
    BY <1>5, <1>a DEF WriteMetadata, LockedMeta, MetadataGoesWithVersion, Running
  <1>6. CASE FinishBackup(v)
    BY <1>6, <1>a DEF FinishBackup, LockedMeta, MetadataGoesWithVersion, Running
  <1>7. CASE FailBackup(v) \/ MarkInvalid(v)
    BY <1>7, <1>a DEF FailBackup, MarkInvalid, LockedMeta, MetadataGoesWithVersion, Running
  <1>8. CASE CrashBackup(v)
    BY <1>8, <1>a DEF CrashBackup, LockedMeta, MetadataGoesWithVersion, Running
  <1>9. ASSUME NEW i \in Idx, ReadBlock(v, i) \/ WriteLands(v, i) \/ HandleWriteCompleted(v, i)
        PROVE  LockedMeta'
    BY <1>9, LockedMetaFrame DEF ReadBlock, WriteLands, HandleWriteCompleted
  <1> QED
    BY <1>1, <1>2, <1>3, <1>4, <1>5, <1>6, <1>7, <1>8, <1>9 DEF BackupStep

LEMMA LockedMetaNext ==
    ASSUME "override" \notin Fault, TypeOK, LockedMeta, [Next]_vars
    PROVE  LockedMeta'
  <1> USE DEF dbVars, storeVars, backupVars
  <1>1. ASSUME NEW v \in Version, RemoveVersion(v)
        PROVE  LockedMeta'
    <2>1. bpc[v] \notin Running
      BY <1>1 DEF RemoveVersion, LockedMeta
    <2> QED
      BY <1>1, <2>1 DEF RemoveVersion, LockedMeta, MetadataGoesWithVersion, TypeOK
  <1>2. ASSUME NEW k \in Cleaners, CleanupStep(k) \/ FailCleanup(k) \/ CrashCleanup(k)
        PROVE  LockedMeta'
    BY <1>2, LockedMetaFrame DEF CleanupStep, CheckCandidates, DeleteCandidates, CommitRound, RemoveObject,
       FailCleanup, CrashCleanup
  <1>3. CASE StartCleanup \/ Tick \/ UNCHANGED vars
    BY <1>3, LockedMetaFrame DEF StartCleanup, Tick, vars
  <1> QED
    BY <1>1, <1>2, <1>3, LockedMetaBackup DEF Next, Rm, Delete

(* Where no lock is overridden, the metadata object of a version is gone   *)
(* once Benji.rm has removed the version: a backup writes it only while it *)
(* has the lock that the removal needs.                                    *)
THEOREM MetadataGoesAlways ==
    ASSUME "override" \notin Fault
    PROVE  Spec => []MetadataGoesWithVersion
  <1>1. Init => LockedMeta
    BY DEF Init, LockedMeta, MetadataGoesWithVersion, Running
  <1>2. TypeOK /\ LockedMeta /\ [Next]_vars => LockedMeta'
    BY LockedMetaNext
  <1>3. LockedMeta => MetadataGoesWithVersion
    BY DEF LockedMeta
  <1> QED
    BY <1>1, <1>2, <1>3, TypeCorrect, PTL DEF Spec
=============================================================================
