------------------------------- MODULE Locking -------------------------------
(***************************************************************************)
(* The locks every Benji instance takes before it works on a version, a    *)
(* storage or a schedule job: rows of the table "locks", whose primary key *)
(* is the name of the lock (class _Locking and class Lock of database.py). *)
(*                                                                         *)
(* A process is one value of _process_id(): a thread of one Python         *)
(* process.  It never waits for a lock: lock() fails when the row exists.  *)
(* Several statements of the code look at a row first and write it later;  *)
(* between the two other processes run, so such a method is two actions.   *)
(***************************************************************************)
EXTENDS Naturals

CONSTANTS
    Process,   \* values of _process_id()
    Name,      \* names of locks
    Fault,     \* what may happen: "override", "crash", "unlock", "close"
    Nobody     \* no row in the table

Faults == {"override", "crash", "unlock", "close"}

ASSUME LockingAssumption == Nobody \notin Process /\ Fault \subseteq Faults

VARIABLES
    owner,       \* locks: the process_id of the row of a name
    pc,          \* where a process is
    target,      \* rows the method under way has looked at and will write
    seen,        \* whether Session.merge found a row to update
    inside,      \* locks a process believes it holds
    overridden   \* history: names that were taken from a living process

lockVars == <<owner, pc, target, seen, inside, overridden>>

LockTypeOK ==
    /\ owner \in [Name -> Process \cup {Nobody}]
    /\ pc \in [Process -> {"run", "merge", "unlock", "close", "dead"}]
    /\ target \in [Process -> SUBSET Name]
    /\ seen \in [Process -> BOOLEAN]
    /\ inside \in [Process -> SUBSET Name]
    /\ overridden \subseteq Name

Alive(p) == pc[p] # "dead"

-----------------------------------------------------------------------------
(* Acquiring.                                                              *)

Enter(p, n) == inside' = [inside EXCEPT ![p] = @ \cup {n}]

\* lock(override_lock=False).  The INSERT succeeds when no row has the name;
\* otherwise lock() raises InternalError (the row is the caller's own) or
\* AlreadyLocked and changes nothing.  No caller locks a name it holds.
Lock(p, n) ==
    /\ pc[p] = "run" /\ n \notin inside[p]
    /\ owner[n] = Nobody
    /\ owner' = [owner EXCEPT ![n] = p]
    /\ Enter(p, n)
    /\ UNCHANGED <<pc, target, seen, overridden>>

\* lock(override_lock=True), up to the SELECT of Session.merge(load=True).
LockOverride(p, n) ==
    /\ "override" \in Fault
    /\ pc[p] = "run" /\ n \notin inside[p]
    /\ owner[n] # p
    /\ pc' = [pc EXCEPT ![p] = "merge"]
    /\ target' = [target EXCEPT ![p] = {n}]
    /\ seen' = [seen EXCEPT ![p] = owner[n] # Nobody]
    /\ UNCHANGED <<owner, inside, overridden>>

Victims(p) == {n \in target[p] : owner[n] # Nobody /\ Alive(owner[n])}

\* Mutant: a merge that found no row replaces one that has appeared since.
Merge_Upsert(p) ==
    /\ pc[p] = "merge"
    /\ pc' = [pc EXCEPT ![p] = "run"]
    /\ target' = [target EXCEPT ![p] = {}]
    /\ owner' = [n \in Name |-> IF n \in target[p] THEN p ELSE owner[n]]
    /\ inside' = [inside EXCEPT ![p] = @ \cup target[p]]
    /\ overridden' = overridden \cup (IF seen[p] THEN Victims(p) ELSE {})
    /\ UNCHANGED seen

\* ... and its flush and commit: an UPDATE of the row that was found, whoever
\* owns it by now, or an INSERT.  The UPDATE fails when the row has gone
\* (StaleDataError), the INSERT when a row has appeared (AlreadyLocked).
Merge(p) ==
    /\ pc[p] = "merge"
    /\ pc' = [pc EXCEPT ![p] = "run"]
    /\ target' = [target EXCEPT ![p] = {}]
    /\ \/ /\ \A n \in target[p] : seen[p] = (owner[n] # Nobody)
          /\ owner' = [n \in Name |-> IF n \in target[p] THEN p ELSE owner[n]]
          /\ inside' = [inside EXCEPT ![p] = @ \cup target[p]]
          /\ overridden' = overridden \cup Victims(p)
       \/ /\ \E n \in target[p] : seen[p] # (owner[n] # Nobody)
          /\ UNCHANGED <<owner, inside, overridden>>
    /\ UNCHANGED seen

-----------------------------------------------------------------------------
(* Releasing.                                                              *)

\* Mutant: unlock does not ask whose row it is.
Unlock_Any(p, n) ==
    /\ pc[p] = "run"
    /\ owner[n] # Nobody
    /\ pc' = [pc EXCEPT ![p] = "unlock"]
    /\ target' = [target EXCEPT ![p] = {n}]
    /\ inside' = [inside EXCEPT ![p] = @ \ {n}]
    /\ UNCHANGED <<owner, seen, overridden>>

\* unlock(), up to its SELECT.  The work under the lock is over.
Unlock(p, n) ==
    /\ pc[p] = "run"
    /\ owner[n] = p
    /\ pc' = [pc EXCEPT ![p] = "unlock"]
    /\ target' = [target EXCEPT ![p] = {n}]
    /\ inside' = [inside EXCEPT ![p] = @ \ {n}]
    /\ UNCHANGED <<owner, seen, overridden>>

\* unlock() and update_lock() of a lock whose row has been taken: both raise
\* InternalError and the job under the lock ends.
NotHeld(p, n) ==
    /\ pc[p] = "run"
    /\ n \in inside[p] /\ owner[n] # p
    /\ inside' = [inside EXCEPT ![p] = @ \ {n}]
    /\ UNCHANGED <<owner, pc, target, seen, overridden>>

\* Mutant: close() forgets to look for locks that were not released.
Close_NoUnlockAll(p) ==
    /\ pc[p] = "run"
    /\ \E n \in Name : owner[n] = p \/ n \in inside[p]
    /\ pc' = [pc EXCEPT ![p] = "close"]
    /\ target' = [target EXCEPT ![p] = {}]
    /\ inside' = [inside EXCEPT ![p] = {}]
    /\ UNCHANGED <<owner, seen, overridden>>

\* Database.close(): unlock_all() selects the rows of the process.  The thread
\* goes on to serve other requests afterwards.
Close(p) ==
    /\ pc[p] = "run"
    /\ \E n \in Name : owner[n] = p \/ n \in inside[p]
    /\ pc' = [pc EXCEPT ![p] = "close"]
    /\ target' = [target EXCEPT ![p] = {n \in Name : owner[n] = p}]
    /\ inside' = [inside EXCEPT ![p] = {}]
    /\ UNCHANGED <<owner, seen, overridden>>

\* The flush and commit of unlock() or unlock_all(): a DELETE by primary key,
\* which is the name alone; rows that have gone are no error.
Delete(p) ==
    /\ pc[p] \in {"unlock", "close"}
    /\ owner' = [n \in Name |-> IF n \in target[p] THEN Nobody ELSE owner[n]]
    /\ pc' = [pc EXCEPT ![p] = "run"]
    /\ target' = [target EXCEPT ![p] = {}]
    /\ UNCHANGED <<seen, inside, overridden>>

\* The database refuses that commit: unlock() rolls back and raises,
\* unlock_all() swallows the error.  The rows stay.
DeleteFails(p) ==
    /\ pc[p] \in {"unlock", "close"} /\ pc[p] \in Fault
    /\ pc' = [pc EXCEPT ![p] = "run"]
    /\ target' = [target EXCEPT ![p] = {}]
    /\ UNCHANGED <<owner, seen, inside, overridden>>

\* The process dies: its rows stay, a restart has another _process_id().
Crash(p) ==
    /\ "crash" \in Fault /\ Alive(p)
    /\ pc' = [pc EXCEPT ![p] = "dead"]
    /\ target' = [target EXCEPT ![p] = {}]
    /\ inside' = [inside EXCEPT ![p] = {}]
    /\ UNCHANGED <<owner, seen, overridden>>

-----------------------------------------------------------------------------

LockInit ==
    /\ owner = [n \in Name |-> Nobody]
    /\ pc = [p \in Process |-> "run"]
    /\ target = [p \in Process |-> {}]
    /\ seen = [p \in Process |-> FALSE]
    /\ inside = [p \in Process |-> {}]
    /\ overridden = {}

LockNext ==
    \E p \in Process :
        \/ \E n \in Name : \/ Lock(p, n)
                           \/ LockOverride(p, n)
                           \/ Unlock(p, n)
                           \/ NotHeld(p, n)
        \/ Merge(p)
        \/ Close(p)
        \/ Delete(p)
        \/ DeleteFails(p)
        \/ Crash(p)

LockSpec == LockInit /\ [][LockNext]_lockVars

\* A method that has been called goes on (Delete and Merge, as one step that is
\* enabled until it is taken), and a session that holds locks is closed at last:
\* every entry point runs in "with Benji(...)", whose __exit__ calls close().
\* Close is disabled whenever the process is inside another method, so its
\* fairness is strong.
LockFairness ==
    \A p \in Process : /\ WF_lockVars(Merge(p))
                       /\ WF_lockVars(Delete(p))
                       /\ SF_lockVars(Close(p))

LockFairSpec == LockSpec /\ LockFairness

-----------------------------------------------------------------------------
(* Properties.                                                             *)

\* What lock() is for: two processes are inside the same lock only when an
\* override took it from a process that was still alive.  In particular the
\* override of a lock a crashed process left behind lets only one process in,
\* and no order of the SELECTs, INSERTs, UPDATEs and DELETEs of the methods
\* breaks a lock nobody overrode.
ExclusiveUnlessOverridden ==
    \A n \in Name \ overridden : \A p, q \in Process :
        n \in inside[p] /\ n \in inside[q] => p = q

\* The inductive form: on a name that was not overridden, the row is the truth
\* about who is inside and about who may delete it.
LockInv ==
    /\ LockTypeOK
    /\ \A p \in Process : ~Alive(p) => inside[p] = {} /\ target[p] = {}
    /\ \A p \in Process, n \in Name \ overridden :
          /\ n \in inside[p] => owner[n] = p
          /\ pc[p] \in {"unlock", "close"} /\ n \in target[p] =>
                owner[n] = p /\ n \notin inside[p]

\* Every row of a process that stays alive is removed at last: by unlock(), or
\* by unlock_all() when unlock() failed or was never called.
Released ==
    \A p \in Process, n \in Name :
        owner[n] = p ~> (owner[n] # p \/ ~Alive(p))

\* unlock() refuses a lock that "isn't held by this instance": a row disappears
\* only by a method of the process it belongs to, unless an override has taken
\* the lock from a living process.
ReleasesOwnUnlessOverridden ==
    [][\A n \in Name \ overridden : owner[n] # Nobody /\ owner'[n] = Nobody =>
          pc[owner[n]] \in {"unlock", "close"} /\ n \in target[owner[n]]]_lockVars

=============================================================================
