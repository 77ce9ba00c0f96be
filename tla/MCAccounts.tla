----------------------------- MODULE MCAccounts -----------------------------
EXTENDS Accounts, TLC

CONSTANTS ann, bob, cyd

Ann == [name |-> ann, miq |-> 1, role |-> "IT_ADMIN", tf |-> FALSE, status |-> TRUE]
Bob == [name |-> bob, miq |-> 2, role |-> "USER",     tf |-> FALSE, status |-> TRUE]
Cyd == [name |-> cyd, miq |-> 3, role |-> None,       tf |-> TRUE,  status |-> TRUE]
\* Another one with the name of Cyd and the number of Bob, locked.
Dup == [name |-> cyd, miq |-> 2, role |-> "IT_ADMIN", tf |-> FALSE, status |-> FALSE]

MCProfile == {Ann, Bob, Cyd, Dup}
\* Servants from nothing; sessions of users who come and go; lists that grow and
\* shrink; two administrators.
MCScene == {
    [since |-> <<>>, vms |-> <<>>, storages |-> {}, calls |-> 4, asked |-> 0, time |-> 0],
    [since |-> <<Ann, Bob>>, vms |-> <<>>, storages |-> {}, calls |-> 1, asked |-> 3, time |-> 2],
    [since |-> <<Bob, Ann, Cyd>>, vms |-> <<1, 3, 1>>, storages |-> {1, 2, 3}, calls |-> 2, asked |-> 3, time |-> 0],
    [since |-> <<Bob, Ann, Cyd>>, vms |-> <<1, 3, 1>>, storages |-> {1, 2, 3}, calls |-> 1, asked |-> 4, time |-> 0],
    [since |-> <<Ann, Dup>>, vms |-> <<>>, storages |-> {}, calls |-> 0, asked |-> 2, time |-> 0]}

Symmetry == Permutations(Worker) \cup Permutations(Thread)
=============================================================================
