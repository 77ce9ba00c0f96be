------------------------------ MODULE Accounts ------------------------------
(***************************************************************************)
(* Users, virtual machines and sessions.  Rows of users and vms are made   *)
(* by the gRPC servants, which another system calls; the REST API logs     *)
(* users in, gives out tokens and reads the rows.                          *)
(*                                                                         *)
(* A row is known by its place in its table, and places are primary keys.  *)
(* A thread of the API has a transaction per request, which reads what it  *)
(* saw when the token was verified.  A worker of the gRPC server keeps its *)
(* transaction until it commits: a call that is refused commits nothing    *)
(* and closes nothing, so the next call of the worker may still read what  *)
(* was there then (repeatable read) or what is there now (read committed). *)
(*                                                                         *)
(* No query of a list asks for an order.  The rows come in the order the   *)
(* database keeps them in, which is that of the keys in SQLite; PostgreSQL *)
(* puts a new row, and the new form of one that was updated, wherever      *)
(* there is room.                                                          *)
(***************************************************************************)
EXTENDS Naturals, Sequences, SequencesExt, FiniteSets

CONSTANTS
    Name, Miq,     \* user_name and miq_id of users
    Profile,       \* bound: the users create_user is asked for: name, miq, role, tf, status
    Scene,         \* bounds of a behaviour: the rows that were there before (since, as
                   \* a sequence of profiles, vms and storages), the calls of the
                   \* servants and changes of storages, the requests and the time
    Worker,        \* workers of the gRPC server
    Thread,        \* threads of the API
    LoginLife,     \* lifetime of the tokens of a login
    RefreshLife,   \* lifetime of the tokens of a refresh
    PageSize,      \* page_size of the requests
    None

Rank == [USER |-> 1, IT_ADMIN |-> 20, ADMIN |-> 30]

ASSUME AccountsAssumption ==
    /\ LoginLife \in Nat /\ RefreshLife \in Nat /\ PageSize \in Nat \ {0}
    /\ None \notin Name /\ None \notin Nat
    /\ Profile \subseteq [name : Name, miq : Miq, role : DOMAIN Rank \cup {None}, tf : BOOLEAN, status : BOOLEAN]
    /\ \A s \in Scene :
          /\ s.calls \in Nat /\ s.asked \in Nat /\ s.time \in Nat
          /\ s.since \in Seq(Profile)
          /\ \A i, j \in DOMAIN s.since : i # j => s.since[i].name # s.since[j].name /\ s.since[i].miq # s.since[j].miq
          /\ s.vms \in Seq(DOMAIN s.since) /\ s.storages \subseteq DOMAIN s.since

VARIABLES
    users,     \* rows: name, miq, role, tf, active; history: when it went inactive
    vms,       \* rows: the user of a virtual machine
    storages,  \* rows: the users of storages, of which each has one
    clock,
    tokens,    \* tokens given out: user, exp; history: when their request began
    rpc,       \* calls the workers are at
    view,      \* how many users the open transaction of a worker sees, or None
    calls, asked, time,   \* calls, requests and time still to come
    web,       \* requests the threads are at
    walk,      \* a client that reads a list page by page, and the rows of the list in
               \* their order; history: rows that left their place or took one
    made,      \* history: SUCCESS answers to create_user
    deleted,   \* history: users whose deletion was answered SUCCESS
    unsaved,   \* history: those of them whose row was not saved
    refused,   \* history: workers whose last call was refused
    missed,    \* history: workers whose last call missed a user that was there
    told       \* history: <<who, about whom, by what>> of the last answer

rows == <<users, vms, storages>>
server == <<rpc, view, calls, made, deleted, unsaved, refused, missed>>
session == <<tokens, web, asked, told>>
client == <<session, walk>>
vars == <<rows, clock, time, server, client>>

NoCall == [op |-> "none", user |-> 0, profile |-> None]
NoRequest == [op |-> "none", user |-> 0, target |-> 0, active |-> FALSE, begun |-> 0]
NoWalk == [what |-> "none", by |-> 0, name |-> None, next |-> 1, counts |-> FALSE, order |-> <<>>,
           seen |-> <<>>, had |-> {}, left |-> 0, came |-> 0]

\* A role that is not known is parsed to None, for which the column has a default.
Parse(role) == IF role \in DOMAIN Rank THEN role ELSE "USER"
Row(p) == [name |-> p.name, miq |-> p.miq, role |-> Parse(p.role), tf |-> p.tf, active |-> p.status,
           gone |-> IF p.status THEN None ELSE clock]

Init ==
    /\ clock = 0
    /\ \E s \in Scene :
          /\ users = [i \in DOMAIN s.since |-> Row(s.since[i])]
          /\ made = [n \in Name |-> IF \E i \in DOMAIN s.since : s.since[i].name = n THEN 1 ELSE 0]
          /\ vms = s.vms /\ storages = s.storages
          /\ calls = s.calls /\ asked = s.asked /\ time = s.time
    /\ tokens = {} /\ told = {}
    /\ rpc = [w \in Worker |-> NoCall]
    /\ view = [w \in Worker |-> None]
    /\ web = [t \in Thread |-> NoRequest]
    /\ walk = NoWalk
    /\ deleted = {} /\ unsaved = {} /\ refused = {} /\ missed = {}

User == DOMAIN users

IsAdmin(u) == users[u].role \in {"ADMIN", "IT_ADMIN"}
\* compare_roles
AtMost(u, v) == Rank[users[u].role] <= Rank[users[v].role]

-----------------------------------------------------------------------------
(* The rows of the list a client reads.                                    *)

\* What a filter by user name selects.
Named(u, name) == name = None \/ users[u].name = name
Reading(what) == walk.what = what /\ walk.next # 0

\* The row x goes, or comes to any place.
Without(q, x) == {[q EXCEPT !.order = RemoveAt(@, i), !.left = @ + 1] : i \in {j \in DOMAIN q.order : q.order[j] = x}}
With(q, x) == {[q EXCEPT !.order = InsertAt(@, i, x), !.came = @ + 1] : i \in 1 .. Len(q.order) + 1}

Appears(what, matches, x) == walk' \in IF Reading(what) /\ matches THEN With(walk, x) ELSE {walk}
Vanishes(what, x) ==
    walk' \in IF Reading(what) /\ x \in Range(walk.order) THEN Without(walk, x) ELSE {walk}
Moves(what, x) ==
    walk' \in IF Reading(what) /\ x \in Range(walk.order)
              THEN UNION {With(q, x) : q \in Without(walk, x)}
              ELSE {walk}

-----------------------------------------------------------------------------
(* The servants.                                                           *)

\* How many users a call of w may see.
Sees(w) == {Len(users)} \cup (IF view[w] = None THEN {} ELSE {view[w]})

\* The lookup of a call.  A call that is refused returns before anything is
\* committed or closed, and its transaction stays open.
Call(w) == rpc[w].op = "none" /\ calls > 0 /\ calls' = calls - 1
Opened(w, n) == view' = [view EXCEPT ![w] = n]
Goes(w, c) == rpc' = [rpc EXCEPT ![w] = c] /\ refused' = refused \ {w} /\ missed' = missed \ {w}
Refuse(w, there) ==
    /\ refused' = refused \cup {w}
    /\ missed' = IF there THEN missed \cup {w} ELSE missed \ {w}
    /\ UNCHANGED rpc
\* save(): a commit or a rollback ends the transaction.
Closed(w) == view' = [view EXCEPT ![w] = None] /\ rpc' = [rpc EXCEPT ![w] = NoCall]

\* create_user, up to the check of the name, which also inactive users have.
CreateUser(w, p) ==
    /\ Call(w)
    /\ \E n \in Sees(w) :
          /\ Opened(w, n)
          /\ IF \E u \in 1 .. n : users[u].name = p.name
             THEN Refuse(w, FALSE)
             ELSE Goes(w, [op |-> "create", user |-> 0, profile |-> p])
    /\ UNCHANGED <<rows, clock, time, client, made, deleted, unsaved>>

\* The unique columns of users.
Unique(p) == \A u \in User : users[u].name # p.name /\ users[u].miq # p.miq

InsertUser_Success(w) ==
    /\ rpc[w].op = "create"
    /\ LET p == rpc[w].profile
       IN  /\ users' = IF Unique(p) THEN Append(users, Row(p)) ELSE users
           /\ made' = [made EXCEPT ![p.name] = @ + 1]
    /\ Closed(w)
    /\ UNCHANGED <<vms, storages, clock, time, client, calls, deleted, unsaved, refused, missed>>

\* A conflict rolls back and is answered as an error.
InsertUser(w) ==
    /\ rpc[w].op = "create"
    /\ LET p == rpc[w].profile
       IN  IF Unique(p)
           THEN /\ users' = Append(users, Row(p))
                /\ made' = [made EXCEPT ![p.name] = @ + 1]
                /\ Appears("users", Parse(p.role) = "USER" /\ walk.name \in {None, p.name}, Len(users) + 1)
           ELSE UNCHANGED <<users, made, walk>>
    /\ Closed(w)
    /\ UNCHANGED <<vms, storages, clock, time, session, calls, deleted, unsaved, refused, missed>>

\* delete_user, up to the check that the user is there.
DeleteUser(w, name) ==
    /\ Call(w)
    /\ \E n \in Sees(w) :
          /\ Opened(w, n)
          /\ \/ \E u \in 1 .. n : users[u].name = name /\ Goes(w, [op |-> "delete", user |-> u, profile |-> None])
             \/ /\ \A u \in 1 .. n : users[u].name # name
                /\ Refuse(w, \E u \in User : users[u].name = name)
    /\ UNCHANGED <<rows, clock, time, client, made, deleted, unsaved>>

\* The row stays, with the status of a locked user: an update, unless he was locked.
Deactivate(w) ==
    /\ rpc[w].op = "delete"
    /\ LET u == rpc[w].user
       IN  /\ users' = [users EXCEPT ![u].active = FALSE, ![u].gone = IF users[u].active THEN clock ELSE @]
           /\ deleted' = deleted \cup {u}
           /\ IF users[u].active THEN Moves("users", u) ELSE UNCHANGED walk
    /\ Closed(w)
    /\ UNCHANGED <<vms, storages, clock, time, session, calls, made, unsaved, refused, missed>>

\* create_vm, up to the check that the user is there, active or not.
CreateVm(w, miq) ==
    /\ Call(w)
    /\ \E n \in Sees(w) :
          /\ Opened(w, n)
          /\ \/ \E u \in 1 .. n : users[u].miq = miq /\ Goes(w, [op |-> "vm", user |-> u, profile |-> None])
             \/ /\ \A u \in 1 .. n : users[u].miq # miq
                /\ Refuse(w, \E u \in User : users[u].miq = miq)
    /\ UNCHANGED <<rows, clock, time, client, made, deleted, unsaved>>

InsertVm_Open(w) ==
    /\ rpc[w].op = "vm"
    /\ vms' = Append(vms, rpc[w].user)
    /\ rpc' = [rpc EXCEPT ![w] = NoCall]
    /\ UNCHANGED <<users, storages, clock, time, client, view, calls, made, deleted, unsaved, refused, missed>>

InsertVm(w) ==
    /\ rpc[w].op = "vm"
    /\ vms' = Append(vms, rpc[w].user)
    /\ Appears("vms", IsAdmin(walk.by) \/ walk.by = rpc[w].user, Len(vms) + 1)
    /\ Closed(w)
    /\ UNCHANGED <<users, storages, clock, time, session, calls, made, deleted, unsaved, refused, missed>>

\* delete_vm answers SUCCESS, reads nothing and deletes nothing.
DeleteVm(w) ==
    /\ Call(w)
    /\ UNCHANGED <<rows, clock, time, client, rpc, view, made, deleted, unsaved, refused, missed>>

\* save() fails for another reason and rolls back: create_user says so, the others
\* answer as if it had not.
SaveFails(w) ==
    /\ rpc[w].op # "none"
    /\ LET u == IF rpc[w].op = "delete" THEN {rpc[w].user} ELSE {}
       IN  deleted' = deleted \cup u /\ unsaved' = unsaved \cup u
    /\ Closed(w)
    /\ UNCHANGED <<rows, clock, time, client, calls, made, refused, missed>>

\* Storages come and go, and their rows are updated, with the requests and the
\* statistics that ControlPlane describes.
StoragesChange ==
    /\ calls > 0 /\ calls' = calls - 1
    /\ \E u \in User :
          \/ u \notin storages /\ storages' = storages \cup {u} /\ Appears("storages", Named(u, walk.name), u)
          \/ u \in storages /\ storages' = storages \ {u} /\ Vanishes("storages", u)
          \/ u \in storages /\ Moves("storages", u) /\ UNCHANGED storages
    /\ UNCHANGED <<users, vms, clock, time, rpc, view, made, deleted, unsaved, refused, missed, session>>

-----------------------------------------------------------------------------
(* Requests of the API.                                                    *)

Asked == asked > 0 /\ asked' = asked - 1
Ask(t, q) == web[t].op = "none" /\ Asked /\ web' = [web EXCEPT ![t] = q]
Done(t) == web' = [web EXCEPT ![t] = NoRequest]

\* gen_token: without a lifetime a token has no end.  The library takes a token
\* until its last second is over.
GenToken(u, life, begun) == [user |-> u, exp |-> IF life = 0 THEN None ELSE clock + life, begun |-> begun]
Verified(tok) == tok.exp = None \/ tok.exp >= clock

\* A login has no request user: its target is the user it names.
LoadLogin(t, u) ==
    /\ Ask(t, [op |-> "login", user |-> u, target |-> u, active |-> users[u].active, begun |-> clock])
    /\ UNCHANGED <<rows, clock, time, server, tokens, walk, told>>

\* Rows of two_factors: the functions that make them take no self, so their
\* requests raise before anything is read.
TwoFactors == {}

\* check_user_status, and the second factor of the users that have one.
MayLogin(q) == q.active /\ (users[q.target].tf => q.target \in TwoFactors)

\* login with the right password.
Login(t) ==
    /\ web[t].op = "login"
    /\ tokens' = tokens \cup (IF MayLogin(web[t]) THEN {GenToken(web[t].target, LoginLife, web[t].begun)} ELSE {})
    /\ Done(t)
    /\ UNCHANGED <<rows, clock, time, server, asked, walk, told>>

Args_Refresh(op) == IF op \in {"users", "storages", "refresh"} THEN Name \cup {None} ELSE {None}
\* The user names a request may give: an argument that its endpoint does not know
\* is refused when the request is parsed.
Args(op) == IF op \in {"users", "storages"} THEN Name \cup {None} ELSE {None}

\* load_users: the target of a request.
Target(u, name) == IF \E v \in User : users[v].name = name THEN CHOOSE v \in User : users[v].name = name ELSE u

Authorised_Equal(tok, op, name) ==
    /\ Verified(tok) /\ name \in Args(op)
    /\ LET v == Target(tok.user, name) IN v = tok.user \/ Rank[users[tok.user].role] >= Rank[users[v].role]
\* The token is verified, the users are loaded and their roles compared.
Authorised(tok, op, name) ==
    /\ Verified(tok) /\ name \in Args(op)
    /\ LET v == Target(tok.user, name) IN v = tok.user \/ ~ AtMost(tok.user, v)

LoadRefresh(t, tok, name) ==
    /\ Authorised(tok, "refresh", name)
    /\ LET v == Target(tok.user, name)
       IN  Ask(t, [op |-> "refresh", user |-> tok.user, target |-> v, active |-> users[v].active, begun |-> clock])
    /\ UNCHANGED <<rows, clock, time, server, tokens, walk, told>>

\* check_user: the status of a user is looked at when he asks for himself.
CheckUser(q) == IF q.user = q.target THEN q.active ELSE ~ AtMost(q.user, q.target)

\* refresh_token: the tokens of the target.
Refresh(t) ==
    /\ web[t].op = "refresh"
    /\ IF CheckUser(web[t])
       THEN /\ tokens' = tokens \cup {GenToken(web[t].target, RefreshLife, web[t].begun)}
            /\ told' = {<<web[t].user, web[t].target, "tokens">>}
       ELSE UNCHANGED <<tokens, told>>
    /\ Done(t)
    /\ UNCHANGED <<rows, clock, time, server, asked, walk>>

\* sumup_resource: an administrator may ask for another user by his id, which
\* compares no roles.
Statistic(tok) ==
    /\ Authorised(tok, "statistic", None)
    /\ Asked
    /\ \E v \in {tok.user} \cup (IF IsAdmin(tok.user) THEN User ELSE {}) : told' = {<<tok.user, v, "counts">>}
    /\ UNCHANGED <<rows, clock, time, server, tokens, web, walk>>

\* The requests of two_factors raise, and logout does nothing: no token ends.
NoEffect(tok) ==
    /\ Authorised(tok, "logout", None) \/ Authorised(tok, "two_factor", None)
    /\ Asked
    /\ UNCHANGED <<rows, clock, time, server, tokens, web, walk, told>>

-----------------------------------------------------------------------------
(* Lists, page by page.                                                    *)

\* The conditions of list_users, sumup_resource_users and list_vms.
ListedUsers(name) == {v \in User : users[v].role = "USER" /\ Named(v, name)}
ListedStorages(name) == {v \in storages : Named(v, name)}
ListedVms(u) == {i \in DOMAIN vms : IsAdmin(u) \/ vms[i] = u}
Listed(what, u, name) ==
    CASE what = "users" -> ListedUsers(name)
      [] what = "storages" -> ListedStorages(name)
      [] what = "vms" -> ListedVms(u)

\* Query.paginate: limit and offset of a query without an order.
Items(table, page) ==
    LET from == (page - 1) * PageSize
    IN  SubSeq(table, from + 1, IF from + PageSize < Len(table) THEN from + PageSize ELSE Len(table))

HasNext_Whole(table, page) == page < Len(table) \div PageSize
\* Pagination.has_next, with the number of pages rounded up.
HasNext(table, page) == page < (Len(table) + PageSize - 1) \div PageSize

\* dump_raw_object: the next page of the list a client reads, or the first one.
\* Users and storages are listed for administrators.
ListPage(tok, what, name) ==
    /\ Authorised(tok, what, name)
    /\ what = "vms" \/ IsAdmin(tok.user)
    /\ walk.next # 0 /\ ~ walk.counts
    /\ walk.what = "none" \/ (walk.what = what /\ walk.by = tok.user /\ walk.name = name)
    /\ Asked
    /\ \E order \in IF walk.what = "none" THEN SetToSeqs(Listed(what, tok.user, name)) ELSE {walk.order} :
          LET items == Items(order, walk.next)
          IN  /\ walk' = [what |-> what, by |-> tok.user, name |-> name,
                          next |-> walk.next + 1, counts |-> TRUE,
                          order |-> order,
                          seen |-> walk.seen \o items,
                          had |-> IF walk.what = "none" THEN Range(order) ELSE walk.had,
                          left |-> walk.left, came |-> walk.came]
              /\ told' = IF what = "vms" THEN {<<tok.user, vms[i], "vms">> : i \in Range(items)}
                         ELSE IF name = None THEN {}
                         ELSE {<<tok.user, Target(tok.user, name), "list">>}
    /\ UNCHANGED <<rows, clock, time, server, tokens, web>>

\* The rows are counted by a statement of their own, which may see what was
\* committed since the page was read.
CountPage ==
    /\ walk.counts
    /\ walk' = IF HasNext(walk.order, walk.next - 1) THEN [walk EXCEPT !.counts = FALSE]
               ELSE [walk EXCEPT !.counts = FALSE, !.next = 0, !.order = <<>>]
    /\ UNCHANGED <<rows, clock, time, server, session>>

-----------------------------------------------------------------------------
Tick ==
    /\ time > 0
    /\ time' = time - 1
    /\ clock' = clock + 1
    /\ UNCHANGED <<rows, server, client>>

Servants(w) ==
    \/ \E p \in Profile : CreateUser(w, p)
    \/ \E n \in Name : DeleteUser(w, n)
    \/ \E m \in Miq : CreateVm(w, m)
    \/ DeleteVm(w) \/ InsertUser(w) \/ Deactivate(w) \/ InsertVm(w) \/ SaveFails(w)

Sessions(t) ==
    \/ \E u \in User : LoadLogin(t, u)
    \/ \E tok \in tokens, n \in Name \cup {None} : LoadRefresh(t, tok, n)
    \/ Login(t) \/ Refresh(t)

UserReads(tok) ==
    \/ Statistic(tok) \/ NoEffect(tok)
    \/ \E what \in {"users", "storages"}, n \in Name \cup {None} : ListPage(tok, what, n)

VmReads(tok) == ListPage(tok, "vms", None)

Next ==
    \/ \E w \in Worker : Servants(w)
    \/ \E t \in Thread : Sessions(t)
    \/ \E tok \in tokens : UserReads(tok) \/ VmReads(tok)
    \/ CountPage
    \/ StoragesChange
    \/ Tick

Spec == Init /\ [][Next]_vars

-----------------------------------------------------------------------------
(* Properties.                                                             *)

TypeOK ==
    /\ users \in Seq([name : Name, miq : Miq, role : DOMAIN Rank, tf : BOOLEAN, active : BOOLEAN,
                      gone : Nat \cup {None}])
    /\ vms \in Seq(User) /\ storages \subseteq User
    /\ clock \in Nat /\ time \in Nat
    /\ tokens \subseteq [user : User, exp : Nat \cup {None}, begun : 0 .. clock]
    /\ view \in [Worker -> 0 .. Len(users) \cup {None}]
    /\ calls \in Nat /\ asked \in Nat

\* What a servant answers is so: SUCCESS to create_user comes once per name, the
\* row is there and nobody else has its name, though the check reads what may be
\* long past and two workers may pass it together; SUCCESS to delete_user means
\* that the user is locked, but where the row could not be saved.
AnsweredIsDone ==
    /\ TypeOK
    /\ \A n \in Name : made[n] = Cardinality({u \in User : users[u].name = n}) /\ made[n] <= 1
    /\ \A u \in deleted \ unsaved : ~ users[u].active

\* A locked user gets no more tokens: each one he has was asked for before he was
\* locked.  Tokens end by their time only, and their holders prolong them with
\* refresh_token, so that this is what ends a session.
LockedOut ==
    \A tok \in tokens : users[tok.user].gone # None => tok.begun <= users[tok.user].gone

\* A call that does not find a user who is there comes after a call that was
\* refused on the same worker: the transaction such a call leaves open is the only
\* one in which a servant reads what is past.
MissesFollowRefusals == [][\A w \in missed' \ missed : w \in refused]_vars

\* A client that follows next_page to the end has every row that was there at the
\* start, and none twice, as far as the rows stay where they are: each one that goes
\* or moves while he reads costs him one row at most, himself or the one that slips
\* to a page he has read, and each one that comes or moves shows him one row again
\* at most, however many pages there are and whatever is counted between them.
PagesAreWhole ==
    walk.next = 0 =>
        /\ Cardinality(walk.had \ Range(walk.seen)) <= walk.left
        /\ Len(walk.seen) <= Cardinality(Range(walk.seen)) + walk.came

\* An answer about somebody else goes to administrators; where the other one is
\* given by name, and for tokens, to those of a higher role only.
OthersNeedRank ==
    \A a \in told : a[1] # a[2] =>
        /\ IsAdmin(a[1])
        /\ a[3] \in {"tokens", "list"} => ~ AtMost(a[1], a[2])

=============================================================================
