------------------------------ MODULE RoleApi ------------------------------
(***************************************************************************)
(* The role API: HTTP and gRPC requests pass the body cap, service-key     *)
(* authentication and binding, run a role use case against the writer or   *)
(* the reader of the database, and are answered through the error tables   *)
(* of their transport.  The listing of users is the same code as the       *)
(* listing of roles.                                                       *)
(***************************************************************************)
EXTENDS Integers, Sequences, FiniteSets

CONSTANTS
  Ops,           \* one member per request; also the id of the role it creates
  Seeds,         \* ids of the roles that exist at the start
  Junk,          \* a path parameter that is no UUID
  Names,         \* role names HTTP binding accepts
  Empty, Long,   \* the empty name; one of more than 100 characters
  Times,         \* values of created_at
  Calls,         \* the requests clients may send
  InitialRoles,  \* possible contents of the table at the start
  Configs,       \* authentication: "off", "unconfigured" or "on"
  Topologies,    \* whether the reader may be, or may not be, a replica
  MaxInt,        \* the largest int: what Offset wraps around at
  MaxWire,       \* the largest page or limit of an RPC, an int32
  Faults         \* subset of {"db", "ambiguous", "panic"}

RoleIds == Ops \cup Seeds
AnyName == Names \cup {Empty, Long}

ASSUME RoleApiAssumption ==
  /\ Ops \cap Seeds = {} /\ Junk \notin RoleIds
  /\ Times \subseteq Int
  /\ Empty \notin Names /\ Long \notin Names /\ Empty # Long
  /\ Topologies \subseteq BOOLEAN /\ Configs \subseteq {"off", "unconfigured", "on"}
  /\ MaxInt \in Nat /\ MaxWire \in Nat /\ MaxWire * 100 <= MaxInt

Row == [id : RoleIds, name : AnyName \ {Long}, at : Times]
Call == [op : {"create", "delete", "list"}, via : {"http", "grpc"},
         creds : {"good", "bad"}, body : {"small", "declaredBig", "hiddenBig"},
         name : AnyName, target : RoleIds \cup {Junk}, page : Int, limit : Int]

ASSUME CallsAssumption ==
  /\ \A c \in Calls : c \in Call /\ (c.via = "grpc" => c.page <= MaxWire /\ c.limit <= MaxWire)
  /\ \A table \in InitialRoles : table \subseteq Row /\ IsFiniteSet(table) /\ \A r, s \in table :
       r.id \in Seeds /\ (r.name = s.name => r = s) /\ (r.id = s.id => r = s)

VARIABLES
  config,        \* how authentication is configured
  replicated,    \* whether the reader is a replica of the writer
  call,          \* call[o]: what request o asks
  pc,            \* pc[o]: the next step of request o
  outcome,       \* outcome[o]: how its use case ended
  roles,         \* rows of the writer
  reader,        \* rows a read sees
  counted,       \* counted[o]: the rows that the COUNT of a listing saw
  paged,         \* paged[o]: the rows that its SELECT saw
  rows,          \* rows[o]: the page it returned
  stored,        \* history: the ids that were ever inserted
  gone,          \* history: the ids that were deleted
  old,           \* old[o]: history: what was deleted when o was admitted
  met            \* met[o]: history: the role whose name a create collided with

listing == <<counted, paged, rows>>
history == <<stored, gone, old, met>>
vars == <<config, replicated, call, pc, outcome, roles, reader, counted, paged, rows, stored, gone,
          old, met>>

Failures == {"conflict", "notFound", "invalid", "internal", "panic"}
Refusals == {"tooLarge", "unauthorized", "unavailable", "badRequest"}
Outcomes == {"none", "created", "deleted", "listed"} \cup Failures \cup Refusals

TypeOK ==
  /\ config \in Configs /\ replicated \in Topologies
  /\ call \in [Ops -> Calls]
  /\ pc \in [Ops -> {"received", "lookup", "insert", "remove", "count", "fetch", "done"}]
  /\ outcome \in [Ops -> Outcomes]
  /\ roles \in SUBSET Row /\ reader \in SUBSET Row
  /\ counted \in [Ops -> SUBSET Row] /\ paged \in [Ops -> SUBSET Row]
  /\ stored \in SUBSET Ops /\ gone \in SUBSET RoleIds
  /\ old \in [Ops -> SUBSET RoleIds] /\ met \in [Ops -> RoleIds]

Init ==
  /\ config \in Configs /\ replicated \in Topologies
  /\ call \in [Ops -> Calls]
  /\ pc = [o \in Ops |-> "received"]
  /\ outcome = [o \in Ops |-> "none"]
  /\ roles \in InitialRoles
  /\ reader = roles
  /\ counted = [o \in Ops |-> {}] /\ paged = [o \in Ops |-> {}]
  /\ rows = [o \in Ops |-> <<>>]
  /\ stored = {} /\ gone = {}
  /\ old = [o \in Ops |-> {}] /\ met = [o \in Ops |-> o]

-----------------------------------------------------------------------------
(***************************************************************************)
(* Answers                                                                 *)
(***************************************************************************)
\* Which apperror code a use case wraps its error in.
roleToAppError(e) ==
  CASE e = "invalid"  -> "INVALID_REQUEST"
    [] e = "notFound" -> "NOT_FOUND"
    [] e = "conflict" -> "CONFLICT"
    [] OTHER          -> "INTERNAL_ERROR"

codeToStatus ==
  [INVALID_REQUEST |-> 400, NOT_FOUND |-> 404, CONFLICT |-> 409, INTERNAL_ERROR |-> 500]

codeToGRPCStatus ==
  [INVALID_REQUEST |-> "InvalidArgument", NOT_FOUND |-> "NotFound",
   CONFLICT |-> "AlreadyExists", INTERNAL_ERROR |-> "Internal"]

-----------------------------------------------------------------------------
(***************************************************************************)
(* Listing: the filter, the page and the count                             *)
(***************************************************************************)
Normalize(c) ==
  [page  |-> IF c.page < 1 THEN 1 ELSE c.page,
   limit |-> IF c.limit \in 1..100 THEN c.limit ELSE 20]

\* Integer overflow in Go.
Wrap(n) ==
  IF n <= MaxInt THEN n ELSE ((n + MaxInt + 1) % (2 * (MaxInt + 1))) - (MaxInt + 1)

\* Mutant: pages counted from 0.
OffsetFromZero(c) == LET f == Normalize(c) IN Wrap(f.page * f.limit)

Offset(c) == LET f == Normalize(c) IN Wrap((f.page - 1) * f.limit)

\* ILIKE is abstracted to equality; ListRoles of gRPC passes no name on.
Matching(c, table) ==
  {r \in table : c.via = "grpc" \/ c.name = Empty \/ r.name = c.name}

\* ORDER BY created_at DESC leaves the order of equal times to the database.
Orders(table) ==
  {s \in [1..Cardinality(table) -> table] :
     /\ \A i, j \in DOMAIN s : i # j => s[i] # s[j]
     /\ \A i, j \in DOMAIN s : i < j => s[i].at >= s[j].at}

LimitOffset(s, c) == SubSeq(s, Offset(c) + 1,
  IF Offset(c) + Normalize(c).limit < Len(s) THEN Offset(c) + Normalize(c).limit ELSE Len(s))

totalPages(c, total) ==
  IF total = 0 THEN 1 ELSE (total + Normalize(c).limit - 1) \div Normalize(c).limit

-----------------------------------------------------------------------------
(***************************************************************************)
(* Before the use case                                                     *)
(***************************************************************************)
TooLarge(c) == c.via = "http" /\ c.body = "declaredBig"

\* Mutant: fail open while no keys are configured.
FailsOpen(c) ==
  IF config = "on" /\ c.creds = "bad" THEN "unauthorized" ELSE "ok"

ServiceKeyAuth(c) ==
  CASE config = "unconfigured"              -> "unavailable"
    [] config = "on" /\ c.creds = "bad"     -> "unauthorized"
    [] OTHER                                -> "ok"

\* Health RPCs, which need no key, are not among the calls.
validateAuth(c) ==
  CASE config = "unconfigured"              -> "unavailable"
    [] config = "on" /\ c.creds = "bad"     -> "unauthorized"
    [] OTHER                                -> "ok"

\* ShouldBindJSON on a POST, ShouldBindQuery on a GET; a body longer than its
\* Content-Length admits fails to bind.
Bindable(c) ==
  /\ c.op = "create" => c.name # Empty /\ c.body # "hiddenBig"
  /\ c.op \in {"create", "list"} => c.name # Long

\* The order of the middleware chain; an RPC meets the interceptor only.
Admission(o) ==
  LET c == call[o] IN
  IF TooLarge(c) THEN "tooLarge"
  ELSE IF c.via = "http" /\ ServiceKeyAuth(c) # "ok" THEN ServiceKeyAuth(c)
  ELSE IF c.via = "grpc" /\ validateAuth(c) # "ok" THEN validateAuth(c)
  ELSE IF c.via = "http" /\ ~Bindable(c) THEN "badRequest"
  ELSE "ok"

End(o, how) ==
  /\ pc' = [pc EXCEPT ![o] = "done"]
  /\ outcome' = [outcome EXCEPT ![o] = how]

Goto(o, place) == pc' = [pc EXCEPT ![o] = place] /\ UNCHANGED outcome

Refuse(o) ==
  /\ pc[o] = "received"
  /\ Admission(o) # "ok"
  /\ End(o, Admission(o))
  /\ UNCHANGED <<config, replicated, call, roles, reader, listing, history>>

Admit(o) ==
  /\ pc[o] = "received"
  /\ Admission(o) = "ok"
  /\ Goto(o, [create |-> "lookup", delete |-> "remove", list |-> "count"][call[o].op])
  /\ old' = [old EXCEPT ![o] = gone]
  /\ UNCHANGED <<config, replicated, call, roles, reader, listing, stored, gone, met>>

-----------------------------------------------------------------------------
(***************************************************************************)
(* Create and delete                                                       *)
(***************************************************************************)
NameTaken(table, name) == \E r \in table : r.name = name

CollidesIn(table, o) == \E r \in table :
  r.name = call[o].name /\ met' = [met EXCEPT ![o] = r.id]

FindsDuplicate(o) ==
  /\ pc[o] = "lookup"
  /\ CollidesIn(reader, o)
  /\ End(o, "conflict")
  /\ UNCHANGED <<config, replicated, call, roles, reader, listing, stored, gone, old>>

FindsNone(o) ==
  /\ pc[o] = "lookup"
  /\ ~NameTaken(reader, call[o].name)
  /\ Goto(o, "insert")
  /\ UNCHANGED <<config, replicated, call, roles, reader, listing, history>>

\* Mutant: lookups are answered from a copy that no write brings up to date.
CommitsBehind(table) == roles' = table /\ reader' = reader

\* A commit on the writer, which the reader shows at once unless it lags.
Commit(table) == roles' = table /\ reader' = IF replicated THEN reader ELSE table

InsertRow(o) == \E t \in Times :
  /\ Commit(roles \cup {[id |-> o, name |-> call[o].name, at |-> t]})
  /\ stored' = stored \cup {o}

\* Mutants: the lookup alone keeps names unique; no VARCHAR(100).
InsertsBlindly(o) ==
  /\ pc[o] = "insert"
  /\ call[o].name # Long
  /\ InsertRow(o)
  /\ End(o, "created")
  /\ UNCHANGED <<config, replicated, call, listing, gone, old, met>>
InsertsAnyLength(o) ==
  /\ pc[o] = "insert"
  /\ ~NameTaken(roles, call[o].name)
  /\ InsertRow(o)
  /\ End(o, "created")
  /\ UNCHANGED <<config, replicated, call, listing, gone, old, met>>
Inserts(o) ==
  /\ pc[o] = "insert"
  /\ call[o].name # Long
  /\ ~NameTaken(roles, call[o].name)
  /\ InsertRow(o)
  /\ \/ End(o, "created")
     \/ "ambiguous" \in Faults /\ End(o, "internal")
  /\ UNCHANGED <<config, replicated, call, listing, gone, old, met>>

\* The UNIQUE constraint: SQLSTATE 23505.
InsertRefused(o) ==
  /\ pc[o] = "insert"
  /\ CollidesIn(roles, o)
  /\ End(o, "conflict")
  /\ UNCHANGED <<config, replicated, call, roles, reader, listing, stored, gone, old>>

\* VARCHAR(100) refuses what only an RPC can carry here.
InsertTooLong(o) ==
  /\ pc[o] = "insert"
  /\ call[o].name = Long
  /\ End(o, "internal")
  /\ UNCHANGED <<config, replicated, call, roles, reader, listing, history>>

Removes(o) ==
  /\ pc[o] = "remove"
  /\ \E r \in roles : r.id = call[o].target
  /\ Commit({r \in roles : r.id # call[o].target})
  /\ gone' = gone \cup {call[o].target}
  /\ \/ End(o, "deleted")
     \/ "ambiguous" \in Faults /\ End(o, "internal")
  /\ UNCHANGED <<config, replicated, call, listing, stored, old, met>>

RemovesNothing(o) ==
  /\ pc[o] = "remove"
  /\ \A r \in roles : r.id # call[o].target
  /\ End(o, IF call[o].target = Junk THEN "invalid" ELSE "notFound")
  /\ UNCHANGED <<config, replicated, call, roles, reader, listing, history>>

-----------------------------------------------------------------------------
(***************************************************************************)
(* List: two statements of one READ COMMITTED transaction on the reader    *)
(***************************************************************************)
Counts(o) ==
  /\ pc[o] = "count"
  /\ counted' = [counted EXCEPT ![o] = Matching(call[o], reader)]
  /\ Goto(o, "fetch")
  /\ UNCHANGED <<config, replicated, call, roles, reader, paged, rows, history>>

\* PostgreSQL refuses a negative OFFSET.
Fetches(o) ==
  /\ pc[o] = "fetch"
  /\ Offset(call[o]) >= 0
  /\ paged' = [paged EXCEPT ![o] = Matching(call[o], reader)]
  /\ \E s \in Orders(Matching(call[o], reader)) :
       rows' = [rows EXCEPT ![o] = LimitOffset(s, call[o])]
  /\ End(o, "listed")
  /\ UNCHANGED <<config, replicated, call, roles, reader, counted, history>>

NegativeOffset(o) ==
  /\ pc[o] = "fetch"
  /\ Offset(call[o]) < 0
  /\ End(o, "internal")
  /\ UNCHANGED <<config, replicated, call, roles, reader, listing, history>>

-----------------------------------------------------------------------------
(***************************************************************************)
(* Failures and replication                                                *)
(***************************************************************************)
DatabaseFails(o) ==
  /\ "db" \in Faults
  /\ pc[o] \notin {"received", "done"}
  /\ ~(pc[o] = "remove" /\ call[o].target = Junk)
  /\ End(o, "internal")
  /\ UNCHANGED <<config, replicated, call, roles, reader, listing, history>>

\* CustomRecovery and RecoveryUnary answer for a handler that panics.
Panics(o) ==
  /\ "panic" \in Faults
  /\ pc[o] \notin {"received", "done"}
  /\ End(o, "panic")
  /\ UNCHANGED <<config, replicated, call, roles, reader, listing, history>>

Replicate ==
  /\ replicated
  /\ reader # roles
  /\ reader' = roles
  /\ UNCHANGED <<config, replicated, call, pc, outcome, roles, listing, history>>

Step(o) ==
  \/ Refuse(o) \/ Admit(o)
  \/ FindsDuplicate(o) \/ FindsNone(o)
  \/ Inserts(o) \/ InsertRefused(o) \/ InsertTooLong(o)
  \/ Removes(o) \/ RemovesNothing(o)
  \/ Counts(o) \/ Fetches(o) \/ NegativeOffset(o)
  \/ DatabaseFails(o) \/ Panics(o)

Next == (\E o \in Ops : Step(o)) \/ Replicate

Spec == Init /\ [][Next]_vars

-----------------------------------------------------------------------------
(***************************************************************************)
(* Properties                                                              *)
(***************************************************************************)
\* The answer to a write tells what became of the table, however the lookups,
\* inserts and deletes of several requests interleave: only what was answered
\* as created was inserted, unless the answer of a commit got lost; a role is
\* deleted once; no two roles share a name although lookup and INSERT are two
\* steps (create.go:36-57, repository/role.go:74-81, 216-223).
AnswersTellTheTruth ==
  /\ \A o \in Ops : outcome[o] = "created" => o \in stored
  /\ \A o \in stored :
       outcome[o] = "created" \/ ("ambiguous" \in Faults /\ outcome[o] = "internal")
  /\ \A o, p \in Ops :
       outcome[o] = "deleted" /\ outcome[p] = "deleted" /\ call[o].target = call[p].target
       => o = p /\ call[o].target \in gone
  /\ \A r, s \in roles : r.name = s.name => r = s

\* A name is refused only for a role that really was inserted, and that was not
\* yet deleted when the request was admitted, unless the lookup read a replica
\* (create.go:36-47).
ConflictsAreReal == \A o \in Ops :
  call[o].op = "create" /\ outcome[o] = "conflict" =>
    /\ met[o] \in stored \cup Seeds
    /\ met[o] # o
    /\ ~replicated => met[o] \notin old[o]

\* Neither transport lets a request without valid credentials, or any request
\* while no keys are configured, change the table (service_key.go:77-131,
\* interceptor/auth.go:42-84).
OnlyAuthenticatedWrites == \A o \in Ops :
  o \in stored \/ outcome[o] \in {"deleted", "listed"} =>
    config = "off" \/ (config = "on" /\ call[o].creds = "good")

InRange(c) == (Normalize(c).page - 1) * Normalize(c).limit <= MaxInt

SameList(o, p) ==
  /\ outcome[o] = "listed" /\ outcome[p] = "listed"
  /\ paged[o] = paged[p]
  /\ Normalize(call[o]).limit = Normalize(call[p]).limit
  /\ InRange(call[o]) /\ InRange(call[p])

Shown(o) == {rows[o][i] : i \in DOMAIN rows[o]}
PageOf(o) == Normalize(call[o]).page

\* The pages of a table that does not change partition it, so that a client
\* that walks them up to the answered number of pages sees every role once,
\* provided no two were created at one time (role.go:130-188, list.go:33-71).
PagesPartitionTheTable == \A o \in Ops :
  outcome[o] = "listed" /\ InRange(call[o])
  /\ (\A r, s \in paged[o] : r.at = s.at => r = s) =>
    /\ \A p \in Ops : SameList(o, p) /\ PageOf(o) # PageOf(p) => Shown(o) \cap Shown(p) = {}
    /\ counted[o] = paged[o]
       /\ (\A n \in 1..totalPages(call[o], Cardinality(counted[o])) :
             \E p \in Ops : SameList(o, p) /\ PageOf(p) = n)
       => paged[o] = UNION {Shown(p) : p \in {q \in Ops : SameList(o, q)}}
=============================================================================
