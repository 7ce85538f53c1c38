---------------------------- MODULE UserUseCases ----------------------------
(***************************************************************************)
(* The user use cases of internal/usecases/user (create, get, update,      *)
(* delete) with their optional collaborators: the Redis cache (WithCache)  *)
(* and the singleflight group (WithFlight).  The service itself builds     *)
(* them without (internal/bootstrap/container.go:83-100); the wiring that  *)
(* cmd/cli generates turns both on (cmd/cli/scaffold/wiring.go:389-392).   *)
(*                                                                         *)
(* A call is one Execute; any number run at once, on instances that share  *)
(* the database and the cache but not the flight group.  Steps are cut at  *)
(* the calls to cache, database and flight group.                          *)
(***************************************************************************)
EXTENDS UserRepository

CONSTANTS
  Ops,           \* one member per Execute
  Instances,     \* processes of the service
  InstanceOf,    \* InstanceOf[o]: the instance that runs o
  Ids,           \* the id strings clients send
  UserOf,        \* UserOf[id]: the key uuid.Parse reads in id, or NoUser
  NoUser,        \* id is not a UUID
  Calls,         \* the calls a client may make
  Absent,        \* a field the update request leaves out (nil)
  BadEmail,      \* a string net/mail does not parse
  Miss,          \* what the cache returns for a key it does not hold
  Failed,        \* FindByID returned an error other than ErrUserNotFound
  NoOp,          \* no flight for this key
  WithCache, WithFlight,
  Faults         \* which of {"cache", "db"} may fail

Kinds == {"create", "get", "update", "delete"}
Call == [kind : Kinds, id : Ids, name : Names \cup {Absent},
         email : Emails \cup {Absent, BadEmail}]

ASSUME UseCaseAssumption ==
  /\ InstanceOf \in [Ops -> Instances]
  /\ UserOf \in [Ids -> Users \cup {NoUser}]
  /\ Calls \subseteq Call
  /\ \A c \in Calls : c.kind = "create" =>
       UserOf[c.id] # NoUser /\ c.name # Absent /\ c.email # Absent
  /\ NoUser \notin Users
  /\ Absent \notin Names \cup Emails
  /\ BadEmail \notin Emails \cup {Absent}
  /\ Miss \notin Row
  /\ Failed \notin Row \cup {NoRow}
  /\ NoOp \notin Ops
  /\ WithCache \in BOOLEAN /\ WithFlight \in BOOLEAN
  /\ Faults \subseteq {"cache", "db"}

VARIABLES
  cache,         \* cache[id]: the row cached under "user:" + id, or Miss
  flight,        \* flight[i][id]: the call whose fetch the group of i runs
  pc,            \* pc[o]: where o stands
  call,          \* call[o]: what o was asked to do
  row,           \* row[o]: the entity o holds
  reply,         \* reply[o]: what Execute returned, as an error code or "ok"
  raced          \* history: ids whose cached row a write may have overtaken

vars == <<log, applied, cache, flight, pc, call, row, reply, raced>>

Places == {"begun", "missed", "reading", "landing", "joined",
           "fetched", "found", "invalidate", "done"}
Answers == {"none", "ok", "invalid", "notFound", "conflict", "internal"}

TypeOK ==
  /\ log \in Seq(Table) /\ Len(log) > 0
  /\ applied \in 1..Len(log)
  /\ cache \in [Ids -> Row \cup {Miss}]
  /\ flight \in [Instances -> [Ids -> Ops \cup {NoOp}]]
  /\ pc \in [Ops -> Places]
  /\ call \in [Ops -> Calls]
  /\ row \in [Ops -> Row \cup {NoRow, Failed}]
  /\ reply \in [Ops -> Answers]
  /\ raced \subseteq Ids

\* vo.NewID: the key of a created user is a UUIDv7 nobody has seen.
GeneratesNewKey(o, t) == call[o].kind = "create" =>
  /\ t[UserOf[call[o].id]] = NoRow
  /\ \A p \in Ops \ {o} :
       call[p].kind = "create" => UserOf[call[p].id] # UserOf[call[o].id]

Init ==
  /\ call \in [Ops -> Calls]
  /\ \E t \in InitialTables : log = <<t>> /\ \A o \in Ops : GeneratesNewKey(o, t)
  /\ applied = 1
  /\ cache = [id \in Ids |-> Miss]
  /\ flight = [i \in Instances |-> [id \in Ids |-> NoOp]]
  /\ pc = [o \in Ops |-> "begun"]
  /\ row = [o \in Ops |-> NoRow]
  /\ reply = [o \in Ops |-> "none"]
  /\ raced = {}

-----------------------------------------------------------------------------
(***************************************************************************)
(* Helpers                                                                 *)
(***************************************************************************)
Kind(o) == call[o].kind
Id(o) == call[o].id
User(o) == UserOf[Id(o)]
Valid(o) == User(o) # NoUser

At(o, place) == pc[o] = place
Asked(o, kind) == At(o, "begun") /\ Kind(o) = kind /\ Valid(o)
Goto(o, place) == pc' = [pc EXCEPT ![o] = place]

Answer(o, what) ==
  /\ Goto(o, "done")
  /\ reply' = [reply EXCEPT ![o] = what]

Spellings(u) == {id \in Ids : UserOf[id] = u}

\* What the update request makes of the entity that was read.
Changed(c, r) ==
  [r EXCEPT !.name = IF c.name = Absent THEN @ ELSE c.name,
            !.email = IF c.email = Absent THEN @ ELSE c.email]

-----------------------------------------------------------------------------
(***************************************************************************)
(* Mutants: plausible bugs, each a changed form of a definition below.     *)
(***************************************************************************)
NeverInFlight(o) == FALSE
Alone(o) == {o}
FlightPerProcess(o) == {o} \cup
  {p \in Ops : WithFlight /\ At(p, "joined") /\ InstanceOf[p] = InstanceOf[o]}
ForgetsToInvalidate(o) == Answer(o, "ok")
VerdictIgnored(r) == TRUE

-----------------------------------------------------------------------------
(***************************************************************************)
(* Every use case starts with vo.ParseID (create has no id to parse).      *)
(***************************************************************************)
RejectId(o) ==
  /\ At(o, "begun")
  /\ ~Valid(o)
  /\ Answer(o, "invalid")
  /\ UNCHANGED <<log, applied, cache, flight, call, row, raced>>

(***************************************************************************)
(* Create                                                                  *)
(***************************************************************************)
RejectEmail(o) ==
  /\ Asked(o, "create")
  /\ call[o].email = BadEmail
  /\ Answer(o, "invalid")
  /\ UNCHANGED <<log, applied, cache, flight, call, row, raced>>

Create(o) ==
  /\ Asked(o, "create")
  /\ call[o].email # BadEmail
  /\ \/ /\ InsertRow(User(o), call[o].name, call[o].email)
        /\ Answer(o, "ok")
     \/ /\ Taken(User(o), call[o].email)
        /\ Answer(o, "conflict")
        /\ UNCHANGED <<log, applied>>
  /\ UNCHANGED <<cache, flight, call, row, raced>>

(***************************************************************************)
(* Get                                                                     *)
(***************************************************************************)
CacheHit(o) ==
  /\ Asked(o, "get")
  /\ WithCache
  /\ cache[Id(o)] # Miss
  /\ row' = [row EXCEPT ![o] = cache[Id(o)]]
  /\ Answer(o, "ok")
  /\ UNCHANGED <<log, applied, cache, flight, call, raced>>

\* No cache, no entry, or an error from the cache, which counts as a miss.
CacheMiss(o) ==
  /\ Asked(o, "get")
  /\ ~WithCache \/ cache[Id(o)] = Miss \/ "cache" \in Faults
  /\ Goto(o, IF WithFlight THEN "missed" ELSE "reading")
  /\ UNCHANGED <<log, applied, cache, flight, call, row, reply, raced>>

InFlight(o) == flight[InstanceOf[o]][Id(o)] # NoOp

TakeOff(o) ==
  /\ At(o, "missed")
  /\ ~InFlight(o)
  /\ flight' = [flight EXCEPT ![InstanceOf[o]][Id(o)] = o]
  /\ Goto(o, "reading")
  /\ UNCHANGED <<log, applied, cache, call, row, reply, raced>>

Join(o) ==
  /\ At(o, "missed")
  /\ InFlight(o)
  /\ Goto(o, "joined")
  /\ UNCHANGED <<log, applied, cache, flight, call, row, reply, raced>>

\* Repo.FindByID, answered by the reader pool.
FindByID(o) ==
  /\ At(o, "reading")
  /\ \/ row' = [row EXCEPT ![o] = Reader[User(o)]]
     \/ "db" \in Faults /\ row' = [row EXCEPT ![o] = Failed]
  /\ Goto(o, "landing")
  /\ UNCHANGED <<log, applied, cache, flight, call, reply, raced>>

\* The fetch returns.  With a flight group, to every call that joined it; the
\* key is free again.
Aboard(o) == {o} \cup
  {p \in Ops : /\ WithFlight
               /\ At(p, "joined")
               /\ InstanceOf[p] = InstanceOf[o]
               /\ Id(p) = Id(o)}

Found(r) == r \in Row
Verdict(r) == CASE r = NoRow -> "notFound" [] r = Failed -> "internal"
                [] OTHER -> "none"

Land(o) ==
  /\ At(o, "landing")
  /\ pc' = [p \in Ops |-> IF p \notin Aboard(o) THEN pc[p]
                          ELSE IF Found(row[o]) THEN "fetched" ELSE "done"]
  /\ row' = [p \in Ops |-> IF p \in Aboard(o) THEN row[o] ELSE row[p]]
  /\ reply' = [p \in Ops |-> IF p \in Aboard(o) THEN Verdict(row[o]) ELSE reply[p]]
  /\ flight' = IF WithFlight
               THEN [flight EXCEPT ![InstanceOf[o]][Id(o)] = NoOp] ELSE flight
  /\ UNCHANGED <<log, applied, cache, call, raced>>

Fill(o) ==
  /\ At(o, "fetched")
  /\ WithCache
  /\ cache' = [cache EXCEPT ![Id(o)] = row[o]]
  /\ raced' = IF row[o] = Writer[User(o)] THEN raced \ {Id(o)}
              ELSE raced \cup {Id(o)}
  /\ Answer(o, "ok")
  /\ UNCHANGED <<log, applied, flight, call, row>>

\* No cache, or Set failed, which is not an error.
SkipFill(o) ==
  /\ At(o, "fetched")
  /\ ~WithCache \/ "cache" \in Faults
  /\ Answer(o, "ok")
  /\ UNCHANGED <<log, applied, cache, flight, call, row, raced>>

(***************************************************************************)
(* Update: read with the reader, change, write every column with the       *)
(* writer, drop the cached row.                                            *)
(***************************************************************************)
FindForUpdate(o) ==
  /\ Asked(o, "update")
  /\ LET r == Reader[User(o)] IN
       \/ r = NoRow /\ Answer(o, "notFound") /\ UNCHANGED row
       \/ r # NoRow /\ call[o].email = BadEmail /\ Answer(o, "invalid") /\ UNCHANGED row
       \/ /\ r # NoRow
          /\ call[o].email # BadEmail
          /\ row' = [row EXCEPT ![o] = Changed(call[o], r)]
          /\ Goto(o, "found")
          /\ UNCHANGED reply
  /\ UNCHANGED <<log, applied, cache, flight, call, raced>>

\* A committed write leaves the entries under other spellings of the id alone.
Overtake(o) == raced' = raced \cup (Spellings(User(o)) \ {Id(o)})

AfterWrite(o) ==
  IF WithCache THEN Goto(o, "invalidate") /\ UNCHANGED reply ELSE Answer(o, "ok")

Save(o) ==
  /\ At(o, "found")
  /\ UpdateRow(User(o), row[o])
  /\ Overtake(o)
  /\ AfterWrite(o)
  /\ UNCHANGED <<cache, flight, call, row>>

\* The update path has no case for SQLSTATE 23505.
SaveRefused(o) ==
  /\ At(o, "found")
  /\ Taken(User(o), row[o].email)
  /\ Answer(o, "internal")
  /\ UNCHANGED <<log, applied, cache, flight, call, row, raced>>

(***************************************************************************)
(* Delete                                                                  *)
(***************************************************************************)
Deactivate(o) ==
  /\ Asked(o, "delete")
  /\ SoftDelete(User(o))
  /\ Overtake(o)
  /\ AfterWrite(o)
  /\ UNCHANGED <<cache, flight, call, row>>

NothingToDelete(o) ==
  /\ Asked(o, "delete")
  /\ ~Deletable(User(o))
  /\ Answer(o, "notFound")
  /\ UNCHANGED <<log, applied, cache, flight, call, row, raced>>

(***************************************************************************)
(* After the write                                                         *)
(***************************************************************************)
Invalidate(o) ==
  /\ At(o, "invalidate")
  /\ cache' = [cache EXCEPT ![Id(o)] = Miss]
  /\ raced' = raced \ {Id(o)}
  /\ Answer(o, "ok")
  /\ UNCHANGED <<log, applied, flight, call, row>>

\* Recorded as a span event; the call still succeeds.
InvalidateFails(o) ==
  /\ "cache" \in Faults
  /\ At(o, "invalidate")
  /\ raced' = raced \cup {Id(o)}
  /\ Answer(o, "ok")
  /\ UNCHANGED <<log, applied, cache, flight, call, row>>

\* A statement fails, or is applied and its answer lost: Execute returns before
\* it reaches the cache.
ReadErrs(o) ==
  /\ "db" \in Faults
  /\ Asked(o, "update")
  /\ Answer(o, "internal")
  /\ UNCHANGED <<log, applied, cache, flight, call, row, raced>>

WriteApplied(o) ==
  \/ /\ Asked(o, "create")
     /\ call[o].email # BadEmail
     /\ InsertRow(User(o), call[o].name, call[o].email)
  \/ At(o, "found") /\ UpdateRow(User(o), row[o])
  \/ Asked(o, "delete") /\ SoftDelete(User(o))

WriteErrs(o) ==
  /\ "db" \in Faults
  /\ \/ /\ At(o, "found") \/ Asked(o, "delete")
           \/ (Asked(o, "create") /\ call[o].email # BadEmail)
        /\ UNCHANGED <<log, applied, raced>>
     \/ WriteApplied(o) /\ raced' = raced \cup Spellings(User(o))
  /\ Answer(o, "internal")
  /\ UNCHANGED <<cache, flight, call, row>>

-----------------------------------------------------------------------------
\* Redis drops an entry whose TTL ran out.
Expire(id) ==
  /\ cache[id] # Miss
  /\ cache' = [cache EXCEPT ![id] = Miss]
  /\ raced' = raced \ {id}
  /\ UNCHANGED <<log, applied, flight, pc, call, row, reply>>

CatchUp ==
  /\ Replicate
  /\ UNCHANGED <<cache, flight, pc, call, row, reply, raced>>

-----------------------------------------------------------------------------
Execute(o) ==
  \/ RejectId(o)
  \/ RejectEmail(o) \/ Create(o)
  \/ CacheHit(o) \/ CacheMiss(o) \/ TakeOff(o) \/ Join(o) \/ FindByID(o)
  \/ Land(o) \/ Fill(o) \/ SkipFill(o)
  \/ FindForUpdate(o) \/ Save(o) \/ SaveRefused(o)
  \/ Deactivate(o) \/ NothingToDelete(o)
  \/ Invalidate(o) \/ InvalidateFails(o) \/ ReadErrs(o) \/ WriteErrs(o)

Next ==
  \/ \E o \in Ops : Execute(o)
  \/ \E id \in Ids : Expire(id)
  \/ CatchUp

\* A call runs in a goroutine of its own. Nothing else is fair: the replica may
\* stop, and an entry may stay in the cache for as long as one looks.
Fairness == \A o \in Ops : WF_vars(Execute(o))

Spec == Init /\ [][Next]_vars
FairSpec == Spec /\ Fairness

-----------------------------------------------------------------------------
(***************************************************************************)
(* Properties                                                              *)
(***************************************************************************)
\* Whatever the cache holds, and whatever a Get answers with, is a row that was
\* committed for that very user: no half-changed entity of an update in
\* progress, no row another call shared under the wrong id (get.go:60-127).
NoPhantomRows ==
  /\ \A id \in Ids : cache[id] # Miss => Committed(UserOf[id], cache[id])
  /\ \A o \in Ops : Kind(o) = "get" /\ reply[o] = "ok" => Committed(User(o), row[o])

\* A cached row that is not the writer's row is about to be dropped by the call
\* that wrote, or was overtaken in one of the ways the code does not defend
\* against: a fill that read before the write or from a trailing replica, an
\* entry under another spelling of the id, a cache or database error
\* (update.go:74-91, delete.go:52-68).
StaleOnlyByRace == \A id \in Ids :
  cache[id] # Miss /\ cache[id] # Writer[UserOf[id]] =>
    id \in raced \/ \E o \in Ops : At(o, "invalidate") /\ Id(o) = id

\* In one process at most one database fetch per id is under way, and a call
\* that joined waits for a fetch that is (pkg/cache/singleflight.go,
\* docs/capabilities/caching.md CACHE-REQ-4).
Fetching(o) == At(o, "reading") \/ At(o, "landing")

OneFetchPerId == WithFlight =>
  /\ \A o, p \in Ops : Fetching(o) /\ Fetching(p) /\ InstanceOf[o] = InstanceOf[p]
       /\ Id(o) = Id(p) => o = p
  /\ \A o \in Ops : At(o, "joined") =>
       \E p \in Ops : Fetching(p) /\ InstanceOf[o] = InstanceOf[p] /\ Id(o) = Id(p)

\* Every call returns: nobody is left waiting in the flight group, whatever the
\* fetch it joined came to.
EveryCallReturns == \A o \in Ops : <>At(o, "done")
=============================================================================
