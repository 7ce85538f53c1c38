---------------------------- MODULE Idempotency ----------------------------
(***************************************************************************)
(* The HTTP idempotency middleware of                                      *)
(* internal/infrastructure/web/middleware/idempotency.go, run by any       *)
(* number of requests at once on any number of instances of the service,   *)
(* which share nothing but the Redis store.                                *)
(*                                                                         *)
(* A request is one HTTP attempt; a client that retries sends another one  *)
(* with the same key and body.  Steps are cut at the calls to Redis and at *)
(* the handler's commit, the points where other requests, failures and     *)
(* timeouts interleave.                                                    *)
(***************************************************************************)
EXTENDS IdempotencyStore

CONSTANTS
  KeyOf,         \* KeyOf[r]: the key of request r, or NoKey
  BodyOf,        \* BodyOf[r]: the body of request r
  NoKey,         \* not a POST, or no Idempotency-Key header
  Faults         \* which of FaultKinds the environment commits

FaultKinds == {
  "store",       \* Redis commands fail, are sent again, or take effect late
  "disconnect",  \* the client goes away: the request context is cancelled
  "panic",       \* the handler chain panics; CustomRecovery answers 500
  "crash",       \* the instance dies with the requests it was serving
  "lockExpiry",  \* lockTTL runs out
  "entryExpiry", \* the TTL of a completed entry runs out
  "ambiguous",   \* the handler commits, then answers 5xx
  "body" }       \* the body exceeds the cap, or reading it fails

ASSUME IdempotencyAssumption ==
  /\ KeyOf \in [Requests -> Keys \cup {NoKey}]
  /\ BodyOf \in [Requests -> Bodies]
  /\ NoKey \notin Keys
  /\ NoEntry \notin Entry
  /\ Codes \subseteq 200..599
  /\ Faults \subseteq FaultKinds

VARIABLES
  pc,            \* pc[r]: where r stands in the middleware
  locked,        \* requests whose Lock call answered "acquired"
  gone,          \* requests whose client disconnected
  effect,        \* requests whose handler committed its database write
  late,          \* late[c]: requests that sent command c and did not hear back
  code,          \* code[r]: the status code of r's handler, 0 before
  reply,         \* reply[r]: what the middleware made of r
  waived         \* history: keys on which once-only is no longer promised

vars == <<store, pc, locked, gone, effect, late, code, reply, waived>>

\* Lock, and the one call that settles its entry: Complete or Unlock.
Commands == {"lock", "settle"}

Replies == [kind : {"none", "own", "replay", "conflict", "mismatch",
                    "tooLarge", "recovered"},
            code : Codes \cup {0, 409, 413, 422, 500}, by : Requests]

TypeOK ==
  /\ store \in [Keys -> Entry \cup {NoEntry}]
  /\ pc \in [Requests ->
       {"received", "refused", "running", "returned", "finished", "lost"}]
  /\ locked \subseteq Requests
  /\ gone \subseteq Requests
  /\ effect \subseteq Requests
  /\ late \in [Commands -> SUBSET Requests]
  /\ code \in [Requests -> Codes \cup {0}]
  /\ reply \in [Requests -> Replies]
  /\ waived \subseteq Keys

Init ==
  /\ store = [k \in Keys |-> NoEntry]
  /\ pc = [r \in Requests |-> "received"]
  /\ locked = {}
  /\ gone = {}
  /\ effect = {}
  /\ late = [c \in Commands |-> {}]
  /\ code = [r \in Requests |-> 0]
  /\ reply = [r \in Requests |-> [kind |-> "none", code |-> 0, by |-> r]]
  /\ waived = {}

-----------------------------------------------------------------------------
(***************************************************************************)
(* Helpers                                                                 *)
(***************************************************************************)
Key(r) == KeyOf[r]
Keyed(r) == KeyOf[r] # NoKey

InHandler(r) == pc[r] \in {"running", "returned"}

\* A request has written, or holds the lock and may still write or settle.
Claims(r) ==
  \/ r \in effect
  \/ r \in locked /\ InHandler(r) /\ r \notin late["settle"]

Exposed(k) == \E r \in Requests : Key(r) = k /\ Claims(r)
Overtaken(r) == \E s \in Requests \ {r} : Key(s) = Key(r) /\ Claims(s)

\* go-redis refuses to send a command whose context is cancelled.
StoreAnswers(r) == r \notin gone
StoreFails(r) == r \in gone \/ "store" \in Faults

Goto(r, place) == pc' = [pc EXCEPT ![r] = place]

Answer(r, kind, c, by) ==
  /\ Goto(r, "finished")
  /\ reply' = [reply EXCEPT ![r] = [kind |-> kind, code |-> c, by |-> by]]

\* c.Next() without a lock: nothing keeps a second handler of the key out.
RunBare(r) ==
  /\ Goto(r, "running")
  /\ waived' = waived \cup ({Key(r)} \cap Keys)
  /\ UNCHANGED <<locked, gone, effect, late, code, reply>>

ServerError(c) == c >= 500

-----------------------------------------------------------------------------
(***************************************************************************)
(* Mutants: plausible bugs, each a changed form of a definition below.     *)
(***************************************************************************)
StoresOnlyAbove200(c) == c > 200 /\ c < 500
IgnoresFingerprint(r, e) == TRUE
NoGetErrorPath(r) == FALSE /\ UNCHANGED vars
UnlocksOnEveryExit(r) ==
  /\ pc[r] = "returned"
  /\ r \notin locked
  /\ Answer(r, "own", code[r], r)
  /\ IF Keyed(r) THEN Unlock(Key(r)) ELSE UNCHANGED store
  /\ UNCHANGED <<locked, gone, effect, late, code, waived>>
ReleasesOnPanic(r) ==
  /\ "panic" \in Faults
  /\ pc[r] = "running"
  /\ Answer(r, "recovered", 500, r)
  /\ IF r \in locked THEN Unlock(Key(r)) ELSE UNCHANGED store
  /\ UNCHANGED <<locked, gone, effect, late, code, waived>>

-----------------------------------------------------------------------------
(***************************************************************************)
(* Before the store                                                        *)
(***************************************************************************)
\* Not a POST, or no key: the middleware steps aside.
PassThrough(r) ==
  /\ pc[r] = "received"
  /\ ~Keyed(r)
  /\ RunBare(r)
  /\ UNCHANGED store

\* The cap on the body trips while it is buffered for the fingerprint.
BodyTooLarge(r) ==
  /\ "body" \in Faults
  /\ pc[r] = "received"
  /\ Keyed(r)
  /\ r \notin late["lock"]
  /\ Answer(r, "tooLarge", 413, r)
  /\ UNCHANGED <<store, locked, gone, effect, late, code, waived>>

\* Any other read error: the handler runs on what is left of the body, cannot
\* bind it, and answers 4xx without having written.
BodyUnreadable(r) ==
  /\ "body" \in Faults
  /\ pc[r] = "received"
  /\ Keyed(r)
  /\ r \notin late["lock"]
  /\ \E c \in Codes : c \in 400..499 /\ code' = [code EXCEPT ![r] = c]
  /\ Goto(r, "returned")
  /\ UNCHANGED <<store, locked, gone, effect, late, reply, waived>>

(***************************************************************************)
(* Lock                                                                    *)
(***************************************************************************)
LockAcquired(r) ==
  /\ pc[r] = "received"
  /\ Keyed(r)
  /\ StoreAnswers(r)
  /\ Lock(Key(r), BodyOf[r], r)
  /\ locked' = locked \cup {r}
  /\ Goto(r, "running")
  /\ UNCHANGED <<gone, effect, late, code, reply, waived>>

LockRefused(r) ==
  /\ pc[r] = "received"
  /\ Keyed(r)
  /\ StoreAnswers(r)
  /\ Held(Key(r))
  /\ Goto(r, "refused")
  /\ UNCHANGED <<store, locked, gone, effect, late, code, reply, waived>>

\* Lock returned an error, whatever became of the command: fail open.
LockErrs(r) ==
  /\ pc[r] = "received"
  /\ Keyed(r)
  /\ StoreFails(r)
  /\ RunBare(r)
  /\ UNCHANGED store

(***************************************************************************)
(* Get, after a refused lock                                               *)
(***************************************************************************)
GetErrs(r) ==
  /\ pc[r] = "refused"
  /\ StoreFails(r)
  /\ RunBare(r)
  /\ UNCHANGED store

\* The entry went away between Lock and Get: expired, or unlocked after a 5xx.
EntryGone(r) ==
  /\ pc[r] = "refused"
  /\ StoreAnswers(r)
  /\ ~Held(Key(r))
  /\ RunBare(r)
  /\ UNCHANGED store

GetFinds(r, status) ==
  /\ pc[r] = "refused"
  /\ StoreAnswers(r)
  /\ Held(Key(r))
  /\ store[Key(r)].status = status

Conflict(r) ==
  /\ GetFinds(r, Processing)
  /\ Answer(r, "conflict", 409, r)
  /\ UNCHANGED <<store, locked, gone, effect, late, code, waived>>

\* The guard entry.Fingerprint # "" is left out: every entry this code writes
\* holds a SHA-256.
SameFingerprint(r, e) == BodyOf[r] = e.fingerprint

Mismatch(r) ==
  /\ GetFinds(r, Completed)
  /\ ~SameFingerprint(r, store[Key(r)])
  /\ Answer(r, "mismatch", 422, r)
  /\ UNCHANGED <<store, locked, gone, effect, late, code, waived>>

Replay(r) ==
  /\ GetFinds(r, Completed)
  /\ LET e == store[Key(r)] IN
       /\ SameFingerprint(r, e)
       /\ Answer(r, "replay", e.code, e.by)
  /\ UNCHANGED <<store, locked, gone, effect, late, code, waived>>

(***************************************************************************)
(* The handler chain (service-key auth, handler, use case, repository),    *)
(* abstracted to one database write and a status code.  The write may be   *)
(* in flight when the client goes away, so gone does not disable it.       *)
(***************************************************************************)
HandlerCommits(r) ==
  /\ pc[r] = "running"
  /\ r \notin effect
  /\ effect' = effect \cup {r}
  /\ UNCHANGED <<store, pc, locked, gone, late, code, reply, waived>>

HandlerReturns(r) ==
  /\ pc[r] = "running"
  /\ \E c \in Codes :
       /\ \/ (c < 400) <=> (r \in effect)
          \/ "ambiguous" \in Faults /\ r \in effect /\ ServerError(c)
       /\ code' = [code EXCEPT ![r] = c]
       /\ waived' = IF r \in effect /\ ServerError(c)
                    THEN waived \cup ({Key(r)} \cap Keys) ELSE waived
  /\ Goto(r, "returned")
  /\ UNCHANGED <<store, locked, gone, effect, late, reply>>

\* The panic unwinds through the middleware, skips its step 8, and is answered
\* by CustomRecovery: the lock stays.
HandlerPanics(r) ==
  /\ "panic" \in Faults
  /\ pc[r] = "running"
  /\ Answer(r, "recovered", 500, r)
  /\ UNCHANGED <<store, locked, gone, effect, late, code, waived>>

(***************************************************************************)
(* Step 8: store the response or release the lock                          *)
(***************************************************************************)
shouldStoreResponse(c) == c >= 200 /\ c < 500

AnswerOwn(r) ==
  /\ pc[r] = "returned"
  /\ Answer(r, "own", code[r], r)
  /\ UNCHANGED <<locked, gone, effect, late, code>>

FinishBare(r) ==
  /\ r \notin locked
  /\ AnswerOwn(r)
  /\ UNCHANGED <<store, waived>>

\* Redis runs the SET or the DEL that settles r's entry, whoever owns what is
\* there now.  Only a second or a late copy can meet another attempt's claim,
\* and withdraws the promise of the key.
Settle(r) ==
  /\ \/ /\ shouldStoreResponse(code[r])
        /\ Complete(Key(r), BodyOf[r], r, code[r])
     \/ /\ ~shouldStoreResponse(code[r])
        /\ Unlock(Key(r))
  /\ waived' = IF r \in late["settle"] /\ Overtaken(r)
               THEN waived \cup {Key(r)} ELSE waived

StoreResponse(r) ==
  /\ r \in locked
  /\ shouldStoreResponse(code[r])
  /\ StoreAnswers(r)
  /\ Settle(r)
  /\ AnswerOwn(r)

ReleaseLock(r) ==
  /\ r \in locked
  /\ ~shouldStoreResponse(code[r])
  /\ StoreAnswers(r)
  /\ Settle(r)
  /\ AnswerOwn(r)

\* Complete or Unlock failed: logged, whatever became of the command.
SettleErrs(r) ==
  /\ r \in locked
  /\ StoreFails(r)
  /\ AnswerOwn(r)
  /\ UNCHANGED <<store, waived>>

-----------------------------------------------------------------------------
(***************************************************************************)
(* The environment                                                         *)
(***************************************************************************)
Disconnect(r) ==
  /\ "disconnect" \in Faults
  /\ pc[r] \notin {"finished", "lost"}
  /\ gone' = gone \cup {r}
  /\ UNCHANGED <<store, pc, locked, effect, late, code, reply, waived>>

Crash(r) ==
  /\ "crash" \in Faults
  /\ pc[r] \notin {"finished", "lost"}
  /\ Goto(r, "lost")
  /\ UNCHANGED <<store, locked, gone, effect, late, code, reply, waived>>

(***************************************************************************)
(* No answer to a command arrives in time.  go-redis sends it again (its   *)
(* default MaxRetries) or gives up, and each copy that left may still      *)
(* reach Redis, before or after the request goes on.  How many copies      *)
(* there are is left open, so late only grows.                             *)
(***************************************************************************)
Sending(r, command) ==
  \/ command = "lock" /\ pc[r] = "received" /\ Keyed(r)
  \/ command = "settle" /\ pc[r] = "returned" /\ r \in locked

CommandTimesOut(r, command) ==
  /\ "store" \in Faults
  /\ StoreAnswers(r)
  /\ Sending(r, command)
  /\ late' = [late EXCEPT ![command] = @ \cup {r}]
  /\ UNCHANGED <<store, pc, locked, gone, effect, code, reply, waived>>

LateLock(r) ==
  /\ r \in late["lock"]
  /\ Lock(Key(r), BodyOf[r], r)
  /\ UNCHANGED <<pc, locked, gone, effect, late, code, reply, waived>>

LateSettle(r) ==
  /\ r \in late["settle"]
  /\ Settle(r)
  /\ UNCHANGED <<pc, locked, gone, effect, late, code, reply>>

\* A lock or entry that ran out under a request that wrote, or may still write,
\* leaves nothing to keep a second execution out.
TimeOut(k, status) ==
  /\ Expire(k, status)
  /\ waived' = IF Exposed(k) THEN waived \cup {k} ELSE waived
  /\ UNCHANGED <<pc, locked, gone, effect, late, code, reply>>

ExpireLock(k) == "lockExpiry" \in Faults /\ TimeOut(k, Processing)
ExpireEntry(k) == "entryExpiry" \in Faults /\ TimeOut(k, Completed)

-----------------------------------------------------------------------------
Serve(r) ==
  \/ PassThrough(r) \/ BodyTooLarge(r) \/ BodyUnreadable(r)
  \/ LockAcquired(r) \/ LockRefused(r) \/ LockErrs(r)
  \/ GetErrs(r) \/ EntryGone(r) \/ Conflict(r) \/ Mismatch(r) \/ Replay(r)
  \/ HandlerCommits(r) \/ HandlerReturns(r) \/ HandlerPanics(r)
  \/ FinishBare(r) \/ StoreResponse(r) \/ ReleaseLock(r) \/ SettleErrs(r)

Next ==
  \/ \E r \in Requests : Serve(r) \/ Disconnect(r) \/ Crash(r)
  \/ \E r \in Requests, c \in Commands : CommandTimesOut(r, c)
  \/ \E r \in Requests : LateLock(r) \/ LateSettle(r)
  \/ \E k \in Keys : ExpireLock(k) \/ ExpireEntry(k)

(***************************************************************************)
(* net/http runs every request in a goroutine of its own and the handlers  *)
(* return, so a request that can step eventually does: go-redis bounds     *)
(* every command by its timeouts.  Nothing else is fair: clients need not  *)
(* disconnect, instances need not crash, late commands need not arrive and *)
(* entries need not expire within the life of a behaviour.                 *)
(***************************************************************************)
Fairness == \A r \in Requests : WF_vars(Serve(r))

Spec == Init /\ [][Next]_vars
FairSpec == Spec /\ Fairness

-----------------------------------------------------------------------------
(***************************************************************************)
(* Properties                                                              *)
(***************************************************************************)
\* Two attempts with one key never both write to the database, unless an
\* expiry, a fail-open, an ambiguous answer or a late Complete or Unlock that
\* met another claim withdrew the promise: however attempts, crashes, panics,
\* disconnects and late commands interleave (idempotency.go:76-174).
EffectOncePerKey == \A r, s \in effect :
  Key(r) = Key(s) /\ Key(r) \in Keys \ waived => r = s

\* When Redis holds nothing for a key, so that the next attempt will execute,
\* no earlier attempt has written: a key is released (idempotency.go:162-173)
\* or times out (store.go:44) only when executing again is harmless.
SafeToRetry == \A k \in Keys \ waived :
  ~Held(k) => \A r \in effect : Key(r) # k

\* A replay is the recorded answer of another attempt, with the same key and
\* the same body, that held the lock, and never a server error
\* (idempotency.go:117-131, 146-151); no failure or timeout excuses it.
ReplayIsFaithful == \A r \in Requests : reply[r].kind = "replay" =>
  LET s == reply[r].by IN
    /\ s # r
    /\ s \in locked
    /\ Key(s) = Key(r)
    /\ BodyOf[s] = BodyOf[r]
    /\ reply[r].code = code[s]
    /\ ~ServerError(code[s])

\* Complete and Unlock carry no owner (store.go:72-86), yet while the promise
\* stands no attempt that wrote, or is still in its handler under the lock,
\* loses its entry to another: the entry changes only to that attempt's own
\* answer, even when commands are sent again or arrive late.
OwnerChangesEntry(k) ==
  Held(k) /\ store'[k] # store[k] =>
    \A r \in Requests :
      Key(r) = k /\ (r \in effect \/ (r \in locked /\ pc[r] = "running")) =>
        /\ store'[k] # NoEntry
        /\ store'[k].status = Completed
        /\ store'[k].by = r

OnlyOwnerChangesEntry ==
  [][\A k \in Keys \ waived' : OwnerChangesEntry(k)]_vars

\* Every attempt is answered or dies with its instance: no path of the
\* middleware waits on another attempt or on the store.
EveryRequestAnswered ==
  \A r \in Requests : <>(pc[r] \in {"finished", "lost"})

\* What idempotency.go:28 says of the middleware, with no reservation: POST
\* requests with one key execute once.  (EffectOncePerKey without its excuses.)
AlwaysOncePerKey == \A r, s \in effect :
  Keyed(r) /\ Key(r) = Key(s) => r = s

\* The middleware implements OncePerKey: a key is idle, claimed or settled as
\* its entry in Redis is absent, PROCESSING or COMPLETED.
KeyState(k) ==
  IF k \in waived THEN "waived"
  ELSE IF ~Held(k) THEN "idle"
  ELSE IF store[k].status = Processing THEN "claimed"
  ELSE "settled"

KeyStates == [k \in Keys |-> KeyState(k)]
ExecutedKeys == {k \in Keys \ waived : \E r \in effect : Key(r) = k}

Promise == INSTANCE OncePerKey
             WITH state <- KeyStates, executed <- ExecutedKeys

ImplementsOncePerKey == Promise!Spec
=============================================================================
