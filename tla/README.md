# gopherplate in TLA+

gopherplate is a Go service template: an HTTP (and optionally gRPC) service over
PostgreSQL and Redis with users and roles, a generator that scaffolds new services
from it, and a small "learning loop" tool. This directory holds TLA+ models of its
stateful parts, the TLC configurations that check them on small instances, and TLAPS
proofs of their main properties for all instances. Paths are relative to the root of
the repository.

- [The system](#the-system): components, state, interactions, what is hard
- [Modules](#modules): which module models what, how state and actions map to code
- [Runs](#runs): what each run asks, its bounds, fairness
- [Proofs](#proofs): what holds for every value of the constants, and why
- [Disagreements with the documentation](#disagreements-with-the-documentation)
- [What is not modelled](#what-is-not-modelled), [Plan](#plan)

Run a configuration with `tlc -workers 2 -config <run>.cfg <module>`, check the proofs
with `tlapm <module>Proofs.tla`. `PROJECT.json` lists components, runs, the code lines
behind every definition, the hazards and the theorems.

## The system

### Components

| Component | Where | State | Operations |
|---|---|---|---|
| HTTP idempotency middleware | `internal/infrastructure/web/middleware/idempotency.go` | none of its own; one goroutine per request | Lock, Get, replay / conflict / mismatch, run the handler, Complete or Unlock |
| Idempotency store | `pkg/idempotency/` | Redis keys with TTL | SET NX EX, GET, SET EX, DEL |
| User use cases | `internal/usecases/user/` | none; one goroutine per call | create, get, update, delete, list |
| User repository | `internal/infrastructure/db/postgres/repository/user.go` | table `users` | INSERT, SELECT, UPDATE of all columns, soft delete, COUNT + page |
| Database cluster | `pkg/database/` | writer and reader pools | connect with fallback, close, ping |
| Cache, singleflight | `pkg/cache/` | Redis keys with TTL; a flight table per process | Get, Set, Delete; Do |
| Role use cases | `internal/usecases/role/`, `repository/role.go` | table `roles` | create (check, then insert), delete, list |
| Router, handlers, gRPC handlers, authentication, error mapping | `internal/infrastructure/web/`, `.../grpc/`, `pkg/apperror` | none | request-local decisions: body cap, service key, binding, status tables |
| Service life cycle | `cmd/api/server.go` | goroutines, servers, pools, signal channel | Start, shut down |
| Health checks | `pkg/health` | none | one probe after the other |
| Configuration, logging, telemetry, bootstrap | `config/`, `pkg/logutil`, `pkg/telemetry`, `internal/bootstrap` | none the program decides on | straight-line construction, recording |
| Learning loop: decisions | `tools/learn/cmd_{record,apply}_decision.go`, `cmd_refine_apply.go`, `cmd_rollback.go` | table `decisions`, decision files, `audit.jsonl` | record, apply, refine-apply, roll back |
| Learning loop: index | `tools/learn/cmd_{reindex,track_use,complete_task,nudge_tick}.go`, `store.go` | tables of skills, memories, usage, events, the nudge counter | reindex, track a use, count a loop, nudge |
| Learning loop: extraction and recall | `tools/learn/cmd_extract.go`, `ingest_*.go`, `recall.go`, `similar.go` | `candidates.jsonl`, tables `patterns`, `candidates` | mine three sources, answer queries |
| Generator | `cmd/cli/` | a project tree | new, add / remove domain or endpoint, regenerate wiring |
| Spec validator | `tools/validate-spec/` | none | parse a spec, check its tasks, batches and requirements |

### How they interact

    client --HTTP--> router -> idempotency middleware -> auth -> handler
                                   |  ^                            |
                                 Redis (locks, stored answers)   use case -> cache (Redis)
                                                                   |      -> flight group
                                                               repository -> writer / reader pool
    client --gRPC--> interceptors -> handler -> the same use cases
    spec file -> validate-spec (may it be executed?)
             \-> learn extract <- git log, transcripts;  learn commands -> SQLite, .md files
    cli new -> a copy of this tree -> add / remove / wiring, file by file
    signal  -------> shutdown goroutine -> both servers -> Start returns -> pools close

Attempts meet in Redis and in PostgreSQL only: instances share no memory, and within an
instance the calls share the flight group. There are no locks in the program, and its only
transaction of two statements, a listing's, runs at READ COMMITTED; what it promises about
concurrency it promises through single commands (`SET NX`, one SQL statement, one table entry
under a mutex).

### What is hard

- *Idempotency.* Lock and Get are two commands; Complete and Unlock name no owner; the
  lock times out under a running handler; the handler may commit and then fail, panic, or
  lose its client or its process; each Redis failure lets the request through, and a command
  whose answer was lost is sent again, perhaps after its attempt has been answered.
- *Users.* Update is read-modify-write over two pools; a Get may fill the cache after an
  update has cleaned it; the cache key is the client's spelling of the id; the replica
  trails; a shared fetch couples calls that know nothing of each other.
- *Life cycle.* Three goroutines and an errgroup, a deadline for one server and none for
  the other, stopping that may overtake starting, connections on which a request comes late.
- *Role API.* Lookup and INSERT, COUNT and SELECT are pairs of statements between which
  others commit; two transports must refuse and report alike.
- *Learning loop.* A file system, a database and a log that are changed in separate steps
  by concurrent processes, with hand-written undo; statements that are atomic one by one
  while commands are not; parsers that must agree with what git, sessions and people write.
- *Generator.* Commands that edit a tree file by file with no journal, and templates that
  assume what an earlier command may have removed.
- *Spec validator.* Line-oriented parsing with fences, comments and sections, and a graph
  search; a second reader of the same file with rules of its own.

What makes each component correct, in a sentence:

- middleware: attempts with one key write once, and a replay is the recorded answer to the
  same request;
- use cases: only committed rows are ever answered or cached, staleness has known causes, every
  call returns;
- role API: an answer tells what became of the table, only valid credentials change it, pages
  partition it;
- life cycle: pools outlive the requests that use them, a stop without a failure is clean, a
  signal ends the process;
- learning loop: what a rollback restores is what was moved, a failed command leaves no
  orphan, no text is lost by a crash; the index shows what is on disk, loops are counted and
  announced, candidates count what happened, recall answers with the best;
- generator: what it leaves compiles, or the conditions under which it does not are known;
- spec validator: a spec that passes can be executed batch by batch, and its requirements are
  tested.

`PROJECT.json` lists forty hazards, each at the line where it bites; the runs and theorems
below are aimed at them.

## Modules

| Module | Models |
|---|---|
| `IdempotencyStore` | `pkg/idempotency/redisstore/store.go` |
| `Idempotency` (extends it) | the middleware, every path |
| `OncePerKey` | the abstract promise of an Idempotency-Key |
| `UserRepository` | table `users`, writer and replica |
| `UserUseCases` (extends it) | create, get, update, delete, with cache and flight group |
| `RoleApi` | roles over HTTP and gRPC: chain, authentication, use cases, repository, status tables |
| `ServerLifecycle` | `Start` and `runWithGracefulShutdown` |
| `LearningFiles` | the files of the learning loop, as package os gives them |
| `LearningDecisions` (extends it) | `record-decision`, `apply-decision`, `refine-apply`, `rollback` |
| `LearningIndex` | `reindex`, `track-use`, `complete-task`, `nudge-tick` |
| `LearningLists` | the loops over slices that the learn commands share (operators only) |
| `LearningMining` (extends it) | what `extract` makes of git log, transcripts and specs (operators only) |
| `LearningRecall` (extends `LearningLists`) | `recall` and `similar` (operators only) |
| `LearningExtract` (extends the two before) | `extract` and its tables over time, and the two queries |
| `SpecLint` | the linter `validate-spec`, and the spec ingester of `learn` beside it |
| `Generator` | the commands of `cmd/cli` over a project tree |
| `MC...` | constants for TLC |
| `...Proofs` | theorems |

### Idempotency

*State.* `store` is Redis: per key an entry `(status, code, fingerprint, by)` or `NoEntry`.
`pc[r]` is where attempt `r` stands; `locked` the attempts whose `SET NX` succeeded (the
program's local `acquired`); `gone` those whose client disconnected (`c.Request.Context()`
cancelled, which makes go-redis refuse to send); `effect` those whose handler has
committed its write; `code` and `reply` what handler and middleware answered. `waived` is a
history variable: the keys on which no once-only promise is left, because the lock ran out
under a running handler or an executed key expired, because an attempt ran without a lock
(fail-open, or an entry that vanished between Lock and Get), because a handler committed
and then answered 5xx, or because a second or late copy of a Complete or Unlock met the claim of
another attempt. `late[c]` holds the attempts that sent command `c` and did not hear back in
time: go-redis sends such a command again, and as every copy that left may still reach Redis, the
set only grows and each of its members may act any number of times, also when its attempt has
long been answered or has died.

*Steps* are cut at calls to Redis and at the handler's commit. The stored body is
represented by the attempt whose handler produced it; in a PROCESSING entry `by` is history,
no guard reads it (the code stores no owner). The fingerprint is the body itself (SHA-256
without collisions). The handler chain is one database write and one status code: 2xx/3xx
iff it wrote, except that under fault `"ambiguous"` it writes and answers 5xx.

| Action | `idempotency.go` |
|---|---|
| `PassThrough` | not POST, or no key: `c.Next()` |
| `BodyTooLarge`, `BodyUnreadable` | the body is read for its fingerprint: 413, or proceed with what is left |
| `LockAcquired`, `LockRefused`, `LockErrs` | `store.Lock`, its three outcomes; an error fails open |
| `GetErrs`, `EntryGone`, `Conflict`, `Mismatch`, `Replay` | `store.Get` after a refused lock |
| `HandlerCommits`, `HandlerReturns`, `HandlerPanics` | `c.Next()`; a panic skips what follows and is answered by `recovery.go` |
| `FinishBare`, `StoreResponse`, `ReleaseLock`, `SettleErrs` | step 8: Complete, Unlock, or neither |
| `CommandTimesOut`, `LateLock`, `LateSettle` | go-redis: no answer in time; a copy of `SET NX`, `SET` or `DEL` takes effect |
| `Disconnect`, `Crash`, `ExpireLock`, `ExpireEntry` | the environment |

*Properties.* `EffectOncePerKey` (two attempts with one key never both write, unless
waived), `SafeToRetry` (an unheld key has not executed, unless waived), `ReplayIsFaithful`
(no excuse at all: a replay is the recorded, non-5xx answer to the same key and body),
`OnlyOwnerChangesEntry` (although the commands carry no owner), `ImplementsOncePerKey`,
and the liveness property `EveryRequestAnswered`. An attempt that a copy of its own `SET NX`
refuses answers 409 to its own client, and one whose `DEL` arrives twice may delete the next
owner's lock: the first breaks no promise, the second withdraws it. An attempt claims its key
(`Claims`) when it has written, or holds the lock and has not begun to settle.

### Users

*State.* `log` is the sequence of committed tables: the last is the writer's, `log[applied]`
the replica's. `cache` maps id *strings* to rows, `flight` is each process's singleflight
table, `pc`, `call`, `row` and `reply` belong to the calls. `raced` is a history variable:
ids whose cached row was overtaken in a way the code does not defend against.

| Action | Code |
|---|---|
| `RejectId`, `RejectEmail`, `Create` | `create.go`, `vo.NewEmail`, SQLSTATE 23505 |
| `CacheHit`, `CacheMiss`, `TakeOff`, `Join`, `FindByID`, `Land`, `Fill`, `SkipFill` | `get.go`, `pkg/cache/singleflight.go` |
| `FindForUpdate`, `Save`, `SaveRefused` | `update.go`, `repository/user.go` Update (all columns) |
| `Deactivate`, `NothingToDelete` | `delete.go`, soft delete |
| `Invalidate`, `InvalidateFails` | the cache delete after a write |
| `ReadErrs`, `WriteErrs` | a statement that fails, or is applied and its answer lost |
| `Expire`, `CatchUp` | the TTL; the replica |

The deployed service wires the use cases without cache and flight group, generated services
with both; `WithCache` and `WithFlight` cover either. A flight's leader and its followers
share row and verdict, also when the leader's own client has gone. Statements are atomic (each
runs in its own transaction) and a user id is created once (UUIDv7).

*Properties.* `NoPhantomRows`, `StaleOnlyByRace`, `OneFetchPerId`, `EveryCallReturns`. How long a stale
row stays is the TTL given to Redis, of which no property speaks.

### Life cycle

*State.* `main` is where `Start` stands, `result` what it returned, `http`, `grpc`, `waiter`
the goroutines of `runWithGracefulShutdown`, `cancelled` the errgroup's context, `quit` the
one-place signal channel, `graceOver` the ten-second deadline, `cluster` the pools, and
`work` the requests: each comes on a connection of its own, which is accepted first and carries it
later. `withGRPC` is the configuration, chosen in `Init`. net/http and grpc-go are modelled by what
`Start` relies on: `Shutdown` and `GracefulStop` accept no connection any more, close those that
carry nothing (`HangUp`) and wait for the others, on which a request may still begin (`Arrive`);
`Shutdown` waits up to its deadline, `GracefulStop` without one; `ListenAndServe` returns at once
when `Shutdown` begins (and refuses to start after it), `Serve` returns nil after `GracefulStop`
ends, but `ErrServerStopped` when it is called too late (`tooLate`).

*Properties.* `DatabaseOutlivesHandlers`; `CleanStop` (a stop that no failure of a server led to
cuts no RPC, an HTTP request only after the deadline, and exits with 1 only if the signal overtook
the start of the gRPC server); `SignalStops`, on the condition that no RPC hangs (`NoRPCHangs`):
the registered health `Watch` and reflection streams may, and then the process does stay up.

### Learning loop: decisions

*State.* `files` maps canonical paths and copies `<<path, second>>` under `_deprecated/` to what
is there: whose texts, and whether the deprecation header is on top. `rows` is the table
`decisions`, `audit` the lines of `audit.jsonl`, `second` the clock as a copy's name shows it.
Each command is a process: `pc`, `call` (its flags), `mine` (its local variables) and `reply`.
`disturbed` (the commands that ran while another did), `mine[c].before` and the `text` of an
audit line are history; no guard reads them.

*Steps* are cut at every system call and SQL statement; each may fail, a failing or dying write
may leave the file empty (`os.WriteFile` truncates first), and a process may die between any
two steps. A rowid is one more than the largest in the table, as SQLite assigns it without
AUTOINCREMENT, so the id that `refine-apply` takes back is given out again. The two `Stat` of a
rollback are one step, since the first is repeated by the read that follows.

| Action | Code |
|---|---|
| `StatTarget`, `CaptureOld`, `ReadOld`, `WriteTarget` | `cmd_record_decision.go`: new file, or capture, read, write |
| `InsertDecision`, `InsertDecisionFails`, `Undo`, `UndoFails` | the row; the deferred undo without it |
| `LoadDecision`, `InsertPending` | how `apply-decision` and `refine-apply` get their row |
| `ReadSource`, `RenameSource`, `StampHeader`, `CopySource`, `RemoveSource` and their failures | `moveToDeprecated`, with its fallback to copy and remove |
| `MarkApplied`, `DropPending`, `StatementFails` | the row after the move |
| `AppendAudit`, `AppendAuditFails` | `audit.go`; a failure is a warning |
| `FindMove`, `CheckPlaces`, `ReadCopy`, `WriteBack`, `RemoveCopy`, `InsertRolledBack` | `cmd_rollback.go` |
| `ReadFails`, `Crash`, `Tick` | the environment |

*Properties.* `RollbackRestores` (a logged rollback put back the very text that the logged move
it reverses took), `RestoredOnce` (racing rollbacks of one copy: one is logged),
`RecordIsAtomic` (a failed `record-decision` that ran alone leaves its file as it was, but for the
system call of its own that failed: a failed write may leave it torn, a failed undo as written or torn),
`TextSurvives` (no text vanishes from the disk but where the code means it to). Their excuses
are what the code does not defend against: two moves of one path within a second share a copy's
name (`Collided`), commands that overlap on a file overwrite each other, and a write that is
torn. The two log properties have the collision as their only excuse, whatever overlaps, fails or
dies.

### Role API

*State.* `roles` is the table on the writer, `reader` what a read sees (the same table, or a
replica that trails), `call`, `pc` and `outcome` belong to the requests; `counted`, `paged` and
`rows` are what COUNT and SELECT of a listing saw and answered. `stored`, `gone`, `old` and `met`
are history. A request is admitted or refused in one step, since the chain keeps no state; then
each SQL statement is a step.

| Definition | Code |
|---|---|
| `Admission`, `ServiceKeyAuth`, `validateAuth`, `Bindable` | router chain, `middleware/service_key.go`, `grpc/interceptor/auth.go`, binding tags |
| `FindsDuplicate`, `FindsNone`, `Inserts`, `InsertRefused`, `InsertTooLong` | `create.go`, `repository/role.go` Create |
| `Removes`, `RemovesNothing` | `delete.go`, repository Delete |
| `Counts`, `Fetches`, `Normalize`, `Offset`, `totalPages` | `list.go`, repository List, `filter.go` (Go's `int` wraps at `MaxInt`) |
| `roleToAppError`, `codeToStatus`, `codeToGRPCStatus` | the status tables of both transports |

*Properties.* `AnswersTellTheTruth`, `ConflictsAreReal`, `OnlyAuthenticatedWrites`,
`PagesPartitionTheTable`. The listing of users is the same code with two more conditions, so it has
no module of its own.

### Learning loop: index

*State.* `disk` and `retired` are the markdown files, `index` and `usage` the rows, `events` and
`counter` the loop statistics, `now` the day. `proc` holds for each running command its flags, the
files and rows it has yet to visit and what it read last. `quiet` (reindexes nobody interfered
with), `reported`, `epoch`, `loops` and `signalled` are history.

*Steps.* Each SQL statement and each file read is a step; files change, days pass and processes
are killed between any two. A prune of a row that was used fails on the foreign key, as the schema
without CASCADE has it, and ends the command; so does one file that does not parse.
`Plans` are the sequences of commands and the bounds on days, changes and kills.

A statement that fails ends its
command, as a kill does (`Crash`).

*Properties.* `IndexMirrorsDisk` (of all columns but `indexed_at`), `ProposedIsUnused` (nothing is proposed for deprecation within
the time to live of its last reported use), `NudgesCountLoops` (a threshold that is reached is
announced, whichever loops overlap or die).

### Learning loop: extraction and recall

`LearningMining` translates the parser of `git log --numstat`, the sorting of transcript lines and
the counting of windows; `rendered` is git's side, external to the code, and so is how `sort.Slice`
works (`insertByTime`, `reorderings`): a slice in order stays as it is, one of at most
`maxInsertion` (12 in Go) is sorted by insertion, which keeps equal times in their order, and of a
longer one nothing is said but that it comes out sorted. `LearningRecall` ranks,
cuts and budgets what the full-text indexes match (their scores are inputs) and computes the edit
distance in one row as the code does. `LearningExtract` puts both to work: `Mine` over a history,
`writeCandidatesFile`, then `upsertPattern` and `insertCandidate` row by row, a kill anywhere, the
next extract over a longer history, and `Recall` and `Similar` in between. The three properties
about operators compare them with definitions that know nothing of logs, sorting or rows
(`occurrences`, `editDistance`, a maximal choice). In a history (`IsHistory`) a hash names one
commit and a path one spec; a session's lines may come in any order and at equal times, a malformed
or oversized one is skipped, and one beyond the scanner's 4 MB refuses its whole session (`refused`).
A commit has two dates, the committer's, by which `--since` selects, and the author's, which is
parsed. A row of `candidates` has no kind, as the INSERT gives it none: two candidates that share
their signature share their row of `patterns`, and the tables do not tell them apart. A hit of
`similar` may have lost its index row to a reindex (`gone`), and the target is left out by the
spelling of its path.

`CandidatesCountWindows` holds under two conditions, which it names: of the commits none but the
oldest is without files (`onlyTheOldestIsEmpty`, see the disagreements), and of every session the
order of equal times is kept (`timesKeepOrder`).

*Properties.* `CandidatesCountWindows`, `TablesFollowTheFile`, `RecallReturnsTheBest`,
`SimilarIsExact`.

### Spec validator

*State.* `doc` is what was read of a document, `m` the linter's model and parser state
(section, fence, comment, open task), `learned` the records and state of the second reader, the
ingester of the learning loop. A line is abstracted to what the patterns of both recognise in it:
a bullet may be indented, a task done, with or without the colon after its id, a list of files
with or without commas. The linter's task has the colon, wherever the line starts (`declares`); the
ingester's has none of that but starts at the margin and is done (`takes`); they split the files
differently (`splitFiles`), and end a task at different lines (`endsBlock`). Headings are taken to
start at the margin, and a list of files to begin with `- files: `.
`ReadLine` is one iteration of both loops; `EndOfFile` closes what is open and runs the rules
(`validate...`, named as in the code). The depth-first search of the code is the function `search`
of depth, colours and node in `dfs`: a call turns one more node gray, so the number of nodes bounds
the depth. `LintInit`, `LintNext` and `LintSpec` have these names because `ToolsProofs` extends this
module and `LearningExtract`.

*Properties.* `CleanSpecRunsInBatches`, `DagCheckIsExact`, `CleanSpecTracesRequirements`,
`LearnedTasksAreDeclared`. The first assumes distinct task ids and batch numbers, which no rule
of the linter checks. The last excuses the ids on lines that only the ingester takes (`undeclared`),
and for the files asks that there be no line which the two take differently (`readAlike`).

### Generator

*State.* A file is `<<owner, part>>` and `tree` says which text it has (copied, copied with
another driver, rendered, absent); `wiring` says with which data each of the four wiring files was
rendered, or that only a part of it was written; the part `dir` is the directory of a domain's
package, which may be there empty; `phase` is how far `new` has come. `Builds` stands for `go build ./...`: every
reference of a file is met by another one.

| Action | Code |
|---|---|
| `CopyProject`, `SwitchDBDriver`, `RemoveDisabledFeatures`, `CleanupWiring`, `FinishNew` | `runNew`, in its order |
| `NewInterrupted` | a failure or kill between two steps or inside one (`SwitchStops`, `RemovalStops`, `CleanupStops`); the directory stays and a retry is refused |
| `AddDomain`, `AddEndpoint` | files in any order (a Go map), any subset when interrupted |
| `RemoveDomain`, `RemoveEndpoint` | paths in order, a prefix when interrupted |
| `RunWiring` | `scanDomains`, then the four files one by one, the last perhaps torn |

*Properties.* `NewBuildsWithExamples`, `WiringMends`, `CommandsKeepBuilding`: each bounds
from both sides when a tree builds.

## Runs

All runs finish within five minutes with two workers. They switch deadlock checking off
because calls, attempts and processes are finite in number: the models stop when all are done.

| Run | Question | Instance | Distinct states |
|---|---|---|---|
| `idempotency_faults` | Is the once-only promise kept under every failure, up to its stated limits? Does the middleware implement `OncePerKey`? | 3 attempts, 1 key, 2 bodies, codes 200/400/500, all faults but disconnects | 2.30 M |
| `idempotency_live` | Is every attempt answered? | 3 attempts, one without key; store errors, late commands, disconnects, locks that run out | 247 k |
| `idempotency_unlock_race` | Is it once-only with no fault at all? **Violated** | no faults | stops early |
| `users_races` | Are answered and cached rows committed, and stale only as enumerated? | 4 calls on 2 instances, 3 ids of 2 users, replica, cache and database errors | 1.46 M |
| `users_live` | Does every call return? | 3 calls of every kind and outcome | 288 k |
| `lifecycle` | Do pools close last, is a stop clean, does a signal stop the process? | 2 HTTP requests, 2 RPCs, with and without gRPC | 41 k |
| `role_api` | Are clients told what happened, and only authenticated ones served? Do pages partition the table? | 3 requests, 2 seeded roles, both transports, replica or not, all faults | 4.78 M |
| `decisions` | Is the log truthful, are failed commands undone, is no text lost? | 3 commands, 1 file, 2 seconds, 3 rowids, all faults | 1.98 M |
| `index` | Does the index mirror the disk, are loops announced, is only what is unused proposed? | 2 processes, 1 skill, 1 memory, 8 plans of up to 5 commands | 367 k |
| `extraction` | Do candidates count what happened, do the tables follow the file, are queries answered exactly? | 128 logs of 4 commits, 12 transcripts, repeated extracts, 2 indexes of up to 6 hits, bodies of up to 3 characters | 151 k |
| `specs` | Can a spec that passes be executed, is it traced, are cycles found exactly, is what is learned declared? | every document of three forms of up to 22 lines | 769 k |
| `generator` | When does a generated tree build, and what can `wiring` mend? | 18 choices, then 3 commands on 4 domains, one interruption | 980 k |

*Why the bounds are enough.* Keys do not interact, so one is enough. Three attempts are what
it takes for one to slip in between the Lock and the Get of another (the counterexample of
`idempotency_unlock_race` needs all three). Two bodies and one code per class are all the
middleware can tell apart. Two attempts have the same body and may be exchanged (`SYMMETRY`). A
client that goes away makes the store fail for its attempt, which `"store"` does for any attempt at
any time, so the large run leaves disconnects to the run for liveness, and the proofs. Three ids give two spellings of one user and an id of another; four
calls let a reader, a writer and a joined pair meet; all but one run in one process so that
they share its flights, and symmetry permutes these. Four requests let each server have one
answered and one hanging request, or one running and one on a connection yet idle. Three commands are a move, its rollback and whoever interferes;
two seconds tell a collision from its absence; one file, since files do not interact but in the
rowids they share, of which there are as many as commands. Commands are interchangeable
(`SYMMETRY`), and the `VIEW` hides the local variables of a command that has ended, which nothing
reads again, but for the copy it aimed at.

Three role requests are a create or delete, whoever slips between its two statements and whoever
asks next; with two seeds, listings of one row a page have a first, a second and a page beyond, and
`MaxInt` is small enough that a large page of the query string wraps around while an RPC's cannot,
as on the real widths. In `index` each plan is aimed at one way commands
meet (MCLearningIndex names them); more processes than two add no new pair. In `extraction` four
commits reach the swallowed header, a binary diff, a body and the limit on directories (2 of 3);
with `maxInsertion` = 5 sessions are sorted by insertion and beyond it;
hits exceed the limit per index (5), top-k and the budget. The forms of `specs` cover three tasks with all
dependency graphs that the lines of MCSpecLint can spell, two batches, three requirements and four
free lines among fences, comments and headings. In `generator` two use cases stand for five,
because the templates name them alike; `error` is a domain whose handler file every handler shares,
`order` any other; a removal, an addition and a rewiring is what it takes to break and mend a
tree. A fourth command, with `order` alone, was checked once and gave nothing new.

The theorems do not depend on any of these bounds.

*Fairness.* `Serve(r)` and `Execute(o)` are weakly fair: net/http gives each request a
goroutine, its handlers return, and go-redis bounds each command by its timeouts. Nothing else is
fair there: no entry need run out and no late command arrive. In the life cycle, goroutines and the
timer are fair, and so is a stopping server in closing each connection that carries nothing
(`HangUp`); no handler need return, of HTTP or of an RPC, and failures, signals and clients need not
come. The other modules state safety only: their commands and
requests run straight through, and nothing waits for anything.

## Proofs

Each theorem holds for every value of the constants that satisfies the module's named
assumption (`IdempotencyAssumption`, `RepositoryAssumption`, `UseCaseAssumption`,
`LifecycleAssumption`, `FilesAssumption`, `DecisionsAssumption`, `RoleApiAssumption`,
`CallsAssumption`, `IndexAssumption`, `GeneratorAssumption`, `FormsAssumption`,
`QueriesAssumption`): these say that markers like
`NoEntry` or `NoKey` are distinct from the data, that tables map what they should, that a create
call comes with a fresh id and all its fields, that the table of roles starts finite and there are
finitely many processes, that a skill is no memory, and that no use case is named like another
part of a domain and no new domain like a directory that is there, that the lines of a specification
have the fields of their kind, and that a query has the limits the commands insist on and asks
finite indexes, that of skills with one row per path. TLC evaluates them in every run.

**`IdempotencyProofs`.** `IInv` strengthens the type invariant by: an attempt that holds the
lock is keyed (`LockedSane`); one that runs keyed and without a lock has waived its key
(`BareWaived`); a handler that wrote and answered 5xx has waived its key (`ReturnedSane`);
while a key is not waived, whatever attempt wrote for it or may still write is the one its
entry names (`Owned`); a COMPLETED entry records the lock-holding attempt's body and non-5xx
code (`CompletedSane`); so does a replay (`ReplaySane`). What a late copy may do is covered by the
same parts: a late `SET NX` fills an absent key, which while not waived nobody has executed, and a
late `SET` or `DEL` that meets another claim waives the key. `Owned` carries the argument:
`EffectOncePerKey`, `SafeToRetry` and `OnlyOwnerChangesEntry` follow from it, since only one
attempt can be named. `Refinement` maps every step to a step of `OncePerKey` or to a stutter.

**`UserUseCasesProofs`.** `IInv` adds: what a call has established where it stands (a valid
id, a row read, a user that existed: `Established`), a create that has not inserted owns a key
nobody has used (`NewKeys`), cached rows and rows a Get has in hand were committed for their
user (`CacheSound`, `RowsSound`), a process's flight table holds exactly its fetching calls and
nobody waits for a key that is not in it (`FlightsSound`), and `StaleOnlyByRace` itself. Rows
stay committed because the log only grows, which is the reason for modelling the table by its
history.

**`ServerLifecycleProofs`.** `IInv` says which states of servers, waiter and `main` occur
together: once `Wait` has returned the three goroutines are over (`WoundDown`), the waiter's
progress implies idle requests or a passed deadline (`Drained`), a server is closed only by the
waiter (`ClosedByWaiter`), which requests are cut and by whom (`CutsKnown`), `cancelled` iff a
server failed or the gRPC one came too late (`ErrorsKnown`), and nothing runs before `Launch`
(`NotLaunched`). While the gRPC server has not served, no RPC has been sent (in `Drained`): hence
the exit with 1 that `CleanStop` allows has harmed nobody.

**`LearningDecisionsProofs`.** `IInv` adds: where a command stands tells its kind and that its copy
has a name (`PlacesSane`); a logged move was made by a command that is over (`MoverOver`), so
nobody but a colliding mover can still write its copy; hence that copy, while it exists, holds
the text in the log (`CopySound`), as it does for a mover not yet logged (`MoverSound`); a rollback
works from a logged move and holds its text (`RollbackSound`); and a copy is gone for good once a
rollback has removed it, which only one can (`GoneSound`). A first set of lemmas says once what a
step can do (`StepsAlone`, `KeepsAim`, `Arrives`, `LogGrows`, `CopiesChange`, `Begins`); each part of
the invariant is then preserved by a short argument from these instead of one over 35 actions.
The two action properties speak of a command that ran alone, and rest on a second invariant,
`AInv`: whoever overlaps is marked (`OverlapsMarked`), the undo holds what the command found
(`UndoSound`), and a command that is not marked still knows where each text is, because nobody
else has written since (`AloneSound`). From it follow `RecordIsAtomic`, with what failed writes
and undos leave, and `TextSurvives`.

**`RoleApiProofs`.** `IInv` adds: a request that has not ended has stored nothing, and one past
admission, or answered by its use case, was authentic (`Unfinished`); every row comes from an insert or a seed, a deleted one
never comes back, and names and ids are unique on the writer, whose rows the reader shares when it
is no replica (`Table`); answers agree with `stored` and `gone` (`Answers`). Besides the invariants
it proves for all inputs that the offset of an RPC never wraps around (`RpcOffsetNeverWraps`), and
that both transports blame the same side for an error (`TransportsAgree`) and admit the same
credentials (`TransportsAuthenticateAlike`). For `PagesPartitionTheTable`, `PInv` says that tables
are finite and that a listing is a page of what its SELECT saw. Where no two roles are of one time
a table has one order, in which a role stands at its rank, the number of roles that are not older
(`OrderRanks`); a page is then an interval of ranks, and intervals one after the other are disjoint
and cover the table.

**`LearningIndexProofs`.** `IInv` has three independent parts over one description of what a step
makes of its process. *Dates:* no command outlives the days it may take (`Timely`) and a reported
use is no younger than its row says by more than that (`UsesAreDated`); hence `ProposedIsUnused`.
*Counting:* for `NudgesCountLoops`, loops that have their count and have yet to look at it hold counts
that differ (`CountsDiffer`); as long as nobody has signalled, the loops that ended and the counts
below the threshold that are still held are together fewer than the threshold (`LoopsBelow`), so
that they cannot have reached it unseen. *Progress:* `Undisturbed` says of a reindex that nothing
has interfered with how much of the index it has brought up to date by each pc: what it has read
mirrors its file (`Reading`), no orphan is left among the skills, then among the memories
(`Pruning`, `Checking`), and at its end the whole index is the mirror of the disk unless a file or
an orphan stopped it (`Ended`), which is `IndexMirrorsDisk`.

**`GeneratorProofs`.** `IInv` says which texts a file may have (`TreeSane`); what each step of `new` has
made of every file and of the wiring (`NewSteps`); that wiring just regenerated is what a scan of
the tree yields (`WiringFresh`), that no wiring names an unknown domain or use case (`InfosKnown`), that
a domain whose package has a file has its directory (`DirsHold`); and
`CopiesKept`, the one that is not obvious: an interrupted removal of a shipped domain has taken its
entity, filter or value objects before anything else, so as long as these are the copies, the
rest of the domain is the copy too. Without it a domain of which some files were lost could count as complete.
`NewBuildsWithExamples` follows from `NewSteps` at the last phase; `WiringMends` because any domain
that the scan finds wireable compiles (`WholeCompiles`, `DetectedIsConstructible`); and
`CommandsKeepBuilding` because a tree that builds has its examples (`BuildsKeepsExamples`) and a
command leaves alone what the domains it was not about need (`OthersStay`, `WiringStays`).

**`ToolsProofs`** is about `SpecLint` and `LearningExtract`, where folds and recursive functions
do the work. What they compute is proved by induction: as `<` is well-founded on `Nat`, numbers
that lacked a property would have a least one (`Induct`, `Along`). For each fold there is a lemma
that names its intermediate values, an instance of `FoldSteps` (`WithinFolds`, `VisitDepsFolds`,
`CellsFold`, `MergeFolds`, `TakeFolds`, ...), and an invariant is carried along them.

- *Reading.* `LintRead` says that what the linter has read is a model (`IsModel`), and a finished one
  yields `errors` and `exit` by `validate`; every kind of line preserves it (`LineKeepsModel`).
  `CleanSpecTracesRequirements` and `CleanSpecRunsInBatches` follow, as an exit of 0 says that every
  rule found nothing (`CleanSpec`); of the second the step that is not obvious is from one listing
  in all batch lines to one batch, and from no file claimed twice to disjoint files.
- *Searching.* `DfsCorrect` is an induction over the depth: a call on a white node, with as many
  levels left as there are white nodes, either reports a cycle that exists or leaves a colouring in
  which black nodes depend on black ones only and form no cycle (`BlackIsDone`) and the gray ones are
  as before (`Post`). Gray nodes lie on a path to the node that is searched, so that meeting one is
  meeting a cycle (`Pre`); between two dependencies, `Between` says how far the loop has come. Without
  a cycle all tasks end up black: hence `DagCheckIsExact` both ways.
- *Learning.* For `LearnedTasksAreDeclared`, `SideBySide` relates the two readers of one document
  line by line: each remembered task was read, and the block that is open belongs to the task that is.
- *Ranking.* A list is `Ranked` when nothing stands behind a worse match, and no match twice.
  Inserting keeps that (`InsertRanks`), so an index answers with its best matches (`IndexAnswersBest`:
  applying LIMIT before the minimal score loses nothing), and merging ranks them all (`MergeRanks`).
  `CutsLate` is why `recall` is right: whatever a limit per index has cut off is no better than top-k
  others that are left, so `take` would not have come to it (`TheBestAreTaken`). For `similar`, the
  one place more that it asks for makes up for the target it takes out (`SimilarAnswers`).
- *Edit distance.* `CellByCell` says of the row half overwritten which cells are new and which old;
  row by row that is the table of the recurrence (`RowsTabulate`), which is unique and symmetric, so
  that swapping the texts is harmless (`LevenshteinIsExact`).
- *Mining.* For `CandidatesCountWindows`, `Traces` says that a sequence lists a set of things that
  happened in an order of theirs; that is kept by what the parsers do with sequences, selecting
  (`within`), flattening and sorting by time. The log is read line by line: `CommitRead` carries the
  parser's state over the lines of one commit, the header of a commit without files included, and
  `CommitsRead` over the commits. `Agree(S, P)` relates the sequences extracted to the sources as
  they were; it holds of the three kinds (`CommitsAgree`, `ToolsAgree`, `SpecsAgree`), for tools
  because the rank of a use is the number of earlier ones. Then counting: folding the windows
  into a tally yields the same whatever order the fold takes them in (`AllTallied`), and windows
  correspond to occurrences one to one (`WindowsOccur`), hence `MinedCounts` of any kind. That the
  extract still works on the history it began with is the invariant `Minable`.
- *Extracting.* `TablesFollowTheFile` follows from `Persisting`: while an extract writes, the file is
  what it mined, and every candidate it has done with has its row and its audit line; `Backed` adds
  that every row says what some file said, also after a kill and across extracts. It holds whatever
  the mining finds, except that its kinds are the three by which the file is ordered. `Answered`
  keeps with an answer the query and the finite set of patterns it was given over, from which
  `SimilarIsExact` and `RecallReturnsTheBest` follow by the lemmas above.

Each has `TypeCorrect` (in `GeneratorProofs` part of `IInv`, in `ToolsProofs` of `LintRead` and
`Persisting`) and one theorem per safety property its runs check; all but
`RoleApiProofs`, whose parts are lemmas of their own, state `Inductive` as a theorem.

*Only model-checked:*
- the liveness properties (`EveryRequestAnswered`, `EveryCallReturns`, `SignalStops`): fairness and ENABLED are beyond the proof system;
- the violation, which is a counterexample.

## Disagreements with the documentation

The run `idempotency_unlock_race` shows one as a counterexample:

- *Idempotency.* "ensures idempotency for POST requests" (`middleware/idempotency.go:28`). An
  attempt that was refused by a lock and finds the entry gone runs without a lock. The comment
  expects an expiry; a 5xx of the holder is enough. No fault is needed.

The others met while modelling are behaviours of the models that properties name as excuses or do
not speak of:

- *Idempotency.* A response of 500 or more deletes the lock
  (`docs/capabilities/idempotency.md:29`, IDEM-REQ-7). A panic is answered 500 and skips that
  step (`HandlerPanics`): the key is refused until the lock's TTL. "Unlock removes the key (used when
  the handler fails with 5xx)" (`redisstore/store.go:83`): sent again by go-redis it may remove the
  next owner's entry, after which a third attempt writes as well.
- *Users.* Update applies partial changes (`usecases/user/update.go:41`), but it writes every column
  (`Save`); a delete in between is undone although it answered 200.
- *Life cycle.* `Wait for signal or server error` (`cmd/api/server.go:289`). On a server error
  the waiting goroutine returns nil and stops nothing, so `Start` does not return and no signal is
  read; `docs/guides/grpc.md:988` stops both servers. `GracefulStop` comes without a deadline
  (`server.go:310`), so that one stream that does not end keeps the process up.
- *Listings.* A read-only transaction is to keep the total consistent with the page
  (`repository/role.go:129-131`), but at READ COMMITTED each statement has a snapshot of its own
  (`Counts`, `Fetches`).
- *Decisions.* "a pending row points at the file as it exists"
  (`tools/learn/cmd_refine_apply.go:83`). The row is marked after the move, so a crash in between
  leaves a pending row whose file is only under `_deprecated/`; `apply-decision` cannot find it.
- *Record.* "DB inserts succeeds but file write fails → no row, no file (clean)"
  (`cmd_record_decision.go:134`). `os.WriteFile` truncates before it writes, and the undo is armed
  only after the write: a failed write leaves no row but a torn file (`Torn`), of `update` in the
  place of the old text. "exactly one live copy under any failure mode"
  (`cmd_apply_decision.go:214-217`): not when the process dies while it stamps the header, which leaves none, nor
  when the fallback copies and does not come to remove, which leaves two.
- *Index.* Re-running on an unchanged tree is a no-op (help of `reindex`, `cmd_reindex.go:60-61`), but
  each upsert renews `indexed_at` (`store.go:275`, `:292`), from which unused skills are aged. A
  deprecated copy carries a time stamp in its name, and reindex looks for its counterpart without one; a
  row that was used and lost its file fails every later reindex.
- *Extraction.* "empty commits are still valid" (comment of `parseNumstat`), but git prints no
  blank line after a commit without files: the parser takes the next header for its files.
  `candidates.jsonl` is said to be identical on a rerun (`cmd_extract.go:56-57`), but the tasks of
  specs are stamped with the time of parsing, which also puts them outside `--since`. Tokens of one
  source are "chronologically-ordered" (`cmd_extract.go:306`), but `sort.Slice` is not stable: the
  uses of one transcript line share its time, and in a session of more than twelve uses that is not in
  order they may change places.
- *Recall.* All patterns are answered with an empty path and summary, and count towards top-k. The
  target of `similar` is "always excluded" (`cmd_similar.go:97`), but only if the caller spells its
  path as the index does.
- *Spec validator.* Duplicate task ids and batch numbers pass. Batch lines count in fences and in
  any section; a fence opened inside a comment hides the end of the comment. The guide says that
  three rules apply only to specs with a slug; the code runs them always. The ingester takes
  "(none — execution only)" for a file. It takes `- [x] TASK-1 title` for a task, the form its header
  comment names, which declares nothing to the linter, whose tasks have a colon after the id; a task
  that is indented is one for the linter only, and the ingester adds its files to those of the task
  before it. A list of files without commas is one file to the ingester.
- *Generator.* `new` without the examples, or with MySQL or SQLite, never leaves a tree that builds;
  the failing smoke build is a warning and success is printed. The prompt offers `sqlite3`, which
  is no driver's name, so that PostgreSQL stays. `wiring` assumes every feature, sets the driver
  back to PostgreSQL and drops the gRPC server; `docs/guides/template-cli.md:251` and `:365-367`
  prescribe it after commands whose effects it does not wire or cannot mend. Migrations stay when a
  domain is removed, although `:497` says `--no-examples` drops them, so removing and adding a
  domain gives two that create one table.

## What is not modelled

- *Configuration, logging and masking, telemetry, bootstrap, migrations:* no state a decision
  depends on; regular expressions and environment parsing are not what TLC explores well.
  `Config.Validate` appears as a guard of the life cycle.
- *Health checks:* read-only and sequential; what can go wrong is their duration.
- *Handlers:* rendering and metrics. The listing of users is that of roles.
- *Connecting to Redis and its nil client:* start-up I/O; its effect is `WithCache = FALSE`.
- *The content of stored answers, names and tokens:* data without control.
- *Generator:* a copy that is interrupted, a source file that is torn by an interrupted add or
  switch (subsets of complete files are modelled), the rewriting of module path and service name, prompts, the search for the
  template, `doctor`, migration files, and whether the tests of a generated tree compile.
- *Learning loop:* sanitising of text, `init`, `stats`, `smoke`, `audit-skills-prep`,
  `validate-skill`; titles, tags and links of the index. The sort of recall is taken as stable,
  which Go's `sort.Slice` is up to twelve elements.
- *Spec validator:* the two rules that only warn and the subcommands that print what they read.
- *Load-test tooling, generated docs:* sequential, without state.
- `FindByEmail` has no caller; `PingAll` and pool tuning have no effect on the models.

## Plan

Done: the components above, and a theorem for every safety property that a run checks.

Next: what more of the generator's rewriting (module path, service name) is worth a model.
