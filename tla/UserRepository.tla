--------------------------- MODULE UserRepository ---------------------------
(***************************************************************************)
(* The users table as internal/infrastructure/db/postgres/repository/      *)
(* user.go reads and writes it: statements that change a row go to the     *)
(* writer pool, the SELECT by id to the reader pool.  With a replica       *)
(* configured (pkg/database) the reader trails the writer and replays its  *)
(* commits in order; without one the two pools are the same database.      *)
(*                                                                         *)
(* Every statement runs in a transaction of its own, so a committed table  *)
(* is one element of log: the last one is what the writer holds, and       *)
(* log[applied] what the replica holds.                                    *)
(***************************************************************************)
EXTENDS Integers, Sequences

CONSTANTS
  Users,         \* the primary keys
  Names,
  Emails,        \* well-formed e-mail addresses
  NoRow,         \* sql.ErrNoRows
  Replicated,    \* DB_REPLICA_ENABLED
  InitialTables  \* the tables the service may find when it starts

VARIABLES
  log,           \* the tables committed so far, oldest first
  applied        \* how many of them the replica has replayed

Row == [name : Names, email : Emails, active : BOOLEAN]
Table == [Users -> Row \cup {NoRow}]

ASSUME RepositoryAssumption ==
  /\ NoRow \notin Row
  /\ Replicated \in BOOLEAN
  /\ InitialTables \subseteq Table

-----------------------------------------------------------------------------
Writer == log[Len(log)]
Reader == IF Replicated THEN log[applied] ELSE Writer

\* u's row was ever committed with these columns.
Committed(u, row) == \E i \in 1..Len(log) : log[i][u] = row

\* The UNIQUE constraint on users.email; soft-deleted rows count.
Taken(u, email) == \E v \in Users \ {u} :
  Writer[v] # NoRow /\ Writer[v].email = email

Commit(u, row) ==
  /\ log' = Append(log, [Writer EXCEPT ![u] = row])
  /\ UNCHANGED applied

\* INSERT, unless SQLSTATE 23505.
InsertRow(u, name, email) ==
  /\ ~Taken(u, email)
  /\ Commit(u, [name |-> name, email |-> email, active |-> TRUE])

\* UPDATE of every column but the key, WHERE id = :id.  Rows are never
\* removed, so the caller that has read one finds one.
UpdateRow(u, row) ==
  /\ ~Taken(u, row.email)
  /\ Commit(u, row)

\* UPDATE ... SET active = false WHERE id = $1 AND active = true.
Deletable(u) == Writer[u] # NoRow /\ Writer[u].active
SoftDelete(u) ==
  /\ Deletable(u)
  /\ Commit(u, [Writer[u] EXCEPT !.active = FALSE])

Replicate ==
  /\ Replicated
  /\ applied < Len(log)
  /\ applied' = applied + 1
  /\ UNCHANGED log
=============================================================================
