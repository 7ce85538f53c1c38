----------------------------- MODULE MCGenerator -----------------------------
(***************************************************************************)
(* Generator with two use cases, of which the copied role domain has one,  *)
(* and two names to add: an ordinary one, and "error", whose handler file  *)
(* is the one every handler shares. Every combination of features is asked *)
(* for with PostgreSQL, two of them with MySQL.                            *)
(***************************************************************************)
EXTENDS Generator

Choice(redis, idempotency, auth, examples, db) ==
  [redis |-> redis, idempotency |-> idempotency, auth |-> auth, examples |-> examples, db |-> db]

MCChoices ==
  {Choice(r, i, a, e, "postgres") : r \in BOOLEAN, i \in BOOLEAN, a \in BOOLEAN, e \in BOOLEAN}
    \cup {Choice(TRUE, TRUE, TRUE, e, "mysql") : e \in BOOLEAN}
=============================================================================
