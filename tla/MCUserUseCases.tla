--------------------------- MODULE MCUserUseCases ---------------------------
(***************************************************************************)
(* Instances of UserUseCases: one active user known under two spellings of *)
(* its id, one id that no row has, one string that is no UUID.             *)
(***************************************************************************)
EXTENDS UserUseCases, TLC

CONSTANTS o1, o2, o3, o4, p1, p2, u1, u2, id1, alias1, id2, junk, n1, n2, e1, e2

MCUserOf == (id1 :> u1) @@ (alias1 :> u1) @@ (id2 :> u2) @@ (junk :> NoUser)

\* All calls but one run in one process.
MCInstanceOf == [o \in Ops |-> IF o = o1 THEN p2 ELSE p1]

MCTables == {(u1 :> [name |-> n1, email |-> e1, active |-> TRUE]) @@ (u2 :> NoRow)}

A(kind, id, name, email) == [kind |-> kind, id |-> id, name |-> name, email |-> email]

\* What calls can do to each other on one user, beside a Get of another.
MCRaces == {
  A("get", id1, Absent, Absent), A("get", alias1, Absent, Absent),
  A("get", id2, Absent, Absent),
  A("update", id1, n2, Absent), A("delete", id1, Absent, Absent) }

\* Every way a call may end.
MCAllCalls == {
  A("get", id1, Absent, Absent), A("get", alias1, Absent, Absent),
  A("get", junk, Absent, Absent),
  A("update", id1, n2, Absent), A("update", id1, Absent, e2),
  A("update", id1, n1, BadEmail), A("update", id2, n2, Absent),
  A("delete", id1, Absent, Absent),
  A("create", id2, n1, e1), A("create", id2, n1, e2), A("create", id2, n1, BadEmail) }

Perms == Permutations(Ops \ {o1})
=============================================================================
