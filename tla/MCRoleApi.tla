----------------------------- MODULE MCRoleApi -----------------------------
(***************************************************************************)
(* Model values and inputs for checking RoleApi.                           *)
(***************************************************************************)
EXTENDS RoleApi, TLC

CONSTANTS o1, o2, o3, s1, s2, n1, n2

Seed(id, name, at) == [id |-> id, name |-> name, at |-> at]
MCRoles == {{Seed(s1, n1, 2)}, {Seed(s1, n1, 2), Seed(s2, n2, 3)}}

Ask(op, via) == [op |-> op, via |-> via, creds |-> "good", body |-> "small",
                 name |-> Empty, target |-> Junk, page |-> 1, limit |-> 1]

\* Writes by both transports, and what admission refuses.
MCWrites ==
     {[Ask("create", "http") EXCEPT !.name = n] : n \in {n1, n2}}
  \cup {[Ask("create", "grpc") EXCEPT !.name = n] : n \in {n1, Empty, Long}}
  \cup {[Ask("create", "http") EXCEPT !.name = n1, !.body = b] : b \in {"declaredBig", "hiddenBig"}}
  \cup {[Ask("create", v) EXCEPT !.name = n1, !.creds = "bad"] : v \in {"http", "grpc"}}
  \cup {[Ask("delete", "http") EXCEPT !.target = t] : t \in {s1, o1, Junk}}
  \cup {[Ask("delete", "grpc") EXCEPT !.target = s1]}

\* Listings of both transports; page 500 of 2 wraps around 512.
MCLists ==
     {[Ask("list", "http") EXCEPT !.page = p] : p \in {0, 1, 2}}
  \cup {[Ask("list", "http") EXCEPT !.page = 500, !.limit = 2],
        [Ask("list", "http") EXCEPT !.name = n1, !.limit = 0],
        [Ask("list", "grpc") EXCEPT !.page = 2]}

MCCalls == MCWrites \cup MCLists

\* o1 is named in a call, the others are interchangeable.
Perms == Permutations(Ops \ {o1})
=============================================================================
