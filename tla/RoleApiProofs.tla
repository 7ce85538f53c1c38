--------------------------- MODULE RoleApiProofs ---------------------------
(***************************************************************************)
(* Proofs about RoleApi, for any requests, tables and configurations.      *)
(***************************************************************************)
EXTENDS RoleApi, FiniteSetTheorems, SequenceTheorems, TLAPS

Authentic(o) == config = "off" \/ (config = "on" /\ call[o].creds = "good")

\* What a request may have done before it ends.
Unfinished == \A o \in Ops :
  /\ pc[o] # "done" => outcome[o] = "none" /\ o \notin stored
  /\ pc[o] \notin {"received", "done"} => Authentic(o)
  /\ pc[o] = "done" /\ outcome[o] \notin Refusals => Authentic(o)
  /\ o \in stored \/ outcome[o] \in {"deleted", "listed"} => outcome[o] \notin Refusals

\* Where rows come from, and that a deleted role never comes back.
Table ==
  /\ \A r \in roles \cup reader : r.id \in stored \cup Seeds
  /\ \A r \in roles : r.id \notin gone
  /\ gone \subseteq stored \cup Seeds
  /\ \A r, s \in roles : r.name = s.name \/ r.id = s.id => r = s
  /\ ~replicated => reader = roles
  /\ \A o \in Ops : old[o] \subseteq gone

Answers ==
  /\ \A o \in Ops : outcome[o] = "created" => o \in stored
  /\ \A o \in stored :
       outcome[o] = "created" \/ ("ambiguous" \in Faults /\ outcome[o] = "internal")
  /\ \A o \in Ops : outcome[o] = "deleted" => call[o].target \in gone
  /\ \A o, p \in Ops :
       outcome[o] = "deleted" /\ outcome[p] = "deleted" /\ call[o].target = call[p].target
       => o = p

IInv == TypeOK /\ Unfinished /\ Table /\ Answers /\ ConflictsAreReal

-----------------------------------------------------------------------------
LEMMA InitIInv == Init => IInv
BY RoleApiAssumption, CallsAssumption
DEF Init, IInv, TypeOK, Unfinished, Table, Answers, ConflictsAreReal, Outcomes, Refusals, Row, RoleIds

LEMMA TypeStep == TypeOK /\ Next => TypeOK'
<1> SUFFICES ASSUME TypeOK, Next PROVE TypeOK'
  OBVIOUS
<1> USE RoleApiAssumption
<1>1. CASE Replicate
  BY <1>1 DEF Replicate, TypeOK, listing, history
<1>2. ASSUME NEW o \in Ops, Step(o) PROVE TypeOK'
  <2> USE DEF TypeOK, Outcomes, Refusals, Failures, listing, history, End, Goto
  <2>1. CASE Refuse(o)
    BY <2>1 DEF Refuse, Admission, TooLarge, ServiceKeyAuth, validateAuth
  <2>2. CASE Admit(o)
    <3>1. call[o].op \in {"create", "delete", "list"}
      BY CallsAssumption DEF Call
    <3> QED BY <2>2, <3>1 DEF Admit
  <2>3. CASE FindsDuplicate(o) \/ InsertRefused(o)
    <3>1. PICK r \in roles \cup reader : met' = [met EXCEPT ![o] = r.id]
      BY <2>3 DEF FindsDuplicate, InsertRefused, CollidesIn
    <3>2. r.id \in RoleIds
      BY DEF Row
    <3>3. met' \in [Ops -> RoleIds]
      BY <3>1, <3>2
    <3> QED BY <2>3, <3>3 DEF FindsDuplicate, InsertRefused
  <2>4. CASE FindsNone(o) \/ InsertTooLong(o) \/ NegativeOffset(o) \/ DatabaseFails(o) \/ Panics(o)
    BY <2>4 DEF FindsNone, InsertTooLong, NegativeOffset, DatabaseFails, Panics
  <2>9. CASE RemovesNothing(o)
    BY <2>9 DEF RemovesNothing
  <2>5. CASE Inserts(o)
    <3>1. call[o].name \in AnyName /\ o \in RoleIds
      BY CallsAssumption DEF Call, RoleIds
    <3>2. PICK t \in Times : Commit(roles \cup {[id |-> o, name |-> call[o].name, at |-> t]})
      BY <2>5 DEF Inserts, InsertRow
    <3>3. [id |-> o, name |-> call[o].name, at |-> t] \in Row
      BY <2>5, <3>1 DEF Inserts, Row
    <3>4. roles' \in SUBSET Row /\ reader' \in SUBSET Row
      BY <3>2, <3>3 DEF Commit
    <3> QED BY <2>5, <3>4 DEF Inserts, InsertRow
  <2>6. CASE Removes(o)
    <3>1. call[o].target \in RoleIds
      BY <2>6 DEF Removes, Row
    <3>2. roles' \in SUBSET Row /\ reader' \in SUBSET Row
      BY <2>6 DEF Removes, Commit
    <3> QED BY <2>6, <3>1, <3>2 DEF Removes
  <2>7. CASE Counts(o)
    BY <2>7 DEF Counts, Matching
  <2>8. CASE Fetches(o)
    BY <2>8 DEF Fetches, Matching
  <2> QED BY <1>2, <2>1, <2>2, <2>3, <2>4, <2>5, <2>6, <2>7, <2>8, <2>9 DEF Step
<1> QED BY <1>1, <1>2 DEF Next

\* A step of one request ends it at most once and touches no other.
LEMMA StepFrame ==
  ASSUME TypeOK, NEW o \in Ops, Step(o)
  PROVE  /\ pc[o] # "done"
         /\ \A p \in Ops \ {o} : pc'[p] = pc[p] /\ outcome'[p] = outcome[p] /\ old'[p] = old[p]
                                 /\ met'[p] = met[p]
         /\ config' = config /\ replicated' = replicated /\ call' = call
<1> USE DEF TypeOK, End, Goto, listing, history
<1>1. CASE Refuse(o) \/ Admit(o)
  BY <1>1 DEF Refuse, Admit
<1>2. CASE FindsDuplicate(o) \/ FindsNone(o) \/ InsertRefused(o) \/ InsertTooLong(o)
  BY <1>2 DEF FindsDuplicate, FindsNone, InsertRefused, InsertTooLong, CollidesIn
<1>3. CASE Inserts(o) \/ Removes(o) \/ RemovesNothing(o)
  BY <1>3 DEF Inserts, InsertRow, Commit, Removes, RemovesNothing
<1>4. CASE Counts(o) \/ Fetches(o) \/ NegativeOffset(o) \/ DatabaseFails(o) \/ Panics(o)
  BY <1>4 DEF Counts, Fetches, NegativeOffset, DatabaseFails, Panics
<1> QED BY <1>1, <1>2, <1>3, <1>4 DEF Step

LEMMA UnfinishedStep == TypeOK /\ Unfinished /\ Next => Unfinished'
<1> SUFFICES ASSUME TypeOK, Unfinished, Next PROVE Unfinished'
  OBVIOUS
<1>1. CASE Replicate
  BY <1>1 DEF Replicate, Unfinished, Authentic, listing, history
<1>2. ASSUME NEW o \in Ops, Step(o) PROVE Unfinished'
  <2>0. /\ \A p \in Ops \ {o} : pc'[p] = pc[p] /\ outcome'[p] = outcome[p]
        /\ config' = config /\ call' = call
    BY <1>2, StepFrame
  <2>1. \A p \in Ops \ {o} : p \in stored' => p \in stored
    BY <1>2 DEF Step, Refuse, Admit, FindsDuplicate, FindsNone, Inserts, InsertRow, InsertRefused,
      InsertTooLong, Removes, RemovesNothing, Counts, Fetches, NegativeOffset, DatabaseFails, Panics,
      listing, history
  <2> DEFINE Good ==
    /\ pc'[o] # "done" => outcome'[o] = "none" /\ o \notin stored'
    /\ pc'[o] \notin {"received", "done"} => Authentic(o)
    /\ pc'[o] = "done" /\ outcome'[o] \notin Refusals => Authentic(o)
    /\ o \in stored' \/ outcome'[o] \in {"deleted", "listed"} => outcome'[o] \notin Refusals
  <2>2. Good
    <3> USE DEF TypeOK, End, Goto, listing, history, Refusals
    <3>1. CASE Refuse(o)
      BY <3>1 DEF Refuse, Admission, TooLarge, ServiceKeyAuth, validateAuth, Unfinished
    <3>2. CASE Admit(o)
      <4>1. call[o].op \in {"create", "delete", "list"}
        BY CallsAssumption DEF Call
      <4>2. Authentic(o)
        <5>1. config \in {"off", "unconfigured", "on"} /\ call[o].creds \in {"good", "bad"}
              /\ call[o].via \in {"http", "grpc"}
          BY RoleApiAssumption, CallsAssumption DEF Call
        <5> QED BY <3>2, <5>1 DEF Admit, Admission, TooLarge, ServiceKeyAuth, validateAuth, Authentic
      <4> QED BY <3>2, <4>1, <4>2 DEF Admit, Unfinished
    <3>3. CASE FindsDuplicate(o) \/ FindsNone(o) \/ InsertRefused(o) \/ InsertTooLong(o)
      BY <3>3 DEF FindsDuplicate, FindsNone, InsertRefused, InsertTooLong, Unfinished
    <3>4. CASE Inserts(o) \/ Removes(o) \/ RemovesNothing(o)
      BY <3>4 DEF Inserts, InsertRow, Commit, Removes, RemovesNothing, Unfinished
    <3>5. CASE Counts(o) \/ Fetches(o) \/ NegativeOffset(o)
      BY <3>5 DEF Counts, Fetches, NegativeOffset, Unfinished
    <3>6. CASE DatabaseFails(o) \/ Panics(o)
      BY <3>6 DEF DatabaseFails, Panics, Unfinished
    <3> QED BY <1>2, <3>1, <3>2, <3>3, <3>4, <3>5, <3>6 DEF Step
  <2> QED BY <2>0, <2>1, <2>2 DEF Unfinished, Authentic
<1> QED BY <1>1, <1>2 DEF Next

\* How a step changes the table: it does not, it inserts the request's own row
\* under a free name, or it deletes the target.
LEMMA TableStep ==
  ASSUME TypeOK, NEW o \in Ops, Step(o)
  PROVE \/ UNCHANGED <<roles, reader, stored, gone>>
        \/ /\ \E t \in Times : Commit(roles \cup {[id |-> o, name |-> call[o].name, at |-> t]})
           /\ ~NameTaken(roles, call[o].name)
           /\ stored' = stored \cup {o} /\ gone' = gone /\ old' = old
        \/ /\ Commit({r \in roles : r.id # call[o].target})
           /\ \E r \in roles : r.id = call[o].target
           /\ gone' = gone \cup {call[o].target} /\ stored' = stored /\ old' = old
<1>1. CASE Inserts(o)
  BY <1>1 DEF Inserts, InsertRow
<1>2. CASE Removes(o)
  BY <1>2 DEF Removes
<1>3. CASE ~(Inserts(o) \/ Removes(o))
  BY <1>2, <1>3 DEF Step, Refuse, Admit, FindsDuplicate, FindsNone, InsertRefused,
     InsertTooLong, RemovesNothing, Counts, Fetches, NegativeOffset, DatabaseFails, Panics,
     listing, history
<1> QED BY <1>1, <1>2, <1>3

LEMMA OldStep ==
  ASSUME TypeOK, NEW o \in Ops, Step(o), \A p \in Ops : old[p] \subseteq gone
  PROVE  \A p \in Ops : old'[p] \subseteq gone'
<1>1. gone \subseteq gone'
  BY TableStep
<1>2. old' = old \/ (old' = [old EXCEPT ![o] = gone])
  BY DEF Step, Refuse, Admit, FindsDuplicate, FindsNone, Inserts, InsertRefused,
     InsertTooLong, Removes, RemovesNothing, Counts, Fetches, NegativeOffset, DatabaseFails, Panics,
     listing, history
<1> QED BY <1>1, <1>2 DEF TypeOK

LEMMA TableInv == TypeOK /\ Unfinished /\ Table /\ Next => Table'
<1> SUFFICES ASSUME TypeOK, Unfinished, Table, Next PROVE Table'
  OBVIOUS
<1>1. CASE Replicate
  BY <1>1 DEF Replicate, Table, listing, history
<1>2. ASSUME NEW o \in Ops, Step(o) PROVE Table'
  <2>1. \A p \in Ops : old'[p] \subseteq gone'
    BY <1>2, OldStep DEF Table
  <2>2. replicated' = replicated /\ pc[o] # "done"
    BY <1>2, StepFrame
  <2>3. o \notin stored /\ o \notin Seeds
    BY <2>2, RoleApiAssumption DEF Unfinished
  <2>4. CASE UNCHANGED <<roles, reader, stored, gone>>
    BY <2>1, <2>2, <2>4 DEF Table
  <2>5. ASSUME NEW t \in Times,
               Commit(roles \cup {[id |-> o, name |-> call[o].name, at |-> t]}),
               ~NameTaken(roles, call[o].name), stored' = stored \cup {o}, gone' = gone
        PROVE  Table'
    <3> DEFINE new == [id |-> o, name |-> call[o].name, at |-> t]
    <3>1. new.id = o /\ new.name = call[o].name
      OBVIOUS
    <3> HIDE DEF new
    <3>2. roles' = roles \cup {new} /\ reader' \in {reader, roles'}
          /\ (~replicated => reader' = roles')
      BY <2>5 DEF Commit, new
    <3>3. \A r \in roles' \cup reader' : r.id \in stored' \cup Seeds
      BY <2>5, <3>1, <3>2 DEF Table
    <3>4. \A r \in roles' : r.id \notin gone'
      BY <2>3, <2>5, <3>1, <3>2 DEF Table
    <3>5. \A r \in roles : r.id # o /\ r.name # call[o].name
      BY <2>3, <2>5 DEF Table, NameTaken
    <3>6. \A r, s \in roles' : r.name = s.name \/ r.id = s.id => r = s
      BY <3>1, <3>2, <3>5 DEF Table
    <3>7. gone' \subseteq stored' \cup Seeds
      BY <2>5 DEF Table
    <3> QED BY <2>1, <2>2, <3>2, <3>3, <3>4, <3>6, <3>7 DEF Table
  <2>6. ASSUME Commit({r \in roles : r.id # call[o].target}),
               \E r \in roles : r.id = call[o].target,
               gone' = gone \cup {call[o].target}, stored' = stored
        PROVE  Table'
    <3>1. roles' = {r \in roles : r.id # call[o].target} /\ reader' \in {reader, roles'}
          /\ (~replicated => reader' = roles')
      BY <2>6 DEF Commit
    <3>2. call[o].target \in stored \cup Seeds
      BY <2>6 DEF Table
    <3>3. \A r \in roles' \cup reader' : r.id \in stored' \cup Seeds
      BY <2>6, <3>1 DEF Table
    <3>4. /\ \A r \in roles' : r.id \notin gone'
          /\ \A r, s \in roles' : r.name = s.name \/ r.id = s.id => r = s
          /\ gone' \subseteq stored' \cup Seeds
      BY <2>6, <3>1, <3>2 DEF Table
    <3> QED BY <2>1, <2>2, <3>1, <3>3, <3>4 DEF Table
  <2> QED BY <1>2, TableStep, <2>4, <2>5, <2>6
<1> QED BY <1>1, <1>2 DEF Next
LEMMA AnswersStep == TypeOK /\ Unfinished /\ Table /\ Answers /\ Next => Answers'
<1> SUFFICES ASSUME TypeOK, Unfinished, Table, Answers, Next PROVE Answers'
  OBVIOUS
<1>1. CASE Replicate
  BY <1>1 DEF Replicate, Answers, listing, history
<1>2. ASSUME NEW o \in Ops, Step(o) PROVE Answers'
  <2>0. /\ \A p \in Ops \ {o} : outcome'[p] = outcome[p]
        /\ call' = call /\ outcome[o] = "none" /\ o \notin stored /\ stored \subseteq Ops
    BY <1>2, StepFrame DEF Unfinished, TypeOK
  <2>1. CASE Inserts(o)
    <3>1. stored' = stored \cup {o} /\ gone' = gone
          /\ (outcome'[o] = "created" \/ ("ambiguous" \in Faults /\ outcome'[o] = "internal"))
      BY <2>1 DEF Inserts, InsertRow, End, TypeOK
    <3> QED BY <2>0, <3>1 DEF Answers
  <2>2. CASE Removes(o)
    <3>1. stored' = stored /\ gone' = gone \cup {call[o].target} /\ call[o].target \notin gone
          /\ outcome'[o] \in {"deleted", "internal"}
      BY <2>2 DEF Removes, End, TypeOK, Table
    <3>2. \A p \in Ops \ {o} : outcome[p] = "deleted" => call[p].target # call[o].target
      BY <3>1 DEF Answers
    <3> QED BY <2>0, <3>1, <3>2 DEF Answers
  <2>3. CASE ~(Inserts(o) \/ Removes(o))
    <3>1. stored' = stored /\ gone' = gone
      BY <1>2, <2>3 DEF Step, Refuse, Admit, FindsDuplicate, FindsNone, InsertRefused,
        InsertTooLong, RemovesNothing, Counts, Fetches, NegativeOffset, DatabaseFails, Panics,
        listing, history
    <3> USE DEF TypeOK, End, Goto
    <3>2. Admission(o) \in {"tooLarge", "unauthorized", "unavailable", "badRequest", "ok"}
      BY DEF Admission, TooLarge, ServiceKeyAuth, validateAuth
    <3>3. outcome'[o] \notin {"created", "deleted"}
      <4>1. CASE Refuse(o) \/ Admit(o)
        BY <2>0, <3>2, <4>1 DEF Refuse, Admit
      <4>2. CASE FindsDuplicate(o) \/ FindsNone(o) \/ InsertRefused(o) \/ InsertTooLong(o)
                 \/ RemovesNothing(o) \/ Counts(o)
        BY <2>0, <4>2 DEF FindsDuplicate, FindsNone, InsertRefused,
          InsertTooLong, RemovesNothing, Counts
      <4>3. CASE Fetches(o) \/ NegativeOffset(o) \/ DatabaseFails(o) \/ Panics(o)
        BY <2>0, <4>3 DEF Fetches, NegativeOffset, DatabaseFails, Panics
      <4> QED BY <1>2, <2>3, <4>1, <4>2, <4>3 DEF Step
    <3> QED BY <2>0, <3>1, <3>3 DEF Answers
  <2> QED BY <2>1, <2>2, <2>3
<1> QED BY <1>1, <1>2 DEF Next
LEMMA ConflictStep == TypeOK /\ Unfinished /\ Table /\ ConflictsAreReal /\ Next => ConflictsAreReal'
<1> SUFFICES ASSUME TypeOK, Unfinished, Table, ConflictsAreReal, Next PROVE ConflictsAreReal'
  OBVIOUS
<1>1. CASE Replicate
  BY <1>1 DEF Replicate, ConflictsAreReal, listing, history
<1>2. ASSUME NEW o \in Ops, Step(o) PROVE ConflictsAreReal'
  <2>0. /\ \A p \in Ops \ {o} : outcome'[p] = outcome[p] /\ old'[p] = old[p] /\ met'[p] = met[p]
        /\ call' = call /\ replicated' = replicated /\ outcome[o] = "none" /\ o \notin stored
    BY <1>2, StepFrame DEF Unfinished
  <2>1. stored \subseteq stored'
    BY <1>2, TableStep
  <2> DEFINE Real == call[o].op = "create" /\ outcome'[o] = "conflict" =>
                       /\ met'[o] \in stored \cup Seeds
                       /\ met'[o] # o
                       /\ ~replicated => met'[o] \notin old'[o]
  <2>2. Real
    <3>1. CASE FindsDuplicate(o) \/ InsertRefused(o)
      <4>1. PICK r \in roles \cup reader :
              /\ met' = [met EXCEPT ![o] = r.id]
              /\ ~replicated => r \in roles
        BY <3>1 DEF FindsDuplicate, InsertRefused, CollidesIn, Table
      <4>2. met'[o] = r.id /\ old'[o] = old[o] /\ old[o] \subseteq gone
        BY <3>1, <4>1 DEF FindsDuplicate, InsertRefused, TypeOK, Table
      <4>3. r.id \in stored \cup Seeds /\ o \notin stored \cup Seeds
        BY <2>0, RoleApiAssumption DEF Table
      <4> QED BY <4>1, <4>2, <4>3 DEF Table
    <3>2. CASE ~(FindsDuplicate(o) \/ InsertRefused(o))
      <4>1. Admission(o) \in {"tooLarge", "unauthorized", "unavailable", "badRequest", "ok"}
        BY DEF Admission, TooLarge, ServiceKeyAuth, validateAuth
      <4>2. outcome'[o] # "conflict"
        <5> USE DEF TypeOK, End, Goto
        <5>1. CASE Refuse(o) \/ Admit(o)
          BY <2>0, <4>1, <5>1 DEF Refuse, Admit
        <5>2. CASE FindsNone(o) \/ Inserts(o) \/ InsertTooLong(o) \/ Removes(o) \/ RemovesNothing(o)
          BY <2>0, <5>2 DEF FindsNone, Inserts, InsertTooLong, Removes, RemovesNothing
        <5>3. CASE Counts(o) \/ Fetches(o) \/ NegativeOffset(o) \/ DatabaseFails(o) \/ Panics(o)
          BY <2>0, <5>3 DEF Counts, Fetches, NegativeOffset, DatabaseFails, Panics
        <5> QED BY <1>2, <3>2, <5>1, <5>2, <5>3 DEF Step
      <4> QED BY <4>2
    <3> QED BY <3>1, <3>2
  <2> QED BY <2>0, <2>1, <2>2 DEF ConflictsAreReal
<1> QED BY <1>1, <1>2 DEF Next
LEMMA SpecIInv == Spec => []IInv
<1>1. Init => IInv
  BY InitIInv
<1>2. IInv /\ [Next]_vars => IInv'
  <2> SUFFICES ASSUME IInv, [Next]_vars PROVE IInv'
    OBVIOUS
  <2>1. CASE Next
    BY <2>1, TypeStep, UnfinishedStep, TableInv, AnswersStep, ConflictStep DEF IInv
  <2>2. CASE UNCHANGED vars
    BY <2>2 DEF vars, IInv, TypeOK, Unfinished, Authentic, Table, Answers, ConflictsAreReal
  <2> QED BY <2>1, <2>2
<1> QED BY <1>1, <1>2, PTL DEF Spec

-----------------------------------------------------------------------------
(***************************************************************************)
(* Pages                                                                   *)
(***************************************************************************)
\* The place of a role in the listing of a table: how many are not older.
Rank(table, r) == Cardinality({x \in table : x.at >= r.at})
Distinct(table) == \A r, s \in table : r.at = s.at => r = s

\* The tables are finite, and a listing shows a page of what its SELECT saw.
FiniteTables == IsFiniteSet(roles) /\ IsFiniteSet(reader)
PageTaken(o) ==
  /\ IsFiniteSet(paged[o])
  /\ Offset(call[o]) >= 0
  /\ \E s \in Orders(paged[o]) : rows[o] = LimitOffset(s, call[o])
PagesTaken == \A o \in Ops : outcome[o] = "listed" => PageTaken(o)

PInv == FiniteTables /\ DOMAIN rows = Ops /\ PagesTaken

\* Where no two roles are of one time there is only one order: each role is at
\* the place of its rank.
LEMMA OrderRanks ==
  ASSUME NEW table, IsFiniteSet(table), \A r \in table : r.at \in Int, Distinct(table),
         NEW s \in Orders(table), NEW i \in 1..Cardinality(table)
  PROVE  s[i] \in table /\ Rank(table, s[i]) = i
<1> DEFINE n == Cardinality(table)
           U == {x \in table : x.at >= s[i].at}
           f == [j \in 1..i |-> s[j]]
<1>1. n \in Nat /\ IsFiniteSet(1..n) /\ Cardinality(1..n) = n
  BY FS_CardinalityType, FS_Interval
<1>2. /\ s \in [1..n -> table] /\ DOMAIN s = 1..n
      /\ \A j, k \in 1..n : j # k => s[j] # s[k]
      /\ \A j, k \in 1..n : j < k => s[j].at >= s[k].at
  BY DEF Orders
<1> HIDE DEF n
<1>3. i \in 1..n
  BY DEF n
<1>4. s \in Injection(1..n, table)
  BY <1>2 DEF Injection, IsInjective
<1>5. \A x \in table : \E j \in 1..n : s[j] = x
  <2>1. s \in Surjection(1..n, table)
    BY <1>1, <1>4, FS_Injection DEF n
  <2> QED
    BY <2>1 DEF Surjection
<1>6. s[i] \in table
  BY <1>2, <1>3
<1>7. \A j \in 1..i : s[j] \in U
  <2> SUFFICES ASSUME NEW j \in 1..i PROVE s[j] \in U
    OBVIOUS
  <2>1. j \in 1..n /\ s[j] \in table
    BY <1>1, <1>2, <1>3
  <2>2. s[j].at >= s[i].at
    <3>1. CASE j = i
      BY <1>6, <3>1
    <3>2. CASE j < i
      BY <1>2, <1>3, <2>1, <3>2
    <3> QED
      BY <1>3, <2>1, <3>1, <3>2
  <2> QED
    BY <2>1, <2>2
<1>8. \A x \in U : \E j \in 1..i : s[j] = x
  <2> SUFFICES ASSUME NEW x \in U PROVE \E j \in 1..i : s[j] = x
    OBVIOUS
  <2>1. PICK j \in 1..n : s[j] = x
    BY <1>5
  <2>2. CASE j <= i
    BY <1>1, <1>3, <2>1, <2>2
  <2>3. CASE i < j
    <3>1. s[i].at >= x.at /\ x.at >= s[i].at
      BY <1>2, <1>3, <2>1, <2>3
    <3>2. x.at = s[i].at
      BY <1>6, <3>1
    <3>3. x = s[i]
      BY <1>6, <3>2 DEF Distinct
    <3> QED
      BY <1>3, <3>3
  <2> QED
    BY <1>1, <1>3, <2>1, <2>2, <2>3
<1> HIDE DEF U
<1>9. f \in Bijection(1..i, U)
  <2>1. f \in [1..i -> U]
    BY <1>7
  <2>2. \A j, k \in 1..i : f[j] = f[k] => j = k
    BY <1>1, <1>2, <1>3
  <2>3. \A x \in U : \E j \in 1..i : f[j] = x
    BY <1>8
  <2> HIDE DEF f
  <2> QED
    BY <2>1, <2>2, <2>3 DEF Bijection, Injection, Surjection, IsInjective
<1>10. IsFiniteSet(1..i) /\ Cardinality(1..i) = i
  BY <1>1, <1>3, FS_Interval
<1>11. Cardinality(U) = i
  BY <1>9, <1>10, FS_Bijection DEF ExistsBijection
<1> QED
  BY <1>6, <1>11 DEF Rank, U

LEMMA TimesAreInts ==
  ASSUME TypeOK, NEW o \in Ops, NEW r \in paged[o]
  PROVE  r.at \in Int
<1>1. Times \subseteq Int
  BY RoleApiAssumption
<1>2. r \in Row
  BY DEF TypeOK
<1> QED
  BY <1>1, <1>2 DEF Row

\* Page n of pages of l: the roles of rank (n - 1) * l + 1 to n * l.
LEMMA PageIsAnInterval ==
  ASSUME TypeOK, NEW o \in Ops, PageTaken(o), InRange(call[o]), Distinct(paged[o])
  PROVE  Shown(o) = {r \in paged[o] :
           /\ (PageOf(o) - 1) * Normalize(call[o]).limit < Rank(paged[o], r)
           /\ Rank(paged[o], r) <= (PageOf(o) - 1) * Normalize(call[o]).limit
                                     + Normalize(call[o]).limit}
<1> DEFINE l == Normalize(call[o]).limit
           p == PageOf(o)
           table == paged[o]
           n == Cardinality(table)
           from == (p - 1) * l
           to == IF from + l < n THEN from + l ELSE n
<1>1. p \in Int /\ 1 <= p /\ l \in 1..100
  BY CallsAssumption DEF TypeOK, Call, Normalize, PageOf
<1>2. from \in Int /\ from <= MaxInt /\ Offset(call[o]) = from
  <2>1. from \in Int
    BY <1>1
  <2>2. from <= MaxInt
    BY DEF InRange, PageOf
  <2>3. Offset(call[o]) = Wrap(from)
    BY DEF Offset, PageOf
  <2> HIDE DEF from
  <2> QED
    BY <2>1, <2>2, <2>3 DEF Wrap
<1>3. 0 <= from
  BY <1>2 DEF PageTaken
<1>4. n \in Nat /\ IsFiniteSet(table)
  BY FS_CardinalityType DEF PageTaken
<1>5. \A r \in table : r.at \in Int
  BY TimesAreInts
<1>6. PICK s \in Orders(table) : rows[o] = LimitOffset(s, call[o])
  BY DEF PageTaken
<1>7. s \in [1..n -> table] /\ s \in Seq(table) /\ Len(s) = n
  BY <1>4 DEF Orders
<1>8. rows[o] = SubSeq(s, from + 1, to)
  BY <1>2, <1>6, <1>7 DEF LimitOffset
<1> HIDE DEF l, p, table, n, from
<1>9. to \in Int /\ to <= n
  BY <1>1, <1>2, <1>4
<1>10. /\ rows[o] \in Seq(table)
       /\ Len(rows[o]) = IF from + 1 <= to THEN to - (from + 1) + 1 ELSE 0
       /\ \A i \in 1..(to - (from + 1) + 1) : rows[o][i] = s[from + 1 + i - 1]
  <2>1. \A i \in (from + 1)..to : s[i] \in table
    BY <1>2, <1>3, <1>4, <1>7, <1>9
  <2> HIDE DEF to
  <2> QED
    BY <1>2, <1>8, <1>9, <2>1, SubSeqProperties
<1>11. \A i \in 1..n : s[i] \in table /\ Rank(table, s[i]) = i
  BY <1>4, <1>5, <1>6, OrderRanks DEF n, table
<1>12. \A r \in table : \E i \in 1..n : s[i] = r
  <2>1. s \in Injection(1..n, table)
    BY <1>6, <1>7 DEF Injection, IsInjective, Orders
  <2>2. IsFiniteSet(1..n) /\ Cardinality(1..n) = n
    BY <1>4, FS_Interval
  <2>3. s \in Surjection(1..n, table)
    BY <1>4, <2>1, <2>2, FS_Injection DEF n
  <2> QED
    BY <2>3 DEF Surjection
<1>13. DOMAIN rows[o] = 1..Len(rows[o])
  BY <1>10, LenProperties
<1>14. ASSUME NEW r \in Shown(o)
       PROVE  r \in table /\ from < Rank(table, r) /\ Rank(table, r) <= from + l
  <2>1. PICK i \in DOMAIN rows[o] : r = rows[o][i]
    BY DEF Shown
  <2>2. i \in 1..(to - (from + 1) + 1)
    BY <1>2, <1>9, <1>10, <1>13, <2>1
  <2>3. from + i \in 1..n /\ from + i <= from + l /\ r = s[from + i]
    BY <1>1, <1>2, <1>3, <1>4, <1>9, <1>10, <2>1, <2>2
  <2> QED
    BY <1>2, <1>11, <2>2, <2>3
<1>15. ASSUME NEW r \in table, from < Rank(table, r), Rank(table, r) <= from + l
       PROVE  r \in Shown(o)
  <2>1. PICK k \in 1..n : s[k] = r /\ Rank(table, r) = k
    BY <1>11, <1>12
  <2>2. from < k /\ k <= to
    BY <1>1, <1>2, <1>4, <1>15, <2>1
  <2>3. k - from \in 1..(to - (from + 1) + 1) /\ k - from \in 1..Len(rows[o])
    BY <1>2, <1>9, <1>10, <2>1, <2>2
  <2>4. rows[o][k - from] = s[k]
    BY <1>2, <1>10, <2>1, <2>3
  <2> QED
    BY <1>13, <2>1, <2>3, <2>4 DEF Shown
<1> QED
  BY <1>14, <1>15 DEF l, p, table, from

\* The number of the page that a rank is on.
LEMMA PageOfRank ==
  ASSUME NEW k \in Int, NEW n \in Int, NEW l \in Int, 1 <= k, k <= n, 1 <= l
  PROVE  \E m \in 1..((n + l - 1) \div l) : (m - 1) * l < k /\ k <= (m - 1) * l + l
<1> DEFINE q == (k - 1) \div l
           t == (n + l - 1) \div l
<1>1. q \in Int /\ t \in Int
  OBVIOUS
<1>2. l * q <= k - 1 /\ k - 1 < l * q + l
  OBVIOUS
<1>3. l * t <= n + l - 1 /\ n + l - 1 < l * t + l
  OBVIOUS
<1> HIDE DEF q, t
<1>4. 0 <= q
  <2> SUFFICES ASSUME q <= -1 PROVE FALSE
    BY <1>1
  <2>1. l * q <= l * (-1)
    BY <1>1
  <2> QED
    BY <1>1, <1>2, <2>1
<1>5. q + 1 <= t
  <2> SUFFICES ASSUME t <= q PROVE FALSE
    BY <1>1
  <2>1. l * t <= l * q
    BY <1>1
  <2>2. l * q <= n - 1
    BY <1>1, <1>2
  <2> QED
    BY <1>1, <1>3, <2>1, <2>2
<1>6. q + 1 \in 1..t /\ ((q + 1) - 1) * l = l * q
  BY <1>1, <1>4, <1>5
<1>7. l * q < k /\ k <= l * q + l
  BY <1>1, <1>2
<1> QED
  BY <1>1, <1>6, <1>7 DEF t

LEMMA PagesPartition == TypeOK /\ PInv => PagesPartitionTheTable
<1> SUFFICES ASSUME TypeOK, PInv, NEW o \in Ops, outcome[o] = "listed", InRange(call[o]),
                    Distinct(paged[o])
             PROVE
    /\ \A p \in Ops : SameList(o, p) /\ PageOf(o) # PageOf(p) => Shown(o) \cap Shown(p) = {}
    /\ counted[o] = paged[o]
       /\ (\A n \in 1..totalPages(call[o], Cardinality(counted[o])) :
             \E p \in Ops : SameList(o, p) /\ PageOf(p) = n)
       => paged[o] = UNION {Shown(p) : p \in {q \in Ops : SameList(o, q)}}
  BY DEF PagesPartitionTheTable, Distinct
<1> DEFINE l == Normalize(call[o]).limit
           table == paged[o]
           First(p) == (PageOf(p) - 1) * l
<1>1. l \in 1..100 /\ \A p \in Ops : PageOf(p) \in Int
  BY CallsAssumption DEF TypeOK, Call, Normalize, PageOf
<1>2. \A r \in table : Rank(table, r) \in Int
  <2> SUFFICES ASSUME NEW r \in table PROVE Rank(table, r) \in Int
    OBVIOUS
  <2>1. IsFiniteSet(table) /\ {x \in table : x.at >= r.at} \in SUBSET table
    BY DEF PInv, PagesTaken, PageTaken
  <2>2. IsFiniteSet({x \in table : x.at >= r.at})
    BY <2>1, FS_Subset
  <2> QED
    BY <2>2, FS_CardinalityType DEF Rank
<1>3. ASSUME NEW p \in Ops, SameList(o, p)
      PROVE  Shown(p) = {r \in table : First(p) < Rank(table, r) /\ Rank(table, r) <= First(p) + l}
  <2>1. PageTaken(p) /\ InRange(call[p]) /\ paged[p] = table /\ Normalize(call[p]).limit = l
    BY <1>3 DEF SameList, PInv, PagesTaken
  <2> QED
    BY <2>1, PageIsAnInterval
<1>4. SameList(o, o)
  BY DEF SameList
<1> HIDE DEF l, table
<1>5. ASSUME NEW p \in Ops, SameList(o, p), PageOf(o) # PageOf(p),
             NEW r \in Shown(o), r \in Shown(p)
      PROVE  FALSE
  <2>1. /\ First(o) < Rank(table, r) /\ Rank(table, r) <= First(o) + l
        /\ First(p) < Rank(table, r) /\ Rank(table, r) <= First(p) + l
        /\ Rank(table, r) \in Int
    BY <1>2, <1>3, <1>4, <1>5
  <2>2. \A a, b \in Int : a < b => a * l + l <= b * l
    <3> SUFFICES ASSUME NEW a \in Int, NEW b \in Int, a < b PROVE a * l + l <= b * l
      OBVIOUS
    <3>1. (a + 1) * l <= b * l
      BY <1>1
    <3> QED
      BY <1>1, <3>1
  <2>3. First(o) \in Int /\ First(p) \in Int
    BY <1>1
  <2>4. First(o) + l <= First(p) \/ First(p) + l <= First(o)
    BY <1>1, <1>5, <2>2
  <2> HIDE DEF First
  <2> QED
    BY <1>1, <2>1, <2>3, <2>4
<1>6. ASSUME counted[o] = table,
             \A n \in 1..totalPages(call[o], Cardinality(counted[o])) :
               \E p \in Ops : SameList(o, p) /\ PageOf(p) = n,
             NEW r \in table
      PROVE  \E p \in Ops : SameList(o, p) /\ r \in Shown(p)
  <2> DEFINE n == Cardinality(table)
             k == Rank(table, r)
  <2>1. IsFiniteSet(table) /\ n \in Nat
    <3>1. IsFiniteSet(table)
      BY DEF PInv, PagesTaken, PageTaken, table
    <3> QED
      BY <3>1, FS_CardinalityType
  <2>2. 1 <= k /\ k <= n /\ k \in Int
    <3> DEFINE U == {x \in table : x.at >= r.at}
    <3>1. U \in SUBSET table
      OBVIOUS
    <3>2. IsFiniteSet(U) /\ Cardinality(U) <= n
      BY <2>1, <3>1, FS_Subset
    <3>3. r \in U
      <4>1. r.at \in Int
        BY TimesAreInts DEF table
      <4> QED
        BY <4>1
    <3> HIDE DEF U
    <3>4. Cardinality(U) # 0 /\ Cardinality(U) \in Nat
      BY <3>2, <3>3, FS_EmptySet, FS_CardinalityType
    <3>5. k = Cardinality(U)
      BY DEF Rank, U
    <3> HIDE DEF k, n
    <3> QED
      BY <2>1, <3>2, <3>4, <3>5
  <2> HIDE DEF k, n
  <2>3. PICK m \in 1..((n + l - 1) \div l) : (m - 1) * l < k /\ k <= (m - 1) * l + l
    <3>1. n \in Int /\ l \in Int /\ 1 <= l
      BY <1>1, <2>1
    <3> QED
      BY <2>2, <3>1, PageOfRank, Zenon
  <2>4. totalPages(call[o], Cardinality(counted[o])) = (n + l - 1) \div l
    BY <1>6, <2>2 DEF totalPages, l, n
  <2>5. PICK p \in Ops : SameList(o, p) /\ PageOf(p) = m
    BY <1>6, <2>3, <2>4
  <2>6. r \in Shown(p)
    BY <1>3, <1>6, <2>3, <2>5 DEF k
  <2> QED
    BY <2>5, <2>6
<1>7. \A p \in Ops : SameList(o, p) => Shown(p) \subseteq table
  BY <1>3
<1> QED
  BY <1>5, <1>6, <1>7 DEF table

\* A listing ends only in Fetches, and no other step touches its page.
LEMMA ListingStep ==
  ASSUME TypeOK, Unfinished, DOMAIN rows = Ops, NEW o \in Ops, Step(o)
  PROVE  /\ DOMAIN rows' = Ops
         /\ \A p \in Ops \ {o} : /\ outcome'[p] = outcome[p] /\ call' = call
                                 /\ paged'[p] = paged[p] /\ rows'[p] = rows[p]
         /\ outcome'[o] = "listed" => Fetches(o)
<1> USE DEF TypeOK, End, Goto, listing, history
<1>0. Admission(o) # "listed" /\ outcome[o] = "none"
  BY StepFrame DEF Admission, TooLarge, ServiceKeyAuth, validateAuth, Unfinished
<1>1. CASE Refuse(o) \/ Admit(o)
  BY <1>0, <1>1 DEF Refuse, Admit
<1>2. CASE FindsDuplicate(o) \/ FindsNone(o) \/ InsertRefused(o) \/ InsertTooLong(o)
  BY <1>0, <1>2 DEF FindsDuplicate, FindsNone, InsertRefused, InsertTooLong
<1>3. CASE Inserts(o) \/ Removes(o) \/ RemovesNothing(o)
  BY <1>0, <1>3 DEF Inserts, Removes, RemovesNothing
<1>4. CASE Counts(o) \/ NegativeOffset(o) \/ DatabaseFails(o) \/ Panics(o)
  BY <1>0, <1>4 DEF Counts, NegativeOffset, DatabaseFails, Panics
<1>5. CASE Fetches(o)
  BY <1>0, <1>5 DEF Fetches
<1> QED
  BY <1>1, <1>2, <1>3, <1>4, <1>5 DEF Step

LEMMA FiniteStep == TypeOK /\ FiniteTables /\ Next => FiniteTables'
<1> SUFFICES ASSUME TypeOK, FiniteTables, Next PROVE FiniteTables'
  OBVIOUS
<1>1. CASE Replicate
  BY <1>1 DEF Replicate, FiniteTables
<1>2. ASSUME NEW o \in Ops, Step(o) PROVE FiniteTables'
  <2>1. CASE UNCHANGED <<roles, reader, stored, gone>>
    BY <2>1 DEF FiniteTables
  <2>2. ASSUME NEW t \in Times, Commit(roles \cup {[id |-> o, name |-> call[o].name, at |-> t]})
        PROVE  FiniteTables'
    <3>1. IsFiniteSet(roles \cup {[id |-> o, name |-> call[o].name, at |-> t]})
      BY FS_AddElement DEF FiniteTables
    <3> QED
      BY <2>2, <3>1 DEF Commit, FiniteTables
  <2>3. ASSUME Commit({r \in roles : r.id # call[o].target}) PROVE FiniteTables'
    <3>1. {r \in roles : r.id # call[o].target} \in SUBSET roles
      OBVIOUS
    <3>2. IsFiniteSet({r \in roles : r.id # call[o].target})
      BY <3>1, FS_Subset DEF FiniteTables
    <3> QED
      BY <2>3, <3>2 DEF Commit, FiniteTables
  <2> QED
    BY <1>2, TableStep, <2>1, <2>2, <2>3
<1> QED
  BY <1>1, <1>2 DEF Next

LEMMA PagesStep == IInv /\ PInv /\ Next => PInv'
<1> SUFFICES ASSUME IInv, PInv, Next PROVE PInv'
  OBVIOUS
<1>0. FiniteTables' /\ TypeOK /\ Unfinished
  BY FiniteStep DEF IInv, PInv
<1>1. CASE Replicate
  BY <1>0, <1>1 DEF Replicate, PInv, PagesTaken, PageTaken, listing, history
<1>2. ASSUME NEW o \in Ops, Step(o) PROVE PInv'
  <2>0. /\ DOMAIN rows' = Ops /\ call' = call
        /\ \A p \in Ops \ {o} : /\ outcome'[p] = outcome[p]
                                /\ paged'[p] = paged[p] /\ rows'[p] = rows[p]
        /\ outcome'[o] = "listed" => Fetches(o)
    BY <1>0, <1>2, ListingStep, StepFrame DEF PInv
  <2>1. ASSUME Fetches(o) PROVE PageTaken(o)'
    <3>1. PICK s \in Orders(Matching(call[o], reader)) :
            rows' = [rows EXCEPT ![o] = LimitOffset(s, call[o])]
      BY <2>1 DEF Fetches
    <3>2. rows'[o] = LimitOffset(s, call[o])
      BY <3>1 DEF PInv
    <3>3. paged'[o] = Matching(call[o], reader) /\ Offset(call[o]) >= 0
      BY <1>0, <2>1 DEF Fetches, TypeOK
    <3>4. IsFiniteSet(Matching(call[o], reader))
      <4>1. Matching(call[o], reader) \in SUBSET reader
        BY DEF Matching
      <4> QED
        BY <4>1, FS_Subset DEF PInv, FiniteTables
    <3> QED
      BY <2>0, <3>1, <3>2, <3>3, <3>4 DEF PageTaken
  <2>2. ASSUME NEW p \in Ops, outcome'[p] = "listed" PROVE PageTaken(p)'
    <3>1. CASE p = o
      BY <2>0, <2>1, <2>2, <3>1
    <3>2. CASE p # o
      BY <2>0, <2>2, <3>2 DEF PInv, PagesTaken, PageTaken
    <3> QED
      BY <3>1, <3>2
  <2> QED
    BY <1>0, <2>0, <2>2 DEF PInv, PagesTaken
<1> QED
  BY <1>1, <1>2 DEF Next

LEMMA SpecPInv == Spec => []PInv
<1>1. Init => PInv
  BY CallsAssumption DEF Init, PInv, FiniteTables, PagesTaken
<1>2. IInv /\ PInv /\ [Next]_vars => PInv'
  <2>1. CASE Next
    BY <2>1, PagesStep
  <2>2. CASE UNCHANGED vars
    BY <2>2 DEF vars, PInv, FiniteTables, PagesTaken, PageTaken, listing, history
  <2> QED
    BY <2>1, <2>2
<1> QED
  BY <1>1, <1>2, SpecIInv, PTL DEF Spec

-----------------------------------------------------------------------------
\* The variables stay in their types.
THEOREM TypeCorrect == Spec => []TypeOK
<1>1. IInv => TypeOK
  BY DEF IInv
<1> QED BY <1>1, SpecIInv, PTL

\* What a client is told about its write is what happened to the table.
THEOREM AnswersAreTrue == Spec => []AnswersTellTheTruth
<1>1. IInv => AnswersTellTheTruth
  BY DEF IInv, Answers, Table, AnswersTellTheTruth
<1> QED BY <1>1, SpecIInv, PTL

\* A conflict names a role that was there.
THEOREM ConflictsHold == Spec => []ConflictsAreReal
<1>1. IInv => ConflictsAreReal
  BY DEF IInv
<1> QED BY <1>1, SpecIInv, PTL

\* Both transports fail closed.
THEOREM WritesAreAuthentic == Spec => []OnlyAuthenticatedWrites
<1>1. IInv => OnlyAuthenticatedWrites
  <2> SUFFICES ASSUME IInv, NEW o \in Ops, o \in stored \/ outcome[o] \in {"deleted", "listed"}
               PROVE  Authentic(o)
    BY DEF OnlyAuthenticatedWrites, Authentic
  <2>1. outcome[o] \notin Refusals
    BY DEF IInv, Unfinished
  <2>2. pc[o] = "done"
    BY DEF IInv, Unfinished
  <2> QED BY <2>1, <2>2 DEF IInv, Unfinished
<1> QED BY <1>1, SpecIInv, PTL

\* Whatever tables the listings saw: pages of one table are disjoint, and those
\* up to the answered number of pages make up the whole table, when no two of its
\* roles are of one time (role.go:130-188, list.go:33-71).
THEOREM PagesArePartitions == Spec => []PagesPartitionTheTable
<1>1. IInv /\ PInv => PagesPartitionTheTable
  BY PagesPartition DEF IInv
<1> QED BY <1>1, SpecIInv, SpecPInv, PTL

\* An RPC carries its page and limit as int32, so its offset never wraps around;
\* only a page of the query string can, which is an int.
THEOREM RpcOffsetNeverWraps ==
  ASSUME NEW c \in Calls, c.via = "grpc"
  PROVE  Offset(c) = (Normalize(c).page - 1) * Normalize(c).limit /\ Offset(c) >= 0
<1> DEFINE p == Normalize(c).page
           l == Normalize(c).limit
<1>1. c.page \in Int /\ c.limit \in Int /\ c.page <= MaxWire
  BY CallsAssumption DEF Call
<1>2. p \in Int /\ l \in Int /\ 1 <= p /\ 1 <= l /\ l <= 100 /\ (p = 1 \/ p <= MaxWire)
  BY <1>1 DEF Normalize
<1> HIDE DEF p, l
<1>3. 0 <= (p - 1) * l
  BY <1>2
<1>4. (p - 1) * l <= MaxInt
  <2>1. CASE p = 1
    BY <1>2, <2>1, RoleApiAssumption
  <2>2. CASE p <= MaxWire
    <3>1. (p - 1) * l <= (p - 1) * 100
      BY <1>2
    <3>2. (p - 1) * 100 <= MaxWire * 100
      BY <1>2, <2>2, RoleApiAssumption
    <3> QED BY <1>2, <3>1, <3>2, RoleApiAssumption
  <2> QED BY <1>2, <2>1, <2>2
<1> QED BY <1>3, <1>4 DEF Offset, Wrap, p, l

ServerFault(via, e) ==
  LET code == roleToAppError(e) IN
  IF via = "http" THEN codeToStatus[code] >= 500 ELSE codeToGRPCStatus[code] = "Internal"

\* Both transports blame the same side for the same error of a use case.
THEOREM TransportsAgree == \A e \in Failures \ {"panic"} :
  ServerFault("http", e) = ServerFault("grpc", e)
BY DEF Failures, ServerFault, roleToAppError, codeToStatus, codeToGRPCStatus
\* Both transports admit the same credentials under the same configuration.
THEOREM TransportsAuthenticateAlike ==
  \A c, d \in Calls : c.creds = d.creds => ServiceKeyAuth(c) = validateAuth(d)
BY DEF ServiceKeyAuth, validateAuth
=============================================================================
