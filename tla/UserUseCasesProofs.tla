------------------------- MODULE UserUseCasesProofs -------------------------
(***************************************************************************)
(* Proofs about UserUseCases, for any number of calls, processes, users    *)
(* and spellings of an id, with or without replica, cache, flight group    *)
(* and failures.                                                           *)
(***************************************************************************)
EXTENDS UserUseCases, TLAPS

\* The table ever held a row for u.
Existed(u) == \E i \in 1..Len(log) : log[i][u] # NoRow

\* What a call has established when it stands at a place.
Established ==
  \A o \in Ops :
    /\ pc[o] \in {"missed", "reading", "landing", "joined", "fetched"} =>
         Kind(o) = "get" /\ Valid(o)
    /\ pc[o] = "fetched" => row[o] \in Row
    /\ pc[o] = "found" =>
         Kind(o) = "update" /\ Valid(o) /\ row[o] \in Row /\ Existed(User(o))
    /\ pc[o] = "invalidate" => WithCache /\ Kind(o) # "get"
    /\ pc[o] # "done" => reply[o] = "none"

\* A create that has not inserted yet owns a key nobody has used.
NewKeys ==
  /\ \A o \in Ops : Kind(o) = "create" /\ pc[o] = "begun" => ~Existed(User(o))
  /\ \A o, p \in Ops :
       Kind(o) = "create" /\ Kind(p) = "create" /\ User(o) = User(p) => o = p

\* Cached rows, and rows a Get has in hand, were committed for the user asked for.
CacheSound ==
  /\ \A id \in Ids : cache[id] # Miss =>
       UserOf[id] \in Users /\ Committed(UserOf[id], cache[id])
  /\ ~WithCache => \A id \in Ids : cache[id] = Miss

RowsSound == \A o \in Ops :
  /\ pc[o] \in {"landing", "fetched"} /\ row[o] \in Row => Committed(User(o), row[o])
  /\ Kind(o) = "get" /\ reply[o] = "ok" => Committed(User(o), row[o])

\* The group's map holds exactly the calls that fetch, and nobody waits for a
\* key that is not in it.
FlightsSound == WithFlight =>
  /\ \A o \in Ops : Fetching(o) => flight[InstanceOf[o]][Id(o)] = o
  /\ \A i \in Instances, id \in Ids : flight[i][id] # NoOp =>
       LET o == flight[i][id] IN Fetching(o) /\ InstanceOf[o] = i /\ Id(o) = id
  /\ \A o \in Ops : At(o, "joined") => InFlight(o)

IInv ==
  /\ TypeOK
  /\ Established
  /\ NewKeys
  /\ CacheSound
  /\ RowsSound
  /\ FlightsSound
  /\ StaleOnlyByRace

-----------------------------------------------------------------------------
(***************************************************************************)
(* The committed tables                                                    *)
(***************************************************************************)
LEMMA WriterTyped == TypeOK => Writer \in Table
BY DEF TypeOK, Writer

LEMMA ReaderCommitted ==
  ASSUME TypeOK, NEW u \in Users
  PROVE  Reader[u] \in Row \cup {NoRow} /\ Committed(u, Reader[u])
<1>1. CASE Replicated
  BY <1>1 DEF TypeOK, Reader, Committed, Table
<1>2. CASE ~Replicated
  BY <1>2 DEF TypeOK, Reader, Writer, Committed, Table
<1> QED BY <1>1, <1>2

\* A committed write appends the writer's table with one row replaced.
LEMMA CommitAppends ==
  ASSUME TypeOK, NEW u \in Users, NEW r \in Row, Commit(u, r)
  PROVE  /\ log' \in Seq(Table)
         /\ Len(log') = Len(log) + 1
         /\ \A i \in 1..Len(log) : log'[i] = log[i]
         /\ Writer' = [Writer EXCEPT ![u] = r]
         /\ log'[Len(log')] = [Writer EXCEPT ![u] = r]
         /\ applied' = applied
<1>1. Writer \in Table
  BY WriterTyped
<1>2. [Writer EXCEPT ![u] = r] \in Table
  BY <1>1 DEF Table
<1> QED BY <1>2 DEF TypeOK, Commit, Writer

LEMMA ChangedTyped ==
  ASSUME NEW c \in Calls, c.email # BadEmail, NEW r \in Row
  PROVE  Changed(c, r) \in Row
BY UseCaseAssumption DEF Changed, Row, Call

\* What a step may do to the log: nothing, or one write of a call whose user
\* has a row already or is being created.
LogStep ==
  \/ log' = log
  \/ \E o \in Ops, r \in Row :
       /\ User(o) \in Users
       /\ Commit(User(o), r)
       /\ \/ Existed(User(o))
          \/ Kind(o) = "create" /\ pc[o] = "begun" /\ pc'[o] # "begun"

LEMMA InsertStep ==
  ASSUME TypeOK, NEW o \in Ops, Asked(o, "create"), call[o].email # BadEmail,
         InsertRow(User(o), call[o].name, call[o].email)
  PROVE  /\ User(o) \in Users
         /\ \E r \in Row : Commit(User(o), r)
<1>1. call[o] \in Calls /\ call[o] \in Call
  BY UseCaseAssumption DEF TypeOK
<1>2. call[o].name \in Names /\ call[o].email \in Emails
  BY <1>1, UseCaseAssumption DEF Asked, Kind, Call
<1>3. User(o) \in Users
  BY <1>1, UseCaseAssumption DEF Asked, Valid, User, Id, Call
<1> QED BY <1>2, <1>3 DEF InsertRow, Row

LEMMA SaveStep ==
  ASSUME TypeOK, Established, NEW o \in Ops, At(o, "found"), UpdateRow(User(o), row[o])
  PROVE  /\ User(o) \in Users
         /\ row[o] \in Row
         /\ Commit(User(o), row[o])
         /\ Existed(User(o))
<1>1. Valid(o) /\ row[o] \in Row /\ Existed(User(o))
  BY DEF At, Established
<1>2. User(o) \in Users
  BY <1>1, UseCaseAssumption DEF TypeOK, Valid, User, Id, Call
<1> QED BY <1>1, <1>2 DEF UpdateRow

LEMMA DeleteStep ==
  ASSUME TypeOK, NEW o \in Ops, Asked(o, "delete"), SoftDelete(User(o))
  PROVE  /\ User(o) \in Users
         /\ \E r \in Row : Commit(User(o), r)
         /\ Existed(User(o))
<1>1. User(o) \in Users
  BY UseCaseAssumption DEF TypeOK, Asked, Valid, User, Id, Call
<1>2. Writer[User(o)] \in Row
  BY <1>1, WriterTyped DEF SoftDelete, Deletable, Table
<1>3. [Writer[User(o)] EXCEPT !.active = FALSE] \in Row
  BY <1>2 DEF Row
<1>4. Existed(User(o))
  BY <1>1, <1>2, RepositoryAssumption DEF TypeOK, Writer, Existed
<1> QED BY <1>1, <1>3, <1>4 DEF SoftDelete

LEMMA LogSteps == TypeOK /\ Established /\ [Next]_vars => LogStep
<1> SUFFICES ASSUME TypeOK, Established, [Next]_vars, log' # log PROVE LogStep
  BY DEF LogStep
<1>1. ASSUME NEW o \in Ops, Create(o) PROVE LogStep
  <2>1. InsertRow(User(o), call[o].name, call[o].email)
    BY <1>1 DEF Create
  <2>2. pc[o] = "begun" /\ Kind(o) = "create" /\ pc'[o] # "begun"
    BY <1>1 DEF Create, Asked, At, Answer, Goto, TypeOK
  <2> QED BY <1>1, <2>1, <2>2, InsertStep DEF Create, LogStep
<1>2. ASSUME NEW o \in Ops, Save(o) PROVE LogStep
  BY <1>2, SaveStep DEF Save, LogStep
<1>3. ASSUME NEW o \in Ops, Deactivate(o) PROVE LogStep
  BY <1>3, DeleteStep DEF Deactivate, LogStep
<1>4. ASSUME NEW o \in Ops, WriteErrs(o) PROVE LogStep
  <2>1. WriteApplied(o)
    BY <1>4 DEF WriteErrs
  <2>2. CASE Asked(o, "create") /\ call[o].email # BadEmail
             /\ InsertRow(User(o), call[o].name, call[o].email)
    <3>1. pc[o] = "begun" /\ Kind(o) = "create" /\ pc'[o] # "begun"
      BY <1>4, <2>2 DEF WriteErrs, Asked, At, Answer, Goto, TypeOK
    <3> QED BY <2>2, <3>1, InsertStep DEF LogStep
  <2>3. CASE At(o, "found") /\ UpdateRow(User(o), row[o])
    BY <2>3, SaveStep DEF LogStep
  <2>4. CASE Asked(o, "delete") /\ SoftDelete(User(o))
    BY <2>4, DeleteStep DEF LogStep
  <2> QED BY <2>1, <2>2, <2>3, <2>4 DEF WriteApplied
<1> QED
  BY <1>1, <1>2, <1>3, <1>4
  DEF Next, Execute, vars, RejectId, RejectEmail, CacheHit, CacheMiss, TakeOff,
      Join, FindByID, Land, Fill, SkipFill, FindForUpdate, SaveRefused,
      NothingToDelete, Invalidate, InvalidateFails, ReadErrs, Expire, CatchUp,
      Replicate

\* What was committed stays committed, whatever is committed next.
LEMMA CommittedStays ==
  ASSUME TypeOK, LogStep
  PROVE  /\ \A u, r : Committed(u, r) => Committed(u, r)'
         /\ \A u : Existed(u) => Existed(u)'
         /\ log' \in Seq(Table) /\ Len(log') >= Len(log)
<1>1. CASE log' = log
  BY <1>1 DEF Committed, Existed, TypeOK
<1>2. ASSUME NEW o \in Ops, NEW r \in Row, User(o) \in Users, Commit(User(o), r)
      PROVE  /\ log' \in Seq(Table) /\ Len(log') = Len(log) + 1
             /\ \A i \in 1..Len(log) : log'[i] = log[i]
  BY <1>2, CommitAppends
<1>3. CASE log' # log
  <2>1. /\ log' \in Seq(Table) /\ Len(log') = Len(log) + 1
        /\ \A i \in 1..Len(log) : log'[i] = log[i]
    BY <1>2, <1>3 DEF LogStep
  <2> QED BY <2>1 DEF Committed, Existed, TypeOK
<1> QED BY <1>1, <1>3

-----------------------------------------------------------------------------
(***************************************************************************)
(* Types                                                                   *)
(***************************************************************************)
LEMMA AppliedStays ==
  ASSUME TypeOK, Established, [Next]_vars
  PROVE  applied' \in 1..Len(log')
<1>1. LogStep
  BY LogSteps
<1>2. log' \in Seq(Table) /\ Len(log') >= Len(log)
  BY <1>1, CommittedStays
<1>3. applied' = applied \/ Replicate
  BY DEF Next, Execute, vars, RejectId, RejectEmail, Create, CacheHit, CacheMiss,
      TakeOff, Join, FindByID, Land, Fill, SkipFill, FindForUpdate, Save,
      SaveRefused, Deactivate, NothingToDelete, Invalidate, InvalidateFails,
      ReadErrs, WriteErrs, WriteApplied, InsertRow, UpdateRow, SoftDelete, Commit,
      Expire, CatchUp
<1> QED BY <1>2, <1>3 DEF Replicate, TypeOK

LEMMA CallsTyped ==
  ASSUME TypeOK, NEW o \in Ops
  PROVE  /\ call[o] \in Calls /\ call[o] \in Call
         /\ Id(o) \in Ids
         /\ InstanceOf[o] \in Instances
         /\ Valid(o) => User(o) \in Users
BY UseCaseAssumption DEF TypeOK, Call, Valid, User, Id

LEMMA TypesStay ==
  ASSUME TypeOK, Established, [Next]_vars
  PROVE  TypeOK'
<1>a. log' \in Seq(Table) /\ Len(log') > 0 /\ applied' \in 1..Len(log')
  BY LogSteps, CommittedStays, AppliedStays DEF TypeOK
<1>1. ASSUME NEW o \in Ops, RejectId(o) PROVE TypeOK'
  BY <1>1, <1>a
  DEF RejectId, Answer, Goto, TypeOK, Asked, At, Places, Answers
<1>2. ASSUME NEW o \in Ops, RejectEmail(o) PROVE TypeOK'
  BY <1>2, <1>a
  DEF RejectEmail, Answer, Goto, TypeOK, Asked, At, Places, Answers
<1>3. ASSUME NEW o \in Ops, Create(o) PROVE TypeOK'
  BY <1>3, <1>a
  DEF Create, InsertRow, Answer, Goto, TypeOK, Asked, At, Places, Answers
<1>4. ASSUME NEW o \in Ops, CacheHit(o) PROVE TypeOK'
  BY <1>4, <1>a, CallsTyped
  DEF CacheHit, Answer, Goto, TypeOK, Asked, At, Places, Answers
<1>5. ASSUME NEW o \in Ops, CacheMiss(o) PROVE TypeOK'
  BY <1>5, <1>a
  DEF CacheMiss, Goto, TypeOK, Asked, At, Places, Answers
<1>6. ASSUME NEW o \in Ops, TakeOff(o) PROVE TypeOK'
  <2>1. flight' \in [Instances -> [Ids -> Ops \cup {NoOp}]]
    BY <1>6, CallsTyped DEF TakeOff, TypeOK
  <2>2. pc' \in [Ops -> Places]
    BY <1>6 DEF TakeOff, Goto, TypeOK, Places
  <2> QED
    BY <1>6, <1>a, <2>1, <2>2 DEF TakeOff, TypeOK
<1>7. ASSUME NEW o \in Ops, Join(o) PROVE TypeOK'
  BY <1>7, <1>a
  DEF Join, Goto, TypeOK, Asked, At, Places, Answers
<1>8. ASSUME NEW o \in Ops, FindByID(o) PROVE TypeOK'
  <2>1. Reader[User(o)] \in Row \cup {NoRow}
    BY <1>8, CallsTyped, ReaderCommitted DEF FindByID, At, Established
  <2> QED
    BY <1>8, <1>a, <2>1 DEF FindByID, Goto, TypeOK, Places
<1>9. ASSUME NEW o \in Ops, Land(o) PROVE TypeOK'
  <2>1. pc' \in [Ops -> Places]
    BY <1>9 DEF Land, TypeOK, Places
  <2>2. row' \in [Ops -> Row \cup {NoRow, Failed}]
    BY <1>9 DEF Land, TypeOK
  <2>3. Verdict(row[o]) \in Answers
    BY DEF Verdict, Answers
  <2>4. reply' \in [Ops -> Answers]
    BY <1>9, <2>3 DEF Land, TypeOK
  <2>5. flight' \in [Instances -> [Ids -> Ops \cup {NoOp}]]
    BY <1>9, CallsTyped DEF Land, TypeOK
  <2> QED
    BY <1>9, <1>a, <2>1, <2>2, <2>4, <2>5 DEF Land, TypeOK
<1>10. ASSUME NEW o \in Ops, Fill(o) PROVE TypeOK'
  <2>1. row[o] \in Row /\ Id(o) \in Ids
    BY <1>10, CallsTyped DEF Fill, At, Established
  <2> QED
    BY <1>10, <1>a, <2>1 DEF Fill, Answer, Goto, TypeOK, Places, Answers
<1>11. ASSUME NEW o \in Ops, SkipFill(o) PROVE TypeOK'
  BY <1>11, <1>a
  DEF SkipFill, Answer, Goto, TypeOK, Asked, At, Places, Answers
<1>12. ASSUME NEW o \in Ops, FindForUpdate(o) PROVE TypeOK'
  <2>1. call[o] \in Calls /\ Reader[User(o)] \in Row \cup {NoRow}
    BY <1>12, CallsTyped, ReaderCommitted DEF FindForUpdate, Asked
  <2>2. Reader[User(o)] # NoRow /\ call[o].email # BadEmail =>
          Changed(call[o], Reader[User(o)]) \in Row
    BY <2>1, ChangedTyped
  <2>3. row' \in [Ops -> Row \cup {NoRow, Failed}]
    BY <1>12, <2>2 DEF FindForUpdate, TypeOK
  <2> QED
    BY <1>12, <1>a, <2>3
    DEF FindForUpdate, Answer, Goto, TypeOK, Places, Answers
<1>13. ASSUME NEW o \in Ops, Save(o) PROVE TypeOK'
  BY <1>13, <1>a
  DEF Save, Overtake, Spellings, AfterWrite, Answer, Goto, TypeOK, Places, Answers
<1>14. ASSUME NEW o \in Ops, SaveRefused(o) PROVE TypeOK'
  BY <1>14, <1>a
  DEF SaveRefused, Answer, Goto, TypeOK, Asked, At, Places, Answers
<1>15. ASSUME NEW o \in Ops, Deactivate(o) PROVE TypeOK'
  BY <1>15, <1>a
  DEF Deactivate, Overtake, Spellings, AfterWrite, Answer, Goto, TypeOK, Places,
      Answers
<1>16. ASSUME NEW o \in Ops, NothingToDelete(o) PROVE TypeOK'
  BY <1>16, <1>a
  DEF NothingToDelete, Answer, Goto, TypeOK, Asked, At, Places, Answers
<1>17. ASSUME NEW o \in Ops, Invalidate(o) PROVE TypeOK'
  BY <1>17, <1>a
  DEF Invalidate, Answer, Goto, TypeOK, Asked, At, Places, Answers
<1>18. ASSUME NEW o \in Ops, InvalidateFails(o) PROVE TypeOK'
  BY <1>18, <1>a, CallsTyped
  DEF InvalidateFails, Answer, Goto, TypeOK, Places, Answers
<1>19. ASSUME NEW o \in Ops, ReadErrs(o) PROVE TypeOK'
  BY <1>19, <1>a
  DEF ReadErrs, Answer, Goto, TypeOK, Asked, At, Places, Answers
<1>20. ASSUME NEW o \in Ops, WriteErrs(o) PROVE TypeOK'
  BY <1>20, <1>a DEF WriteErrs, Spellings, Answer, Goto, TypeOK, Places, Answers
<1>21. ASSUME NEW id \in Ids, Expire(id) PROVE TypeOK'
  BY <1>21, <1>a
  DEF Expire, TypeOK, Asked, At, Places, Answers
<1>22. CASE CatchUp
  BY <1>22, <1>a
  DEF CatchUp, Replicate, TypeOK, Asked, At, Places, Answers
<1>23. CASE UNCHANGED vars
  BY <1>23, <1>a
  DEF vars, TypeOK, Asked, At, Places, Answers
<1> QED
  BY <1>1, <1>2, <1>3, <1>4, <1>5, <1>6, <1>7, <1>8, <1>9, <1>10, <1>11, <1>12,
     <1>13, <1>14, <1>15, <1>16, <1>17, <1>18, <1>19, <1>20, <1>21, <1>22, <1>23 DEF Next, Execute

-----------------------------------------------------------------------------
(***************************************************************************)
(* What a call has established                                             *)
(***************************************************************************)
LEMMA EstablishedStays ==
  ASSUME TypeOK, Established, [Next]_vars
  PROVE  Established'
<1>a. \A u : Existed(u) => Existed(u)'
  BY LogSteps, CommittedStays
<1>1. ASSUME NEW o \in Ops, RejectId(o) PROVE Established'
  BY <1>1, <1>a
  DEF RejectId, Answer, Goto, TypeOK, Established, Asked, At, Kind, Valid, User,
      Id
<1>2. ASSUME NEW o \in Ops, RejectEmail(o) PROVE Established'
  BY <1>2, <1>a
  DEF RejectEmail, Answer, Goto, TypeOK, Established, Asked, At, Kind, Valid,
      User, Id
<1>3. ASSUME NEW o \in Ops, Create(o) PROVE Established'
  BY <1>3, <1>a
  DEF Create, Answer, Goto, TypeOK, Established, Asked, At, Kind, Valid, User,
      Id
<1>4. ASSUME NEW o \in Ops, CacheHit(o) PROVE Established'
  BY <1>4, <1>a
  DEF CacheHit, Answer, Goto, TypeOK, Established, Asked, At, Kind, Valid, User,
      Id
<1>5. ASSUME NEW o \in Ops, CacheMiss(o) PROVE Established'
  BY <1>5, <1>a
  DEF CacheMiss, Goto, TypeOK, Established, Asked, At, Kind, Valid, User, Id
<1>6. ASSUME NEW o \in Ops, TakeOff(o) PROVE Established'
  BY <1>6, <1>a
  DEF TakeOff, Goto, TypeOK, Established, Asked, At, Kind, Valid, User, Id
<1>7. ASSUME NEW o \in Ops, Join(o) PROVE Established'
  BY <1>7, <1>a
  DEF Join, Goto, TypeOK, Established, Asked, At, Kind, Valid, User, Id
<1>8. ASSUME NEW o \in Ops, FindByID(o) PROVE Established'
  BY <1>8, <1>a
  DEF FindByID, Goto, TypeOK, Established, Asked, At, Kind, Valid, User, Id
<1>9. ASSUME NEW o \in Ops, Land(o) PROVE Established'
  <2>1. \A p \in Aboard(o) : pc[p] \in {"landing", "joined"}
    BY <1>9 DEF Land, Aboard, At
  <2>2. row[o] \in Row => Verdict(row[o]) = "none"
    BY RepositoryAssumption, UseCaseAssumption DEF Verdict
  <2> QED
    BY <1>9, <1>a, <2>1, <2>2
    DEF Land, Found, TypeOK, Established, Kind, Valid, User, Id
<1>10. ASSUME NEW o \in Ops, Fill(o) PROVE Established'
  BY <1>10, <1>a
  DEF Fill, Answer, Goto, TypeOK, Established, Asked, At, Kind, Valid, User, Id
<1>11. ASSUME NEW o \in Ops, SkipFill(o) PROVE Established'
  BY <1>11, <1>a
  DEF SkipFill, Answer, Goto, TypeOK, Established, Asked, At, Kind, Valid, User,
      Id
<1>12. ASSUME NEW o \in Ops, FindForUpdate(o) PROVE Established'
  <2>1. User(o) \in Users /\ call[o] \in Calls
    BY <1>12, CallsTyped DEF FindForUpdate, Asked
  <2>2. Reader[User(o)] # NoRow => Existed(User(o)) /\ Reader[User(o)] \in Row
    BY <2>1, ReaderCommitted DEF Committed, Existed
  <2>3. Reader[User(o)] # NoRow /\ call[o].email # BadEmail =>
          Changed(call[o], Reader[User(o)]) \in Row
    BY <2>1, <2>2, ChangedTyped
  <2> QED
    BY <1>12, <1>a, <2>2, <2>3
    DEF FindForUpdate, Answer, Goto, TypeOK, Established, Asked, At, Kind,
        Valid, User, Id
<1>13. ASSUME NEW o \in Ops, Save(o) PROVE Established'
  BY <1>13, <1>a
  DEF Save, AfterWrite, Answer, Goto, TypeOK, Established, Asked, At, Kind,
      Valid, User, Id
<1>14. ASSUME NEW o \in Ops, SaveRefused(o) PROVE Established'
  BY <1>14, <1>a
  DEF SaveRefused, Answer, Goto, TypeOK, Established, Asked, At, Kind, Valid,
      User, Id
<1>15. ASSUME NEW o \in Ops, Deactivate(o) PROVE Established'
  BY <1>15, <1>a
  DEF Deactivate, AfterWrite, Answer, Goto, TypeOK, Established, Asked, At,
      Kind, Valid, User, Id
<1>16. ASSUME NEW o \in Ops, NothingToDelete(o) PROVE Established'
  BY <1>16, <1>a
  DEF NothingToDelete, Answer, Goto, TypeOK, Established, Asked, At, Kind,
      Valid, User, Id
<1>17. ASSUME NEW o \in Ops, Invalidate(o) PROVE Established'
  BY <1>17, <1>a
  DEF Invalidate, Answer, Goto, TypeOK, Established, Asked, At, Kind, Valid,
      User, Id
<1>18. ASSUME NEW o \in Ops, InvalidateFails(o) PROVE Established'
  BY <1>18, <1>a
  DEF InvalidateFails, Answer, Goto, TypeOK, Established, Asked, At, Kind,
      Valid, User, Id
<1>19. ASSUME NEW o \in Ops, ReadErrs(o) PROVE Established'
  BY <1>19, <1>a
  DEF ReadErrs, Answer, Goto, TypeOK, Established, Asked, At, Kind, Valid, User,
      Id
<1>20. ASSUME NEW o \in Ops, WriteErrs(o) PROVE Established'
  BY <1>20, <1>a
  DEF WriteErrs, WriteApplied, Answer, Goto, TypeOK, Established, Asked, At,
      Kind, Valid, User, Id
<1>21. ASSUME NEW id \in Ids, Expire(id) PROVE Established'
  BY <1>21, <1>a
  DEF Expire, TypeOK, Established, Asked, At, Kind, Valid, User, Id
<1>22. CASE CatchUp
  BY <1>22, <1>a
  DEF CatchUp, Replicate, TypeOK, Established, Asked, At, Kind, Valid, User, Id
<1>23. CASE UNCHANGED vars
  BY <1>23, <1>a
  DEF vars, TypeOK, Established, Asked, At, Kind, Valid, User, Id
<1> QED
  BY <1>1, <1>2, <1>3, <1>4, <1>5, <1>6, <1>7, <1>8, <1>9, <1>10, <1>11, <1>12,
     <1>13, <1>14, <1>15, <1>16, <1>17, <1>18, <1>19, <1>20, <1>21, <1>22, <1>23
  DEF Next, Execute

\* No step takes a call back to its beginning or changes what it was asked.
LEMMA CallsGoOn ==
  ASSUME TypeOK, [Next]_vars
  PROVE  call' = call /\ \A p \in Ops : pc'[p] = "begun" => pc[p] = "begun"
<1>1. ASSUME NEW o \in Ops, RejectId(o) PROVE call' = call /\ \A p \in Ops : pc'[p] = "begun" => pc[p] = "begun"
  BY <1>1
  DEF RejectId, Answer, Goto, TypeOK, Asked, At
<1>2. ASSUME NEW o \in Ops, RejectEmail(o) PROVE call' = call /\ \A p \in Ops : pc'[p] = "begun" => pc[p] = "begun"
  BY <1>2
  DEF RejectEmail, Answer, Goto, TypeOK, Asked, At
<1>3. ASSUME NEW o \in Ops, Create(o) PROVE call' = call /\ \A p \in Ops : pc'[p] = "begun" => pc[p] = "begun"
  BY <1>3
  DEF Create, Answer, Goto, TypeOK, Asked, At
<1>4. ASSUME NEW o \in Ops, CacheHit(o) PROVE call' = call /\ \A p \in Ops : pc'[p] = "begun" => pc[p] = "begun"
  BY <1>4
  DEF CacheHit, Answer, Goto, TypeOK, Asked, At
<1>5. ASSUME NEW o \in Ops, CacheMiss(o) PROVE call' = call /\ \A p \in Ops : pc'[p] = "begun" => pc[p] = "begun"
  BY <1>5
  DEF CacheMiss, Goto, TypeOK, Asked, At
<1>6. ASSUME NEW o \in Ops, TakeOff(o) PROVE call' = call /\ \A p \in Ops : pc'[p] = "begun" => pc[p] = "begun"
  BY <1>6
  DEF TakeOff, Goto, TypeOK, Asked, At
<1>7. ASSUME NEW o \in Ops, Join(o) PROVE call' = call /\ \A p \in Ops : pc'[p] = "begun" => pc[p] = "begun"
  BY <1>7
  DEF Join, Goto, TypeOK, Asked, At
<1>8. ASSUME NEW o \in Ops, FindByID(o) PROVE call' = call /\ \A p \in Ops : pc'[p] = "begun" => pc[p] = "begun"
  BY <1>8
  DEF FindByID, Goto, TypeOK, Asked, At
<1>9. ASSUME NEW o \in Ops, Land(o) PROVE call' = call /\ \A p \in Ops : pc'[p] = "begun" => pc[p] = "begun"
  BY <1>9
  DEF Land, Aboard, Found, Goto, TypeOK, Asked, At
<1>10. ASSUME NEW o \in Ops, Fill(o) PROVE call' = call /\ \A p \in Ops : pc'[p] = "begun" => pc[p] = "begun"
  BY <1>10
  DEF Fill, Answer, Goto, TypeOK, Asked, At
<1>11. ASSUME NEW o \in Ops, SkipFill(o) PROVE call' = call /\ \A p \in Ops : pc'[p] = "begun" => pc[p] = "begun"
  BY <1>11
  DEF SkipFill, Answer, Goto, TypeOK, Asked, At
<1>12. ASSUME NEW o \in Ops, FindForUpdate(o) PROVE call' = call /\ \A p \in Ops : pc'[p] = "begun" => pc[p] = "begun"
  BY <1>12
  DEF FindForUpdate, Answer, Goto, TypeOK, Asked, At
<1>13. ASSUME NEW o \in Ops, Save(o) PROVE call' = call /\ \A p \in Ops : pc'[p] = "begun" => pc[p] = "begun"
  BY <1>13
  DEF Save, AfterWrite, Answer, Goto, TypeOK, Asked, At
<1>14. ASSUME NEW o \in Ops, SaveRefused(o) PROVE call' = call /\ \A p \in Ops : pc'[p] = "begun" => pc[p] = "begun"
  BY <1>14
  DEF SaveRefused, Answer, Goto, TypeOK, Asked, At
<1>15. ASSUME NEW o \in Ops, Deactivate(o) PROVE call' = call /\ \A p \in Ops : pc'[p] = "begun" => pc[p] = "begun"
  BY <1>15
  DEF Deactivate, AfterWrite, Answer, Goto, TypeOK, Asked, At
<1>16. ASSUME NEW o \in Ops, NothingToDelete(o) PROVE call' = call /\ \A p \in Ops : pc'[p] = "begun" => pc[p] = "begun"
  BY <1>16
  DEF NothingToDelete, Answer, Goto, TypeOK, Asked, At
<1>17. ASSUME NEW o \in Ops, Invalidate(o) PROVE call' = call /\ \A p \in Ops : pc'[p] = "begun" => pc[p] = "begun"
  BY <1>17
  DEF Invalidate, Answer, Goto, TypeOK, Asked, At
<1>18. ASSUME NEW o \in Ops, InvalidateFails(o) PROVE call' = call /\ \A p \in Ops : pc'[p] = "begun" => pc[p] = "begun"
  BY <1>18
  DEF InvalidateFails, Answer, Goto, TypeOK, Asked, At
<1>19. ASSUME NEW o \in Ops, ReadErrs(o) PROVE call' = call /\ \A p \in Ops : pc'[p] = "begun" => pc[p] = "begun"
  BY <1>19
  DEF ReadErrs, Answer, Goto, TypeOK, Asked, At
<1>20. ASSUME NEW o \in Ops, WriteErrs(o) PROVE call' = call /\ \A p \in Ops : pc'[p] = "begun" => pc[p] = "begun"
  BY <1>20
  DEF WriteErrs, WriteApplied, Answer, Goto, TypeOK, Asked, At
<1>21. ASSUME NEW id \in Ids, Expire(id) PROVE call' = call /\ \A p \in Ops : pc'[p] = "begun" => pc[p] = "begun"
  BY <1>21
  DEF Expire, TypeOK, Asked, At
<1>22. CASE CatchUp
  BY <1>22
  DEF CatchUp, Replicate, TypeOK, Asked, At
<1>23. CASE UNCHANGED vars
  BY <1>23
  DEF vars, TypeOK, Asked, At
<1> QED
  BY <1>1, <1>2, <1>3, <1>4, <1>5, <1>6, <1>7, <1>8, <1>9, <1>10, <1>11, <1>12,
     <1>13, <1>14, <1>15, <1>16, <1>17, <1>18, <1>19, <1>20, <1>21, <1>22, <1>23
  DEF Next, Execute

LEMMA NewKeysStay ==
  ASSUME TypeOK, Established, NewKeys, [Next]_vars
  PROVE  NewKeys'
<1>1. LogStep
  BY LogSteps
<1>2. call' = call /\ \A p \in Ops : pc'[p] = "begun" => pc[p] = "begun"
  BY CallsGoOn
<1>3. ASSUME NEW o \in Ops, Kind(o)' = "create", pc'[o] = "begun"
      PROVE  ~Existed(User(o))'
  <2>1. Kind(o) = "create" /\ pc[o] = "begun" /\ User(o)' = User(o)
    BY <1>2, <1>3 DEF Kind, User, Id
  <2>2. ~Existed(User(o))
    BY <2>1 DEF NewKeys
  <2>3. CASE log' = log
    BY <2>1, <2>2, <2>3 DEF Existed
  <2>4. ASSUME NEW p \in Ops, NEW r \in Row, User(p) \in Users, Commit(User(p), r),
               Existed(User(p)) \/ (Kind(p) = "create" /\ pc[p] = "begun" /\ pc'[p] # "begun")
        PROVE  ~Existed(User(o))'
    <3>1. User(p) # User(o)
      BY <1>3, <2>1, <2>2, <2>4 DEF NewKeys
    <3>2. /\ Len(log') = Len(log) + 1
          /\ \A i \in 1..Len(log) : log'[i] = log[i]
          /\ log'[Len(log')] = [Writer EXCEPT ![User(p)] = r]
      BY <2>4, CommitAppends
    <3>3. Writer[User(o)] = NoRow
      BY <2>2 DEF Existed, Writer, TypeOK
    <3>4. User(o) \in Users
      BY <2>1, CallsTyped, UseCaseAssumption DEF Kind, User, Id, Call
    <3>5. log'[Len(log')][User(o)] = NoRow
      BY <3>1, <3>2, <3>3, <3>4, WriterTyped DEF Table
    <3>6. \A i \in 1..Len(log) : log[i][User(o)] = NoRow
      BY <2>2 DEF Existed
    <3>7. \A i \in 1..Len(log') : i \in 1..Len(log) \/ i = Len(log')
      BY <3>2 DEF TypeOK
    <3>8. \A i \in 1..Len(log') : log'[i][User(o)] = NoRow
      BY <3>2, <3>5, <3>6, <3>7
    <3> QED
      BY <2>1, <3>8 DEF Existed
  <2> QED BY <1>1, <2>3, <2>4 DEF LogStep
<1>4. \A o, p \in Ops :
        Kind(o)' = "create" /\ Kind(p)' = "create" /\ User(o)' = User(p)' => o = p
  BY <1>2 DEF NewKeys, Kind, User, Id
<1> QED BY <1>3, <1>4 DEF NewKeys

-----------------------------------------------------------------------------
(***************************************************************************)
(* Cached rows and rows in hand                                            *)
(***************************************************************************)
LEMMA CacheSoundStays ==
  ASSUME TypeOK, Established, CacheSound, RowsSound, [Next]_vars
  PROVE  CacheSound'
<1>a. \A u, r : Committed(u, r) => Committed(u, r)'
  BY LogSteps, CommittedStays
<1>1. ASSUME NEW o \in Ops, RejectId(o) PROVE CacheSound'
  BY <1>1, <1>a
  DEF RejectId, Answer, Goto, TypeOK, CacheSound
<1>2. ASSUME NEW o \in Ops, RejectEmail(o) PROVE CacheSound'
  BY <1>2, <1>a
  DEF RejectEmail, Answer, Goto, TypeOK, CacheSound
<1>3. ASSUME NEW o \in Ops, Create(o) PROVE CacheSound'
  BY <1>3, <1>a
  DEF Create, Answer, Goto, TypeOK, CacheSound
<1>4. ASSUME NEW o \in Ops, CacheHit(o) PROVE CacheSound'
  BY <1>4, <1>a
  DEF CacheHit, Answer, Goto, TypeOK, CacheSound
<1>5. ASSUME NEW o \in Ops, CacheMiss(o) PROVE CacheSound'
  BY <1>5, <1>a
  DEF CacheMiss, Goto, TypeOK, CacheSound
<1>6. ASSUME NEW o \in Ops, TakeOff(o) PROVE CacheSound'
  BY <1>6, <1>a
  DEF TakeOff, Goto, TypeOK, CacheSound
<1>7. ASSUME NEW o \in Ops, Join(o) PROVE CacheSound'
  BY <1>7, <1>a
  DEF Join, Goto, TypeOK, CacheSound
<1>8. ASSUME NEW o \in Ops, FindByID(o) PROVE CacheSound'
  BY <1>8, <1>a
  DEF FindByID, Goto, TypeOK, CacheSound
<1>9. ASSUME NEW o \in Ops, Land(o) PROVE CacheSound'
  BY <1>9, <1>a
  DEF Land, Aboard, Found, Goto, TypeOK, CacheSound
<1>10. ASSUME NEW o \in Ops, Fill(o) PROVE CacheSound'
  <2>1. /\ row[o] \in Row /\ User(o) \in Users /\ User(o) = UserOf[Id(o)]
        /\ Committed(User(o), row[o])
    BY <1>10, CallsTyped DEF Fill, At, Established, RowsSound, User
  <2>2. \A id \in Ids : cache'[id] = IF id = Id(o) THEN row[o] ELSE cache[id]
    BY <1>10 DEF Fill, TypeOK
  <2> QED BY <1>10, <1>a, <2>1, <2>2 DEF Fill, CacheSound
<1>11. ASSUME NEW o \in Ops, SkipFill(o) PROVE CacheSound'
  BY <1>11, <1>a
  DEF SkipFill, Answer, Goto, TypeOK, CacheSound
<1>12. ASSUME NEW o \in Ops, FindForUpdate(o) PROVE CacheSound'
  BY <1>12, <1>a
  DEF FindForUpdate, Answer, Goto, TypeOK, CacheSound
<1>13. ASSUME NEW o \in Ops, Save(o) PROVE CacheSound'
  BY <1>13, <1>a
  DEF Save, AfterWrite, Answer, Goto, TypeOK, CacheSound
<1>14. ASSUME NEW o \in Ops, SaveRefused(o) PROVE CacheSound'
  BY <1>14, <1>a
  DEF SaveRefused, Answer, Goto, TypeOK, CacheSound
<1>15. ASSUME NEW o \in Ops, Deactivate(o) PROVE CacheSound'
  BY <1>15, <1>a
  DEF Deactivate, AfterWrite, Answer, Goto, TypeOK, CacheSound
<1>16. ASSUME NEW o \in Ops, NothingToDelete(o) PROVE CacheSound'
  BY <1>16, <1>a
  DEF NothingToDelete, Answer, Goto, TypeOK, CacheSound
<1>17. ASSUME NEW o \in Ops, Invalidate(o) PROVE CacheSound'
  BY <1>17, <1>a
  DEF Invalidate, Answer, Goto, TypeOK, CacheSound
<1>18. ASSUME NEW o \in Ops, InvalidateFails(o) PROVE CacheSound'
  BY <1>18, <1>a
  DEF InvalidateFails, Answer, Goto, TypeOK, CacheSound
<1>19. ASSUME NEW o \in Ops, ReadErrs(o) PROVE CacheSound'
  BY <1>19, <1>a
  DEF ReadErrs, Answer, Goto, TypeOK, CacheSound
<1>20. ASSUME NEW o \in Ops, WriteErrs(o) PROVE CacheSound'
  BY <1>20, <1>a
  DEF WriteErrs, WriteApplied, Answer, Goto, TypeOK, CacheSound
<1>21. ASSUME NEW id \in Ids, Expire(id) PROVE CacheSound'
  BY <1>21, <1>a
  DEF Expire, TypeOK, CacheSound
<1>22. CASE CatchUp
  BY <1>22, <1>a
  DEF CatchUp, Replicate, TypeOK, CacheSound
<1>23. CASE UNCHANGED vars
  BY <1>23, <1>a
  DEF vars, TypeOK, CacheSound
<1> QED
  BY <1>1, <1>2, <1>3, <1>4, <1>5, <1>6, <1>7, <1>8, <1>9, <1>10, <1>11, <1>12,
     <1>13, <1>14, <1>15, <1>16, <1>17, <1>18, <1>19, <1>20, <1>21, <1>22, <1>23
  DEF Next, Execute

LEMMA RowsSoundStays ==
  ASSUME TypeOK, Established, CacheSound, RowsSound, [Next]_vars
  PROVE  RowsSound'
<1>a. \A u, r : Committed(u, r) => Committed(u, r)'
  BY LogSteps, CommittedStays
<1>1. ASSUME NEW o \in Ops, RejectId(o) PROVE RowsSound'
  BY <1>1, <1>a
  DEF RejectId, Answer, Goto, TypeOK, Established, RowsSound, Asked, At, Kind,
      Valid, User, Id
<1>2. ASSUME NEW o \in Ops, RejectEmail(o) PROVE RowsSound'
  BY <1>2, <1>a
  DEF RejectEmail, Answer, Goto, TypeOK, Established, RowsSound, Asked, At,
      Kind, Valid, User, Id
<1>3. ASSUME NEW o \in Ops, Create(o) PROVE RowsSound'
  BY <1>3, <1>a
  DEF Create, Answer, Goto, TypeOK, Established, RowsSound, Asked, At, Kind,
      Valid, User, Id
<1>4. ASSUME NEW o \in Ops, CacheHit(o) PROVE RowsSound'
  <2>1. Id(o) \in Ids /\ Committed(User(o), cache[Id(o)])
    BY <1>4, CallsTyped DEF CacheHit, CacheSound, User
  <2> QED
    BY <1>4, <1>a, <2>1
    DEF CacheHit, Answer, Goto, TypeOK, RowsSound, Kind, User, Id
<1>5. ASSUME NEW o \in Ops, CacheMiss(o) PROVE RowsSound'
  BY <1>5, <1>a
  DEF CacheMiss, Goto, TypeOK, Established, RowsSound, Asked, At, Kind, Valid,
      User, Id
<1>6. ASSUME NEW o \in Ops, TakeOff(o) PROVE RowsSound'
  BY <1>6, <1>a
  DEF TakeOff, Goto, TypeOK, Established, RowsSound, Asked, At, Kind, Valid,
      User, Id
<1>7. ASSUME NEW o \in Ops, Join(o) PROVE RowsSound'
  BY <1>7, <1>a
  DEF Join, Goto, TypeOK, Established, RowsSound, Asked, At, Kind, Valid, User,
      Id
<1>8. ASSUME NEW o \in Ops, FindByID(o) PROVE RowsSound'
  <2>1. Committed(User(o), Reader[User(o)])
    BY <1>8, CallsTyped, ReaderCommitted DEF FindByID, At, Established
  <2>2. Failed \notin Row
    BY UseCaseAssumption
  <2> QED
    BY <1>8, <1>a, <2>1, <2>2
    DEF FindByID, Goto, TypeOK, Established, RowsSound, At, Kind, User, Id
<1>9. ASSUME NEW o \in Ops, Land(o) PROVE RowsSound'
  <2>1. \A p \in Aboard(o) : User(p) = User(o)
    BY <1>9 DEF Aboard, User
  <2>2. row[o] \in Row => Committed(User(o), row[o])
    BY <1>9 DEF Land, At, RowsSound
  <2>3. Verdict(row[o]) # "ok"
    BY DEF Verdict
  <2>4. ASSUME NEW p \in Ops
        PROVE  /\ pc'[p] \in {"landing", "fetched"} /\ row'[p] \in Row =>
                    Committed(User(p), row'[p])
               /\ Kind(p) = "get" /\ reply'[p] = "ok" => Committed(User(p), row'[p])
    <3>1. CASE p \in Aboard(o)
      BY <1>9, <2>1, <2>2, <2>3, <3>1 DEF Land
    <3>2. CASE p \notin Aboard(o)
      BY <1>9, <3>2 DEF Land, RowsSound
    <3> QED BY <3>1, <3>2
  <2>5. call' = call /\ log' = log
    BY <1>9 DEF Land
  <2> QED BY <1>a, <2>4, <2>5 DEF RowsSound, Kind, User, Id
<1>10. ASSUME NEW o \in Ops, Fill(o) PROVE RowsSound'
  BY <1>10, <1>a
  DEF Fill, Answer, Goto, TypeOK, Established, RowsSound, Asked, At, Kind,
      Valid, User, Id
<1>11. ASSUME NEW o \in Ops, SkipFill(o) PROVE RowsSound'
  BY <1>11, <1>a
  DEF SkipFill, Answer, Goto, TypeOK, Established, RowsSound, Asked, At, Kind,
      Valid, User, Id
<1>12. ASSUME NEW o \in Ops, FindForUpdate(o) PROVE RowsSound'
  BY <1>12, <1>a
  DEF FindForUpdate, Answer, Goto, TypeOK, Established, RowsSound, Asked, At,
      Kind, Valid, User, Id
<1>13. ASSUME NEW o \in Ops, Save(o) PROVE RowsSound'
  BY <1>13, <1>a
  DEF Save, AfterWrite, Answer, Goto, TypeOK, Established, RowsSound, Asked, At,
      Kind, Valid, User, Id
<1>14. ASSUME NEW o \in Ops, SaveRefused(o) PROVE RowsSound'
  BY <1>14, <1>a
  DEF SaveRefused, Answer, Goto, TypeOK, Established, RowsSound, Asked, At,
      Kind, Valid, User, Id
<1>15. ASSUME NEW o \in Ops, Deactivate(o) PROVE RowsSound'
  BY <1>15, <1>a
  DEF Deactivate, AfterWrite, Answer, Goto, TypeOK, Established, RowsSound,
      Asked, At, Kind, Valid, User, Id
<1>16. ASSUME NEW o \in Ops, NothingToDelete(o) PROVE RowsSound'
  BY <1>16, <1>a
  DEF NothingToDelete, Answer, Goto, TypeOK, Established, RowsSound, Asked, At,
      Kind, Valid, User, Id
<1>17. ASSUME NEW o \in Ops, Invalidate(o) PROVE RowsSound'
  BY <1>17, <1>a
  DEF Invalidate, Answer, Goto, TypeOK, Established, RowsSound, Asked, At, Kind,
      Valid, User, Id
<1>18. ASSUME NEW o \in Ops, InvalidateFails(o) PROVE RowsSound'
  BY <1>18, <1>a
  DEF InvalidateFails, Answer, Goto, TypeOK, Established, RowsSound, Asked, At,
      Kind, Valid, User, Id
<1>19. ASSUME NEW o \in Ops, ReadErrs(o) PROVE RowsSound'
  BY <1>19, <1>a
  DEF ReadErrs, Answer, Goto, TypeOK, Established, RowsSound, Asked, At, Kind,
      Valid, User, Id
<1>20. ASSUME NEW o \in Ops, WriteErrs(o) PROVE RowsSound'
  BY <1>20, <1>a
  DEF WriteErrs, WriteApplied, Answer, Goto, TypeOK, Established, RowsSound,
      Asked, At, Kind, Valid, User, Id
<1>21. ASSUME NEW id \in Ids, Expire(id) PROVE RowsSound'
  BY <1>21, <1>a
  DEF Expire, TypeOK, Established, RowsSound, Asked, At, Kind, Valid, User, Id
<1>22. CASE CatchUp
  BY <1>22, <1>a
  DEF CatchUp, Replicate, TypeOK, Established, RowsSound, Asked, At, Kind,
      Valid, User, Id
<1>23. CASE UNCHANGED vars
  BY <1>23, <1>a
  DEF vars, TypeOK, Established, RowsSound, Asked, At, Kind, Valid, User, Id
<1> QED
  BY <1>1, <1>2, <1>3, <1>4, <1>5, <1>6, <1>7, <1>8, <1>9, <1>10, <1>11, <1>12,
     <1>13, <1>14, <1>15, <1>16, <1>17, <1>18, <1>19, <1>20, <1>21, <1>22, <1>23
  DEF Next, Execute

-----------------------------------------------------------------------------
(***************************************************************************)
(* The flight group                                                        *)
(***************************************************************************)
\* Calls that stay away from the group leave it as it is.
LEMMA FlightsUntouched ==
  ASSUME TypeOK, FlightsSound, NEW o \in Ops, NEW place \in Places,
         flight' = flight, call' = call, pc' = [pc EXCEPT ![o] = place],
         {pc[o], place} \cap {"reading", "landing", "joined"} = {}
  PROVE  FlightsSound'
<1>1. \A p \in Ops : pc'[p] = IF p = o THEN place ELSE pc[p]
  BY DEF TypeOK
<1>2. \A p \in Ops : /\ Fetching(p)' <=> Fetching(p)
                     /\ At(p, "joined")' <=> At(p, "joined")
                     /\ Id(p)' = Id(p) /\ InFlight(p)' = InFlight(p)
  BY <1>1 DEF Fetching, At, Id, InFlight
<1>3. ASSUME WithFlight, NEW i \in Instances, NEW id \in Ids, flight[i][id] # NoOp
      PROVE  flight[i][id] \in Ops
  BY <1>3 DEF TypeOK
<1> QED BY <1>2, <1>3 DEF FlightsSound

LEMMA FlightsSoundStays ==
  ASSUME TypeOK, Established, FlightsSound, [Next]_vars
  PROVE  FlightsSound'
<1>a. /\ \A o \in Ops : Id(o) \in Ids /\ InstanceOf[o] \in Instances
      /\ NoOp \notin Ops
  BY CallsTyped, UseCaseAssumption
<1>1. ASSUME NEW o \in Ops, RejectId(o) PROVE FlightsSound'
  BY <1>1, <1>a
  DEF RejectId, Answer, Goto, TypeOK, Established, FlightsSound, Fetching,
      InFlight, Asked, At, Kind, Id
<1>2. ASSUME NEW o \in Ops, RejectEmail(o) PROVE FlightsSound'
  BY <1>2, <1>a
  DEF RejectEmail, Answer, Goto, TypeOK, Established, FlightsSound, Fetching,
      InFlight, Asked, At, Kind, Id
<1>3. ASSUME NEW o \in Ops, Create(o) PROVE FlightsSound'
  BY <1>3, FlightsUntouched
  DEF Create, Asked, At, Answer, Goto, Places
<1>4. ASSUME NEW o \in Ops, CacheHit(o) PROVE FlightsSound'
  BY <1>4, <1>a
  DEF CacheHit, Answer, Goto, TypeOK, Established, FlightsSound, Fetching,
      InFlight, Asked, At, Kind, Id
<1>5. ASSUME NEW o \in Ops, CacheMiss(o) PROVE FlightsSound'
  BY <1>5, <1>a
  DEF CacheMiss, Goto, TypeOK, Established, FlightsSound, Fetching, InFlight,
      Asked, At, Kind, Id
<1>6. ASSUME NEW o \in Ops, TakeOff(o) PROVE FlightsSound'
  BY <1>6, <1>a
  DEF TakeOff, Goto, TypeOK, Established, FlightsSound, Fetching, InFlight,
      Asked, At, Kind, Id
<1>7. ASSUME NEW o \in Ops, Join(o) PROVE FlightsSound'
  BY <1>7, <1>a
  DEF Join, Goto, TypeOK, Established, FlightsSound, Fetching, InFlight, Asked,
      At, Kind, Id
<1>8. ASSUME NEW o \in Ops, FindByID(o) PROVE FlightsSound'
  BY <1>8, <1>a
  DEF FindByID, Goto, TypeOK, Established, FlightsSound, Fetching, InFlight,
      Asked, At, Kind, Id
<1>9. ASSUME NEW o \in Ops, Land(o) PROVE FlightsSound'
  BY <1>9, <1>a
  DEF Land, Aboard, Found, Goto, TypeOK, Established, FlightsSound, Fetching,
      InFlight, Asked, At, Kind, Id
<1>10. ASSUME NEW o \in Ops, Fill(o) PROVE FlightsSound'
  BY <1>10, <1>a
  DEF Fill, Answer, Goto, TypeOK, Established, FlightsSound, Fetching, InFlight,
      Asked, At, Kind, Id
<1>11. ASSUME NEW o \in Ops, SkipFill(o) PROVE FlightsSound'
  BY <1>11, <1>a
  DEF SkipFill, Answer, Goto, TypeOK, Established, FlightsSound, Fetching,
      InFlight, Asked, At, Kind, Id
<1>12. ASSUME NEW o \in Ops, FindForUpdate(o) PROVE FlightsSound'
  BY <1>12, <1>a
  DEF FindForUpdate, Answer, Goto, TypeOK, Established, FlightsSound, Fetching,
      InFlight, Asked, At, Kind, Id
<1>13. ASSUME NEW o \in Ops, Save(o) PROVE FlightsSound'
  BY <1>13, FlightsUntouched
  DEF Save, At, AfterWrite, Answer, Goto, Places
<1>14. ASSUME NEW o \in Ops, SaveRefused(o) PROVE FlightsSound'
  BY <1>14, <1>a
  DEF SaveRefused, Answer, Goto, TypeOK, Established, FlightsSound, Fetching,
      InFlight, Asked, At, Kind, Id
<1>15. ASSUME NEW o \in Ops, Deactivate(o) PROVE FlightsSound'
  BY <1>15, FlightsUntouched
  DEF Deactivate, Asked, At, AfterWrite, Answer, Goto, Places
<1>16. ASSUME NEW o \in Ops, NothingToDelete(o) PROVE FlightsSound'
  BY <1>16, <1>a
  DEF NothingToDelete, Answer, Goto, TypeOK, Established, FlightsSound,
      Fetching, InFlight, Asked, At, Kind, Id
<1>17. ASSUME NEW o \in Ops, Invalidate(o) PROVE FlightsSound'
  BY <1>17, <1>a
  DEF Invalidate, Answer, Goto, TypeOK, Established, FlightsSound, Fetching,
      InFlight, Asked, At, Kind, Id
<1>18. ASSUME NEW o \in Ops, InvalidateFails(o) PROVE FlightsSound'
  BY <1>18, <1>a
  DEF InvalidateFails, Answer, Goto, TypeOK, Established, FlightsSound,
      Fetching, InFlight, Asked, At, Kind, Id
<1>19. ASSUME NEW o \in Ops, ReadErrs(o) PROVE FlightsSound'
  BY <1>19, <1>a
  DEF ReadErrs, Answer, Goto, TypeOK, Established, FlightsSound, Fetching,
      InFlight, Asked, At, Kind, Id
<1>20. ASSUME NEW o \in Ops, WriteErrs(o) PROVE FlightsSound'
  BY <1>20, <1>a
  DEF WriteErrs, WriteApplied, Answer, Goto, TypeOK, Established, FlightsSound,
      Fetching, InFlight, Asked, At, Kind, Id
<1>21. ASSUME NEW id \in Ids, Expire(id) PROVE FlightsSound'
  BY <1>21, <1>a
  DEF Expire, TypeOK, Established, FlightsSound, Fetching, InFlight, Asked, At,
      Kind, Id
<1>22. CASE CatchUp
  BY <1>22, <1>a
  DEF CatchUp, Replicate, TypeOK, Established, FlightsSound, Fetching, InFlight,
      Asked, At, Kind, Id
<1>23. CASE UNCHANGED vars
  BY <1>23, <1>a
  DEF vars, TypeOK, Established, FlightsSound, Fetching, InFlight, Asked, At,
      Kind, Id
<1> QED
  BY <1>1, <1>2, <1>3, <1>4, <1>5, <1>6, <1>7, <1>8, <1>9, <1>10, <1>11, <1>12,
     <1>13, <1>14, <1>15, <1>16, <1>17, <1>18, <1>19, <1>20, <1>21, <1>22, <1>23
  DEF Next, Execute

-----------------------------------------------------------------------------
(***************************************************************************)
(* Stale rows                                                              *)
(***************************************************************************)
\* After a write, the rows still cached for the user written are excused one
\* by one; the rows of other users are as fresh as they were.
LEMMA StaleAfterWrite ==
  ASSUME TypeOK, CacheSound, StaleOnlyByRace, NEW o \in Ops, NEW r \in Row,
         User(o) \in Users, Commit(User(o), r), cache' = cache, call' = call,
         raced \subseteq raced',
         ~At(o, "invalidate"), \A p \in Ops \ {o} : pc'[p] = pc[p],
         \A id \in Spellings(User(o)) :
           cache[id] = Miss \/ id \in raced' \/ (pc'[o] = "invalidate" /\ Id(o) = id)
  PROVE  StaleOnlyByRace'
<1> SUFFICES ASSUME NEW id \in Ids, cache[id] # Miss,
                    cache[id] # Writer'[UserOf[id]]
             PROVE  id \in raced' \/ \E p \in Ops : pc'[p] = "invalidate" /\ Id(p) = id
  BY DEF StaleOnlyByRace, At, Id
<1>1. CASE UserOf[id] = User(o)
  BY <1>1 DEF Spellings
<1>2. CASE UserOf[id] # User(o)
  <2>1. UserOf[id] \in Users
    BY DEF CacheSound
  <2>2. Writer'[UserOf[id]] = Writer[UserOf[id]]
    BY <1>2, <2>1, CommitAppends, WriterTyped DEF Table
  <2>3. id \in raced \/ \E p \in Ops : At(p, "invalidate") /\ Id(p) = id
    BY <2>2 DEF StaleOnlyByRace
  <2> QED BY <2>3 DEF At
<1> QED BY <1>1, <1>2

\* Nothing is cached for a user that is being created.
LEMMA NewKeysNotCached ==
  ASSUME TypeOK, CacheSound, NewKeys, NEW o \in Ops, Asked(o, "create")
  PROVE  \A id \in Spellings(User(o)) : cache[id] = Miss
<1> SUFFICES ASSUME NEW id \in Spellings(User(o)), cache[id] # Miss PROVE FALSE
  OBVIOUS
<1>1. cache[id] \in Row /\ Committed(User(o), cache[id])
  BY DEF TypeOK, CacheSound, Spellings
<1>2. Existed(User(o))
  BY <1>1, RepositoryAssumption DEF Committed, Existed
<1> QED BY <1>2 DEF Asked, At, NewKeys

LEMMA StaleOnlyByRaceStays ==
  ASSUME TypeOK, Established, NewKeys, CacheSound, StaleOnlyByRace, [Next]_vars
  PROVE  StaleOnlyByRace'
<1>a. /\ \A o \in Ops : Id(o) \in Ids /\ (Valid(o) => User(o) \in Users)
      /\ Miss \notin Row
  BY CallsTyped, UseCaseAssumption
<1>1. ASSUME NEW o \in Ops, RejectId(o) PROVE StaleOnlyByRace'
  BY <1>1, <1>a
  DEF RejectId, Answer, Goto, TypeOK, Established, StaleOnlyByRace, Asked, At,
      Kind, User, Id, Writer
<1>2. ASSUME NEW o \in Ops, RejectEmail(o) PROVE StaleOnlyByRace'
  BY <1>2, <1>a
  DEF RejectEmail, Answer, Goto, TypeOK, Established, StaleOnlyByRace, Asked,
      At, Kind, User, Id, Writer
<1>3. ASSUME NEW o \in Ops, Create(o) PROVE StaleOnlyByRace'
  <2>1. /\ Asked(o, "create") /\ cache' = cache /\ call' = call /\ raced' = raced
        /\ pc' = [pc EXCEPT ![o] = "done"]
    BY <1>3 DEF Create, Answer, Goto
  <2>2. CASE log' = log
    BY <2>1, <2>2
    DEF TypeOK, StaleOnlyByRace, Writer, User, Id, Asked, At
  <2>3. CASE log' # log
    <3>1. \E r \in Row : Commit(User(o), r)
      BY <1>3, <2>3, InsertStep DEF Create
    <3>2. User(o) \in Users /\ \A p \in Ops \ {o} : pc'[p] = pc[p]
      BY <1>3, <1>a, <2>1 DEF Create, Asked, TypeOK
    <3>3. ~At(o, "invalidate")
      BY <2>1 DEF Asked, At
    <3> QED BY <2>1, <3>1, <3>2, <3>3, NewKeysNotCached, StaleAfterWrite
  <2> QED BY <2>2, <2>3
<1>4. ASSUME NEW o \in Ops, CacheHit(o) PROVE StaleOnlyByRace'
  BY <1>4, <1>a
  DEF CacheHit, Answer, Goto, TypeOK, Established, StaleOnlyByRace, Asked, At,
      Kind, User, Id, Writer
<1>5. ASSUME NEW o \in Ops, CacheMiss(o) PROVE StaleOnlyByRace'
  BY <1>5, <1>a
  DEF CacheMiss, Goto, TypeOK, Established, StaleOnlyByRace, Asked, At, Kind,
      User, Id, Writer
<1>6. ASSUME NEW o \in Ops, TakeOff(o) PROVE StaleOnlyByRace'
  BY <1>6, <1>a
  DEF TakeOff, Goto, TypeOK, Established, StaleOnlyByRace, Asked, At, Kind,
      User, Id, Writer
<1>7. ASSUME NEW o \in Ops, Join(o) PROVE StaleOnlyByRace'
  BY <1>7, <1>a
  DEF Join, Goto, TypeOK, Established, StaleOnlyByRace, Asked, At, Kind, User,
      Id, Writer
<1>8. ASSUME NEW o \in Ops, FindByID(o) PROVE StaleOnlyByRace'
  BY <1>8, <1>a
  DEF FindByID, Goto, TypeOK, Established, StaleOnlyByRace, Asked, At, Kind,
      User, Id, Writer
<1>9. ASSUME NEW o \in Ops, Land(o) PROVE StaleOnlyByRace'
  BY <1>9, <1>a
  DEF Land, Aboard, Found, Goto, TypeOK, Established, StaleOnlyByRace, Asked,
      At, Kind, User, Id, Writer
<1>10. ASSUME NEW o \in Ops, Fill(o) PROVE StaleOnlyByRace'
  BY <1>10, <1>a
  DEF Fill, Answer, Goto, TypeOK, Established, StaleOnlyByRace, Asked, At, Kind,
      User, Id, Writer
<1>11. ASSUME NEW o \in Ops, SkipFill(o) PROVE StaleOnlyByRace'
  BY <1>11, <1>a
  DEF SkipFill, Answer, Goto, TypeOK, Established, StaleOnlyByRace, Asked, At,
      Kind, User, Id, Writer
<1>12. ASSUME NEW o \in Ops, FindForUpdate(o) PROVE StaleOnlyByRace'
  BY <1>12, <1>a
  DEF FindForUpdate, Answer, Goto, TypeOK, Established, StaleOnlyByRace, Asked,
      At, Kind, User, Id, Writer
<1>13. ASSUME NEW o \in Ops, Save(o) PROVE StaleOnlyByRace'
  <2>1. User(o) \in Users /\ \E r \in Row : Commit(User(o), r)
    BY <1>13, SaveStep DEF Save
  <2>2. /\ cache' = cache /\ call' = call
        /\ raced' = raced \cup (Spellings(User(o)) \ {Id(o)})
        /\ ~At(o, "invalidate")
    BY <1>13 DEF Save, Overtake, At
  <2>3. \A p \in Ops \ {o} : pc'[p] = pc[p]
    BY <1>13 DEF Save, AfterWrite, Answer, Goto, TypeOK
  <2>4. WithCache => pc'[o] = "invalidate"
    BY <1>13 DEF Save, AfterWrite, Goto, TypeOK
  <2>5. \A id \in Spellings(User(o)) :
          cache[id] = Miss \/ id \in raced' \/ (pc'[o] = "invalidate" /\ Id(o) = id)
    BY <2>2, <2>4 DEF CacheSound, Spellings
  <2> QED BY <2>1, <2>2, <2>3, <2>5, StaleAfterWrite
<1>14. ASSUME NEW o \in Ops, SaveRefused(o) PROVE StaleOnlyByRace'
  BY <1>14, <1>a
  DEF SaveRefused, Answer, Goto, TypeOK, Established, StaleOnlyByRace, Asked,
      At, Kind, User, Id, Writer
<1>15. ASSUME NEW o \in Ops, Deactivate(o) PROVE StaleOnlyByRace'
  <2>1. User(o) \in Users /\ \E r \in Row : Commit(User(o), r)
    BY <1>15, DeleteStep DEF Deactivate
  <2>2. /\ cache' = cache /\ call' = call
        /\ raced' = raced \cup (Spellings(User(o)) \ {Id(o)})
        /\ ~At(o, "invalidate")
    BY <1>15 DEF Deactivate, Overtake, Asked, At
  <2>3. \A p \in Ops \ {o} : pc'[p] = pc[p]
    BY <1>15 DEF Deactivate, AfterWrite, Answer, Goto, TypeOK
  <2>4. WithCache => pc'[o] = "invalidate"
    BY <1>15 DEF Deactivate, AfterWrite, Goto, TypeOK
  <2>5. \A id \in Spellings(User(o)) :
          cache[id] = Miss \/ id \in raced' \/ (pc'[o] = "invalidate" /\ Id(o) = id)
    BY <2>2, <2>4 DEF CacheSound, Spellings
  <2> QED BY <2>1, <2>2, <2>3, <2>5, StaleAfterWrite
<1>16. ASSUME NEW o \in Ops, NothingToDelete(o) PROVE StaleOnlyByRace'
  BY <1>16, <1>a
  DEF NothingToDelete, Answer, Goto, TypeOK, Established, StaleOnlyByRace,
      Asked, At, Kind, User, Id, Writer
<1>17. ASSUME NEW o \in Ops, Invalidate(o) PROVE StaleOnlyByRace'
  BY <1>17, <1>a
  DEF Invalidate, Answer, Goto, TypeOK, Established, StaleOnlyByRace, Asked, At,
      Kind, User, Id, Writer
<1>18. ASSUME NEW o \in Ops, InvalidateFails(o) PROVE StaleOnlyByRace'
  BY <1>18, <1>a
  DEF InvalidateFails, Answer, Goto, TypeOK, Established, StaleOnlyByRace,
      Asked, At, Kind, User, Id, Writer
<1>19. ASSUME NEW o \in Ops, ReadErrs(o) PROVE StaleOnlyByRace'
  BY <1>19, <1>a
  DEF ReadErrs, Answer, Goto, TypeOK, Established, StaleOnlyByRace, Asked, At,
      Kind, User, Id, Writer
<1>20. ASSUME NEW o \in Ops, WriteErrs(o) PROVE StaleOnlyByRace'
  <2>1. /\ cache' = cache /\ call' = call
        /\ pc' = [pc EXCEPT ![o] = "done"]
        /\ ~At(o, "invalidate")
    BY <1>20 DEF WriteErrs, WriteApplied, Asked, At, Answer, Goto
  <2>2. CASE log' = log /\ raced' = raced
    BY <2>1, <2>2 DEF TypeOK, StaleOnlyByRace, Writer, User, Id, At
  <2>3. CASE WriteApplied(o) /\ raced' = raced \cup Spellings(User(o))
    <3>1. User(o) \in Users /\ \E r \in Row : Commit(User(o), r)
      BY <2>3, InsertStep, SaveStep, DeleteStep DEF WriteApplied
    <3>2. \A p \in Ops \ {o} : pc'[p] = pc[p]
      BY <2>1 DEF TypeOK
    <3> QED BY <2>1, <2>3, <3>1, <3>2, StaleAfterWrite
  <2> QED BY <1>20, <2>2, <2>3 DEF WriteErrs
<1>21. ASSUME NEW id \in Ids, Expire(id) PROVE StaleOnlyByRace'
  BY <1>21, <1>a
  DEF Expire, TypeOK, Established, StaleOnlyByRace, Asked, At, Kind, User, Id,
      Writer
<1>22. CASE CatchUp
  BY <1>22, <1>a
  DEF CatchUp, Replicate, TypeOK, Established, StaleOnlyByRace, Asked, At, Kind,
      User, Id, Writer
<1>23. CASE UNCHANGED vars
  BY <1>23, <1>a
  DEF vars, TypeOK, Established, StaleOnlyByRace, Asked, At, Kind, User, Id,
      Writer
<1> QED
  BY <1>1, <1>2, <1>3, <1>4, <1>5, <1>6, <1>7, <1>8, <1>9, <1>10, <1>11, <1>12,
     <1>13, <1>14, <1>15, <1>16, <1>17, <1>18, <1>19, <1>20, <1>21, <1>22, <1>23
  DEF Next, Execute

-----------------------------------------------------------------------------
(***************************************************************************)
(* The inductive invariant                                                 *)
(***************************************************************************)
LEMMA InitIInv == Init => IInv
<1> SUFFICES ASSUME Init PROVE IInv
  OBVIOUS
<1>1. PICK t \in InitialTables : log = <<t>> /\ \A o \in Ops : GeneratesNewKey(o, t)
  BY DEF Init
<1>2. t \in Table /\ log \in Seq(Table) /\ Len(log) = 1 /\ log[1] = t
  BY <1>1, RepositoryAssumption
<1>3. TypeOK
  BY <1>2 DEF Init, TypeOK, Places, Answers
<1>4. Established
  BY DEF Init, Established
<1>5. NewKeys
  BY <1>1, <1>2 DEF Init, NewKeys, GeneratesNewKey, Existed, Kind, User, Id
<1>6. CacheSound /\ RowsSound /\ StaleOnlyByRace
  BY DEF Init, CacheSound, RowsSound, StaleOnlyByRace
<1>7. FlightsSound
  BY DEF Init, FlightsSound, Fetching, At
<1> QED BY <1>3, <1>4, <1>5, <1>6, <1>7 DEF IInv

LEMMA NextIInv == IInv /\ [Next]_vars => IInv'
BY TypesStay, EstablishedStays, NewKeysStay, CacheSoundStays, RowsSoundStays,
   FlightsSoundStays, StaleOnlyByRaceStays DEF IInv

\* What holds of the calls, the cache, the flight group and the tables in every
\* state.
THEOREM Inductive == Spec => []IInv
BY InitIInv, NextIInv, PTL DEF Spec

\* Every variable keeps its type.
THEOREM TypeCorrect == Spec => []TypeOK
<1>1. IInv => TypeOK
  BY DEF IInv
<1> QED BY <1>1, Inductive, PTL

\* Cached rows and the rows Get answers with were committed for that user.
THEOREM RowsAreCommitted == Spec => []NoPhantomRows
<1>1. IInv => NoPhantomRows
  BY DEF IInv, CacheSound, RowsSound, NoPhantomRows
<1> QED BY <1>1, Inductive, PTL

\* A stale row in the cache is about to be dropped or was overtaken by a race.
THEOREM OnlyRacesLeaveStaleRows == Spec => []StaleOnlyByRace
<1>1. IInv => StaleOnlyByRace
  BY DEF IInv
<1> QED BY <1>1, Inductive, PTL

\* The flight group runs one fetch per id, and nobody waits without one.
THEOREM FlightsAreShared == Spec => []OneFetchPerId
<1>1. IInv => OneFetchPerId
  <2> SUFFICES ASSUME IInv, WithFlight PROVE OneFetchPerId
    BY DEF OneFetchPerId
  <2>1. ASSUME NEW o \in Ops, NEW p \in Ops, Fetching(o), Fetching(p),
               InstanceOf[o] = InstanceOf[p], Id(o) = Id(p)
        PROVE  o = p
    BY <2>1 DEF IInv, FlightsSound
  <2>2. ASSUME NEW o \in Ops, At(o, "joined")
        PROVE  \E p \in Ops : Fetching(p) /\ InstanceOf[o] = InstanceOf[p] /\ Id(o) = Id(p)
    <3>1. InstanceOf[o] \in Instances /\ Id(o) \in Ids
      BY CallsTyped DEF IInv
    <3>2. flight[InstanceOf[o]][Id(o)] \in Ops
      BY <2>2, <3>1 DEF IInv, TypeOK, FlightsSound, InFlight
    <3> QED BY <2>2, <3>1, <3>2 DEF IInv, FlightsSound, InFlight
  <2> QED BY <2>1, <2>2 DEF OneFetchPerId
<1> QED BY <1>1, Inductive, PTL
=============================================================================
