-------------------------- MODULE ConsensusProofs --------------------------
(***************************************************************************)
(* Proofs about Consensus, for every set of commands, identities, sessions *)
(* and concurrent handlers, and for both stores unless a theorem says so.  *)
(***************************************************************************)
EXTENDS ConsensusRefinement, FiniteSetTheorems, TLAPS

(* The constant rows and handlers have the types the variables need. *)
LEMMA Defaults ==
    /\ AnySession \in Sessions
    /\ AnySession.email \in Emails
    /\ AnyCommand \in Commands
    /\ NoRow \in Action
    /\ NoRow.status = "none"
    /\ NoRow.approvals = <<>>
    /\ Idle \in Handler
    /\ Idle.pc = "idle"
    /\ Idle.id = 0
<1>1. AnySession \in Sessions /\ AnyCommand \in Commands
  BY SessionAssumption, CommandAssumption DEF AnySession, AnyCommand
<1>2. AnySession.email \in Emails
  BY <1>1, SessionAssumption
<1>4. NoRow \in Action /\ NoRow.status = "none" /\ NoRow.approvals = <<>>
  BY <1>1, <1>2 DEF NoRow, Action, Status
<1>5. Idle \in Handler /\ Idle.pc = "idle" /\ Idle.id = 0
  BY <1>1, BoundAssumption DEF Idle, Handler, Points
<1> QED
  BY <1>1, <1>2, <1>4, <1>5

(* A handler past its first read of a row refers to a row. *)
Pointing == {"complete", "vote", "insert", "reread", "mark",
             "legacyExpire", "legacyInsert", "legacyCount", "legacyMark", "legacyRun"}

HandlersPoint ==
    \A h \in Handlers : handlers[h].pc \in Pointing => handlers[h].id \in ActionIds

TypedInv == TypeOK /\ HandlersPoint

(* Sending a handler somewhere, or back to idle, keeps the handlers typed and
   pointing to rows. *)
LEMMA MovesTyped ==
    ASSUME handlers \in [Handlers -> Handler], HandlersPoint, NEW h \in Handlers,
           \/ Return(h)
           \/ \E pc \in Points : /\ Goto(h, pc)
                                 /\ pc \in Pointing => handlers[h].id \in ActionIds
    PROVE  handlers' \in [Handlers -> Handler] /\ HandlersPoint'
<1>1. CASE Return(h)
  <2>1. handlers' \in [Handlers -> Handler] /\ handlers'[h] = Idle
    BY <1>1, Defaults DEF Return
  <2>2. \A g \in Handlers : g # h => handlers'[g] = handlers[g]
    BY <1>1 DEF Return
  <2> QED
    BY <2>1, <2>2, Defaults DEF HandlersPoint, Pointing
<1>2. ASSUME NEW pc \in Points, Goto(h, pc),
             pc \in Pointing => handlers[h].id \in ActionIds
      PROVE  handlers' \in [Handlers -> Handler] /\ HandlersPoint'
  <2> DEFINE moved == [handlers[h] EXCEPT !.pc = pc]
  <2>1. moved \in Handler /\ moved.pc = pc /\ moved.id = handlers[h].id
    BY DEF Handler
  <2>2. handlers' = [handlers EXCEPT ![h] = moved]
    BY <1>2 DEF Goto
  <2> HIDE DEF moved
  <2>3. \A g \in Handlers : handlers'[g] = IF g = h THEN moved ELSE handlers[g]
    BY <2>2
  <2> QED
    BY <1>2, <2>1, <2>2, <2>3 DEF HandlersPoint
<1> QED
  BY <1>1, <1>2

(* A handler that has read a row starts out pointing to it. *)
LEMMA StartTyped ==
    ASSUME handlers \in [Handlers -> Handler], HandlersPoint, NEW h \in Handlers,
           NEW s \in Sessions, NEW i \in ActionIds, NEW pc \in Points,
           Start(h, pc, s, i)
    PROVE  handlers' \in [Handlers -> Handler] /\ HandlersPoint'
<1> DEFINE start == [pc |-> pc, session |-> s, command |-> AnyCommand,
                     id |-> i, queued |-> FALSE]
<1>1. start \in Handler /\ start.id = i
  BY Defaults, BoundAssumption DEF Handler, ActionIds
<1>2. handlers' = [handlers EXCEPT ![h] = start]
  BY DEF Start
<1> HIDE DEF start
<1>3. \A g \in Handlers : handlers'[g] = IF g = h THEN start ELSE handlers[g]
  BY <1>2
<1>4. handlers' \in [Handlers -> Handler]
  BY <1>1, <1>2
<1> QED
  BY <1>1, <1>3, <1>4 DEF HandlersPoint

(* Every update of a row that the handlers make keeps the table typed. *)
LEMMA RowsTyped ==
    ASSUME actions \in [ActionIds -> Action], NEW i \in ActionIds
    PROVE  /\ \A st \in Status : WithStatus(i, st) \in [ActionIds -> Action]
           /\ \A s \in Sessions : WithVote(i, s) \in [ActionIds -> Action]
           /\ \A s \in Sessions, st \in Status :
                 [WithVote(i, s) EXCEPT ![i].status = st] \in [ActionIds -> Action]
           /\ [actions EXCEPT ![i].overridden = TRUE] \in [ActionIds -> Action]
<1>1. actions[i] \in Action
  OBVIOUS
<1>2. ASSUME NEW st \in Status
      PROVE  WithStatus(i, st) \in [ActionIds -> Action]
  <2>1. [actions[i] EXCEPT !.status = st] \in Action
    BY <1>1 DEF Action
  <2>2. WithStatus(i, st) = [actions EXCEPT ![i] = [actions[i] EXCEPT !.status = st]]
    BY DEF WithStatus
  <2> QED
    BY <2>1, <2>2
<1>3. ASSUME NEW s \in Sessions
      PROVE  /\ WithVote(i, s) \in [ActionIds -> Action]
             /\ \A st \in Status :
                   [WithVote(i, s) EXCEPT ![i].status = st] \in [ActionIds -> Action]
  <2> DEFINE row == [actions[i] EXCEPT !.approvals = Append(actions[i].approvals, s)]
  <2>1. Append(actions[i].approvals, s) \in Seq(Sessions)
    BY <1>1 DEF Action
  <2>2. row \in Action
    BY <1>1, <2>1 DEF Action
  <2>3. WithVote(i, s) = [actions EXCEPT ![i] = row]
    BY DEF WithVote
  <2>4. WithVote(i, s) \in [ActionIds -> Action] /\ WithVote(i, s)[i] = row
    BY <2>2, <2>3
  <2>5. ASSUME NEW st \in Status
        PROVE  [WithVote(i, s) EXCEPT ![i].status = st] \in [ActionIds -> Action]
    <3>1. [row EXCEPT !.status = st] \in Action
      BY <2>2 DEF Action
    <3>2. [WithVote(i, s) EXCEPT ![i].status = st]
             = [WithVote(i, s) EXCEPT ![i] = [row EXCEPT !.status = st]]
      BY <2>4
    <3> HIDE DEF row
    <3> QED
      BY <2>4, <3>1, <3>2
  <2> QED
    BY <2>4, <2>5
<1>4. [actions EXCEPT ![i].overridden = TRUE] \in [ActionIds -> Action]
  <2>1. [actions[i] EXCEPT !.overridden = TRUE] \in Action
    BY <1>1 DEF Action
  <2> QED
    BY <2>1
<1> QED
  BY <1>2, <1>3, <1>4

(* The breaker's transitions stay in its type: the count never leaves its limit. *)
LEMMA BreakerTyped ==
    ASSUME breaker \in Breaker
    PROVE  /\ Checked \in Breaker
           /\ \A b \in Breaker : Violation(b) \in Breaker
           /\ [breaker EXCEPT !.violations = 0] \in Breaker
           /\ [breaker EXCEPT !.cooled = TRUE] \in Breaker
           /\ Closed \in Breaker
<1>1. Closed \in Breaker
  BY BoundAssumption DEF Breaker, Closed
<1>2. Checked \in Breaker
  BY <1>1 DEF Checked
<1>3. ASSUME NEW b \in Breaker
      PROVE  Violation(b) \in Breaker
  <2>1. CASE b.violations + 1 >= ViolationLimit
    BY <2>1, BoundAssumption DEF Violation, Breaker
  <2>2. CASE ~(b.violations + 1 >= ViolationLimit)
    <3>1. b.violations + 1 \in 0..ViolationLimit
      BY <2>2, BoundAssumption DEF Breaker
    <3> QED
      BY <2>2, <3>1 DEF Violation, Breaker
  <2> QED
    BY <2>1, <2>2
<1>4. [breaker EXCEPT !.violations = 0] \in Breaker
  <2>1. 0 \in 0..ViolationLimit
    BY BoundAssumption
  <2> QED
    BY <2>1 DEF Breaker
<1>5. [breaker EXCEPT !.cooled = TRUE] \in Breaker
  BY DEF Breaker
<1> QED
  BY <1>1, <1>2, <1>3, <1>4, <1>5

(* Counting one more run keeps the history typed. *)
LEMMA RunsTyped ==
    ASSUME runs \in [ActionIds -> [Channels -> Nat]], NEW i \in ActionIds, NEW c \in Channels
    PROVE  [runs EXCEPT ![i][c] = @ + 1] \in [ActionIds -> [Channels -> Nat]]
<1>1. [runs[i] EXCEPT ![c] = runs[i][c] + 1] \in [Channels -> Nat]
  OBVIOUS
<1> QED
  BY <1>1

LEMMA InitTyped == Init => TypeOK
<1> SUFFICES ASSUME Init PROVE TypeOK
  OBVIOUS
<1>1. actions \in [ActionIds -> Action] /\ handlers \in [Handlers -> Handler]
  BY Defaults DEF Init
<1>2. breaker \in Breaker
  BY BoundAssumption DEF Init, Breaker, Closed
<1>3. /\ created \in 0..MaxActions
      /\ restarts \in 0..MaxRestarts
      /\ overdue \subseteq ActionIds
      /\ due \subseteq ActionIds
  BY BoundAssumption DEF Init
<1>4. jobs \in [ActionIds -> Nat] /\ runs \in [ActionIds -> [Channels -> Nat]]
  BY DEF Init
<1> QED
  BY <1>1, <1>2, <1>3, <1>4 DEF TypeOK

(* The execute handler keeps the types. *)
LEMMA ExecuteTyped ==
    ASSUME TypedInv, NEW h \in Handlers, Execute(h)
    PROVE  TypedInv'
<1> USE DEF TypedInv
<1>0. /\ actions \in [ActionIds -> Action]
      /\ handlers \in [Handlers -> Handler]
      /\ handlers[h] \in Handler
      /\ breaker \in Breaker
  BY DEF TypeOK
<1>1. ASSUME NEW s \in Sessions, NEW c \in Commands, ExecuteRead(h, s, c)
      PROVE  TypedInv'
  <2>1. PICK a \in 0..MaxActions, p \in 0..MaxActions :
            handlers' = [handlers EXCEPT ![h] =
                [pc |-> IF a = 0 THEN "gate" ELSE "complete",
                 session |-> s, command |-> c, id |-> a, queued |-> p # 0]]
    BY <1>1 DEF ExecuteRead
  <2>2. [pc |-> IF a = 0 THEN "gate" ELSE "complete",
         session |-> s, command |-> c, id |-> a, queued |-> p # 0] \in Handler
    BY BoundAssumption DEF Handler, Points
  <2>3. handlers' \in [Handlers -> Handler]
    BY <1>0, <2>1, <2>2
  <2>4. HandlersPoint'
    BY <1>0, <1>1, <2>1, BoundAssumption DEF HandlersPoint, Pointing, ActionIds, ExecuteRead
  <2> QED
    BY <1>1, <2>3, <2>4 DEF TypeOK, ExecuteRead
<1>2. CASE ExecuteComplete(h)
  <2>1. handlers[h].id \in ActionIds
    BY <1>2 DEF ExecuteComplete, HandlersPoint, Pointing
  <2>2. handlers' \in [Handlers -> Handler] /\ HandlersPoint'
    BY <1>0, <1>2, MovesTyped DEF ExecuteComplete, Points, Pointing
  <2>3. WithStatus(handlers[h].id, "completed") \in [ActionIds -> Action]
    BY <1>0, <2>1, RowsTyped DEF Status
  <2>4. actions' \in [ActionIds -> Action]
    BY <1>0, <1>2, <2>3 DEF ExecuteComplete, Consumed
  <2> QED
    BY <1>2, <2>2, <2>4 DEF TypeOK, ExecuteComplete
<1>3. CASE ExecuteLocked(h)
  <2>1. handlers' \in [Handlers -> Handler] /\ HandlersPoint'
    BY <1>0, <1>3, MovesTyped DEF ExecuteLocked
  <2> QED
    BY <1>3, <2>1 DEF TypeOK, ExecuteLocked
<1>4. CASE ExecuteQueue(h)
  <2>1. handlers' \in [Handlers -> Handler] /\ HandlersPoint'
    BY <1>0, <1>4, MovesTyped DEF ExecuteQueue, Points, Pointing
  <2> QED
    BY <1>0, <1>4, <2>1, BreakerTyped DEF TypeOK, ExecuteQueue
<1>5. CASE ExecuteCreate(h)
  <2>1. handlers' \in [Handlers -> Handler] /\ HandlersPoint'
    BY <1>0, <1>5, MovesTyped DEF ExecuteCreate
  <2>2. NewAction(handlers[h].command, handlers[h].session.email) \in Action
    BY <1>0, SessionAssumption DEF NewAction, Action, Handler, Status
  <2>3. created' \in 0..MaxActions /\ created + 1 \in ActionIds
    BY <1>5, BoundAssumption DEF ExecuteCreate, TypeOK, ActionIds
  <2>4. actions' \in [ActionIds -> Action]
    BY <1>0, <1>5, <2>2, <2>3 DEF ExecuteCreate
  <2> QED
    BY <1>5, <2>1, <2>3, <2>4 DEF TypeOK, ExecuteCreate
<1>6. CASE ExecuteRun(h)
  <2>1. handlers' \in [Handlers -> Handler] /\ HandlersPoint'
    BY <1>0, <1>6, MovesTyped DEF ExecuteRun
  <2>2. handlers[h].id = 0 \/ handlers[h].id \in ActionIds
    BY <1>0, BoundAssumption DEF Handler, ActionIds
  <2>3. runs' \in [ActionIds -> [Channels -> Nat]]
    BY <1>6, <2>2, RunsTyped DEF ExecuteRun, TypeOK, Channels
  <2> QED
    BY <1>0, <1>6, <2>1, <2>3, BreakerTyped DEF TypeOK, ExecuteRun
<1>7. CASE ExecuteRefused(h)
  <2>1. handlers' \in [Handlers -> Handler] /\ HandlersPoint'
    BY <1>0, <1>7, MovesTyped DEF ExecuteRefused
  <2> QED
    BY <1>0, <1>7, <2>1, BreakerTyped DEF TypeOK, ExecuteRefused
<1> QED
  BY <1>1, <1>2, <1>3, <1>4, <1>5, <1>6, <1>7 DEF Execute

(* The voting handler keeps the types, on either store. *)
LEMMA ApproveTyped ==
    ASSUME TypedInv, NEW h \in Handlers, Approve(h)
    PROVE  TypedInv'
<1> USE DEF TypedInv
<1> DEFINE i == handlers[h].id
<1>0. /\ actions \in [ActionIds -> Action]
      /\ handlers \in [Handlers -> Handler]
      /\ handlers[h] \in Handler
      /\ handlers[h].session \in Sessions
      /\ handlers[h].pc \in Pointing => i \in ActionIds
  BY DEF TypeOK, Handler, HandlersPoint
<1>1. ASSUME NEW s \in Sessions, NEW j \in ActionIds, ApproveRead(h, s, j)
      PROVE  TypedInv'
  <2>1. handlers' \in [Handlers -> Handler] /\ HandlersPoint'
    BY <1>0, <1>1, StartTyped DEF ApproveRead, Points
  <2> QED
    BY <1>1, <2>1 DEF TypeOK, ApproveRead
<1>2. CASE VoteJson(h)
  <2>1. handlers' \in [Handlers -> Handler] /\ HandlersPoint'
    BY <1>0, <1>2, MovesTyped DEF VoteJson
  <2>2. i \in ActionIds
    BY <1>0, <1>2 DEF VoteJson, Pointing
  <2>3. StatusAfterVote(i) \in Status
    BY <1>0, <2>2 DEF StatusAfterVote, Status, Action
  <2>4. [WithVote(i, handlers[h].session) EXCEPT ![i].status = StatusAfterVote(i)]
          \in [ActionIds -> Action]
    BY <1>0, <2>2, <2>3, RowsTyped
  <2>5. actions' \in [ActionIds -> Action] /\ jobs' \in [ActionIds -> Nat]
    <3>1. [jobs EXCEPT ![i] = @ + 1] \in [ActionIds -> Nat] /\ jobs \in [ActionIds -> Nat]
      BY <2>2 DEF TypeOK
    <3> HIDE DEF i
    <3> QED
      BY <1>0, <1>2, <2>4, <3>1 DEF VoteJson, Schedule, i
  <2> QED
    BY <1>2, <2>1, <2>5 DEF TypeOK, VoteJson
<1>3. CASE VoteFind(h)
  <2>1. i \in ActionIds
    BY <1>0, <1>3 DEF VoteFind, Pointing
  <2>2. handlers' \in [Handlers -> Handler] /\ HandlersPoint'
    BY <1>0, <1>3, <2>1, MovesTyped DEF VoteFind, Points
  <2> QED
    BY <1>3, <2>2 DEF TypeOK, VoteFind
<1>4. CASE VoteInsert(h)
  <2>1. i \in ActionIds
    BY <1>0, <1>4 DEF VoteInsert, Pointing
  <2>2. handlers' \in [Handlers -> Handler] /\ HandlersPoint'
    BY <1>0, <1>4, <2>1, MovesTyped DEF VoteInsert, Points
  <2>3. WithVote(i, handlers[h].session) \in [ActionIds -> Action]
    BY <1>0, <2>1, RowsTyped
  <2> QED
    BY <1>0, <1>4, <2>2, <2>3 DEF TypeOK, VoteInsert
<1>5. CASE VoteReread(h)
  <2>1. i \in ActionIds
    BY <1>0, <1>5 DEF VoteReread, Pointing
  <2>2. handlers' \in [Handlers -> Handler] /\ HandlersPoint'
    BY <1>0, <1>5, <2>1, MovesTyped DEF VoteReread, Points
  <2>3. jobs' \in [ActionIds -> Nat]
    BY <1>5, <2>1 DEF VoteReread, Schedule, TypeOK
  <2> QED
    BY <1>5, <2>2, <2>3 DEF TypeOK, VoteReread
<1>6. CASE VoteMark(h)
  <2>1. i \in ActionIds
    BY <1>0, <1>6 DEF VoteMark, Pointing
  <2>2. handlers' \in [Handlers -> Handler] /\ HandlersPoint'
    BY <1>0, <1>6, MovesTyped DEF VoteMark
  <2>3. WithStatus(i, "approved") \in [ActionIds -> Action]
    BY <1>0, <2>1, RowsTyped DEF Status
  <2>4. actions' \in [ActionIds -> Action] /\ jobs' \in [ActionIds -> Nat]
    BY <1>0, <1>6, <2>1, <2>3 DEF VoteMark, Schedule, TypeOK
  <2> QED
    BY <1>6, <2>2, <2>4 DEF TypeOK, VoteMark
<1> QED
  BY <1>1, <1>2, <1>3, <1>4, <1>5, <1>6 DEF Approve

(* The legacy route keeps the types. *)
LEMMA LegacyTyped ==
    ASSUME TypedInv, NEW h \in Handlers, Legacy(h)
    PROVE  TypedInv'
<1> USE DEF TypedInv
<1> DEFINE i == handlers[h].id
<1>0. /\ actions \in [ActionIds -> Action]
      /\ handlers \in [Handlers -> Handler]
      /\ handlers[h] \in Handler
      /\ handlers[h].session \in Sessions
      /\ handlers[h].pc \in Pointing => i \in ActionIds
  BY DEF TypeOK, Handler, HandlersPoint
<1>1. ASSUME NEW s \in Sessions, NEW j \in ActionIds, LegacyRead(h, s, j)
      PROVE  TypedInv'
  <2>1. handlers' \in [Handlers -> Handler] /\ HandlersPoint'
    BY <1>0, <1>1, StartTyped DEF LegacyRead, Points
  <2> QED
    BY <1>1, <2>1 DEF TypeOK, LegacyRead
<1>2. CASE LegacyExpire(h)
  <2>1. i \in ActionIds
    BY <1>0, <1>2 DEF LegacyExpire, Pointing
  <2>2. handlers' \in [Handlers -> Handler] /\ HandlersPoint'
    BY <1>0, <1>2, MovesTyped DEF LegacyExpire
  <2>3. WithStatus(i, "expired") \in [ActionIds -> Action]
    BY <1>0, <2>1, RowsTyped DEF Status
  <2> QED
    BY <1>0, <1>2, <2>2, <2>3 DEF TypeOK, LegacyExpire
<1>3. CASE LegacyInsert(h)
  <2>1. i \in ActionIds
    BY <1>0, <1>3 DEF LegacyInsert, Pointing
  <2>2. handlers' \in [Handlers -> Handler] /\ HandlersPoint'
    BY <1>0, <1>3, <2>1, MovesTyped DEF LegacyInsert, Points
  <2>3. WithVote(i, handlers[h].session) \in [ActionIds -> Action]
    BY <1>0, <2>1, RowsTyped
  <2> QED
    BY <1>0, <1>3, <2>2, <2>3 DEF TypeOK, LegacyInsert
<1>4. CASE LegacyCount(h)
  <2>1. i \in ActionIds
    BY <1>0, <1>4 DEF LegacyCount, Pointing
  <2>2. handlers' \in [Handlers -> Handler] /\ HandlersPoint'
    BY <1>0, <1>4, <2>1, MovesTyped DEF LegacyCount, Points
  <2> QED
    BY <1>4, <2>2 DEF TypeOK, LegacyCount
<1>5. CASE LegacyMark(h)
  <2>1. i \in ActionIds
    BY <1>0, <1>5 DEF LegacyMark, Pointing
  <2>2. handlers' \in [Handlers -> Handler] /\ HandlersPoint'
    BY <1>0, <1>5, <2>1, MovesTyped DEF LegacyMark, Points
  <2>3. WithStatus(i, "approved") \in [ActionIds -> Action]
    BY <1>0, <2>1, RowsTyped DEF Status
  <2> QED
    BY <1>0, <1>5, <2>2, <2>3 DEF TypeOK, LegacyMark
<1>6. CASE LegacyRun(h)
  <2>1. i \in ActionIds
    BY <1>0, <1>6 DEF LegacyRun, Pointing
  <2>2. handlers' \in [Handlers -> Handler] /\ HandlersPoint'
    BY <1>0, <1>6, MovesTyped DEF LegacyRun
  <2>3. runs' \in [ActionIds -> [Channels -> Nat]]
    BY <1>6, <2>1, RunsTyped DEF LegacyRun, TypeOK, Channels
  <2> QED
    BY <1>6, <2>2, <2>3 DEF TypeOK, LegacyRun
<1> QED
  BY <1>1, <1>2, <1>3, <1>4, <1>5, <1>6 DEF Legacy

(* The timers and administrators' requests that act on one row. *)
LEMMA RowActionsTyped ==
    ASSUME TypedInv, NEW i \in ActionIds, RunJob(i) \/ Override(i) \/ SweepExpire(i)
    PROVE  TypedInv'
<1> USE DEF TypedInv
<1>0. actions \in [ActionIds -> Action]
  BY DEF TypeOK
<1>1. CASE RunJob(i)
  <2>1. jobs[i] - 1 \in Nat
    BY <1>1 DEF RunJob, TypeOK
  <2>2. jobs' \in [ActionIds -> Nat]
    BY <1>1, <2>1 DEF RunJob, TypeOK
  <2>3. runs' \in [ActionIds -> [Channels -> Nat]]
    BY <1>1, RunsTyped DEF RunJob, TypeOK, Channels
  <2> QED
    BY <1>1, <2>2, <2>3 DEF TypeOK, RunJob, HandlersPoint
<1>2. CASE Override(i)
  BY <1>0, <1>2, RowsTyped DEF TypeOK, Override, WithOverride, HandlersPoint
<1>3. CASE SweepExpire(i)
  <2>1. WithStatus(i, "expired") \in [ActionIds -> Action]
    BY <1>0, RowsTyped DEF Status
  <2> QED
    BY <1>0, <1>3, <2>1 DEF TypeOK, SweepExpire, HandlersPoint
<1> QED
  BY <1>1, <1>2, <1>3

(* The environment keeps the types. *)
LEMMA EnvironmentTyped ==
    ASSUME TypedInv, Environment \/ SweepRead
    PROVE  TypedInv'
<1> USE DEF TypedInv
<1>1. ASSUME NEW i \in ActionIds, TimeRunsOut(i)
      PROVE  TypedInv'
  BY <1>1 DEF TypeOK, TimeRunsOut, HandlersPoint
<1>2. CASE PolicyAllow \/ PolicyDeny \/ CooldownElapses
  <2>1. breaker' \in Breaker
    BY <1>2, BreakerTyped DEF TypeOK, PolicyAllow, PolicyDeny, CooldownElapses
  <2> QED
    BY <1>2, <2>1 DEF TypeOK, HandlersPoint, PolicyAllow, PolicyDeny, CooldownElapses
<1>3. CASE Reset
  <2>1. \A i \in ActionIds : [actions[i] EXCEPT !.status = "none"] \in Action
    BY DEF TypeOK, Action, Status
  <2> QED
    BY <1>3, <2>1, BreakerTyped DEF TypeOK, HandlersPoint, Reset
<1>4. CASE Restart
  <2>1. handlers' \in [Handlers -> Handler] /\ HandlersPoint'
    BY <1>4, Defaults DEF Restart, HandlersPoint, Pointing
  <2>2. restarts' \in 0..MaxRestarts
    BY <1>4, BoundAssumption DEF Restart, TypeOK
  <2> QED
    BY <1>4, <2>1, <2>2, BreakerTyped DEF TypeOK, Restart
<1>5. CASE SweepRead
  BY <1>5 DEF TypeOK, HandlersPoint, SweepRead, Expirable
<1> QED
  BY <1>1, <1>2, <1>3, <1>4, <1>5 DEF Environment

LEMMA NextTyped == TypedInv /\ [Next]_vars => TypedInv'
<1> SUFFICES ASSUME TypedInv, [Next]_vars PROVE TypedInv'
  OBVIOUS
<1>1. ASSUME NEW h \in Handlers, StoreFails(h)
      PROVE  TypedInv'
  <2>1. handlers' \in [Handlers -> Handler] /\ HandlersPoint'
    BY <1>1, MovesTyped DEF StoreFails, TypedInv, TypeOK
  <2> QED
    BY <1>1, <2>1 DEF StoreFails, TypedInv, TypeOK
<1>2. CASE UNCHANGED vars
  BY <1>2 DEF vars, TypedInv, TypeOK, HandlersPoint
<1> QED
  BY <1>1, <1>2, ExecuteTyped, ApproveTyped, LegacyTyped, RowActionsTyped, EnvironmentTyped
  DEF Next

(* Every reachable state of every instance is typed: in particular no handler
   that writes a row holds an id outside the table, no background timer count
   goes negative and the breaker's count never passes its limit. *)
THEOREM TypeCorrect == Spec => []TypedInv
<1>1. Init => TypedInv
  BY InitTyped DEF TypedInv, HandlersPoint, Init, Idle, Pointing
<1> QED
  BY <1>1, NextTyped, PTL DEF Spec

COROLLARY TypesHold == Spec => []TypeOK
<1>1. TypedInv => TypeOK
  BY DEF TypedInv
<1> QED
  BY <1>1, TypeCorrect, PTL

---------------------------------------------------------------------------
(* The inductive invariant of the safety theorems *)

\* Nothing refers to an id that was not created yet, so creating a row cannot
\* clear the votes something already stands on.
FreshInv ==
    \A i \in ActionIds : i > created =>
        /\ actions[i].status = "none"
        /\ actions[i].approvals = <<>>
        /\ jobs[i] = 0
        /\ \A c \in Channels : runs[i][c] = 0
        /\ \A h \in Handlers : handlers[h].id # i

\* The steps of the Postgres store and of the legacy route.
PostgresPoints == {"insert", "reread", "mark", "legacyExpire", "legacyInsert",
                   "legacyCount", "legacyMark", "legacyRun"}

\* A handler about to approve or to run saw the votes, and votes are never
\* taken back.
QuorumSeen ==
    \A h \in Handlers :
        /\ handlers[h].pc \in PostgresPoints => Store = "postgres"
        /\ handlers[h].pc \in {"mark", "legacyMark", "legacyRun"} => HasQuorum(handlers[h].id)

\* A handler about to write a vote is not the initiator's.
VotersEligible ==
    \A h \in Handlers :
        handlers[h].pc \in {"vote", "insert", "legacyInsert"}
        => handlers[h].session.email # actions[handlers[h].id].initiator

\* A handler about to vote on a dangerous action saw it unlocked.
VotersUnlocked ==
    \A h \in Handlers : handlers[h].pc = "vote" => ~Blocked(handlers[h].id)

QuorumInv == FreshInv /\ QuorumSeen /\ NothingRunsWithoutQuorum

---------------------------------------------------------------------------
(* What a step may do to a row *)

\* The points at which a handler writes the vote of its session.
Voting == {"vote", "insert", "legacyInsert"}

\* Row i gains the vote of a handler that was about to write it; the test for
\* an earlier vote is part of the write only in the JSON store.
VoteAdded(i) ==
    \E h \in Handlers :
        /\ handlers[h].pc \in Voting
        /\ handlers[h].id = i
        /\ handlers[h].pc = "vote" => ~HasVoted(i, handlers[h].session)
        /\ actions'[i].approvals = Append(actions[i].approvals, handlers[h].session)

\* Row i keeps its command, its initiator and its unlocking, and gains at most
\* a vote.
SameRow(i) ==
    /\ actions'[i].command = actions[i].command
    /\ actions'[i].initiator = actions[i].initiator
    /\ actions[i].overridden => actions'[i].overridden
    /\ \/ actions'[i].approvals = actions[i].approvals
       \/ VoteAdded(i)

(* The fields of a row after an update. *)
LEMMA RowFields ==
    ASSUME actions \in [ActionIds -> Action], NEW i \in ActionIds
    PROVE  /\ \A st \in Status, j \in ActionIds :
                 /\ WithStatus(i, st)[j].status = IF j = i THEN st ELSE actions[j].status
                 /\ WithStatus(i, st)[j].command = actions[j].command
                 /\ WithStatus(i, st)[j].initiator = actions[j].initiator
                 /\ WithStatus(i, st)[j].overridden = actions[j].overridden
                 /\ WithStatus(i, st)[j].approvals = actions[j].approvals
           /\ \A s \in Sessions, j \in ActionIds :
                 /\ WithVote(i, s)[j].status = actions[j].status
                 /\ WithVote(i, s)[j].command = actions[j].command
                 /\ WithVote(i, s)[j].initiator = actions[j].initiator
                 /\ WithVote(i, s)[j].overridden = actions[j].overridden
                 /\ WithVote(i, s)[j].approvals =
                       IF j = i THEN Append(actions[i].approvals, s) ELSE actions[j].approvals
<1>1. \A j \in ActionIds : actions[j] \in Action
  OBVIOUS
<1>2. ASSUME NEW st \in Status, NEW j \in ActionIds
      PROVE  /\ WithStatus(i, st)[j].status = IF j = i THEN st ELSE actions[j].status
             /\ WithStatus(i, st)[j].command = actions[j].command
             /\ WithStatus(i, st)[j].initiator = actions[j].initiator
             /\ WithStatus(i, st)[j].overridden = actions[j].overridden
             /\ WithStatus(i, st)[j].approvals = actions[j].approvals
  BY <1>1 DEF WithStatus, Action
<1>3. ASSUME NEW s \in Sessions, NEW j \in ActionIds
      PROVE  /\ WithVote(i, s)[j].status = actions[j].status
             /\ WithVote(i, s)[j].command = actions[j].command
             /\ WithVote(i, s)[j].initiator = actions[j].initiator
             /\ WithVote(i, s)[j].overridden = actions[j].overridden
             /\ WithVote(i, s)[j].approvals =
                   IF j = i THEN Append(actions[i].approvals, s) ELSE actions[j].approvals
  <2> DEFINE row == [actions[i] EXCEPT !.approvals = Append(actions[i].approvals, s)]
  <2>1. /\ row.status = actions[i].status
        /\ row.command = actions[i].command
        /\ row.initiator = actions[i].initiator
        /\ row.overridden = actions[i].overridden
        /\ row.approvals = Append(actions[i].approvals, s)
    BY <1>1 DEF Action
  <2>2. WithVote(i, s) = [actions EXCEPT ![i] = row]
    BY DEF WithVote
  <2> HIDE DEF row
  <2>3. WithVote(i, s)[j] = IF j = i THEN row ELSE actions[j]
    BY <2>2
  <2> QED
    BY <2>1, <2>3
<1> QED
  BY <1>2, <1>3

(* The vote of the JSON store sets the status with it. *)
LEMMA VoteFields ==
    ASSUME actions \in [ActionIds -> Action], NEW i \in ActionIds,
           NEW s \in Sessions, NEW st \in Status, NEW j \in ActionIds
    PROVE  LET new == [WithVote(i, s) EXCEPT ![i].status = st] IN
           /\ new[j].status = IF j = i THEN st ELSE actions[j].status
           /\ new[j].command = actions[j].command
           /\ new[j].initiator = actions[j].initiator
           /\ new[j].overridden = actions[j].overridden
           /\ new[j].approvals =
                 IF j = i THEN Append(actions[i].approvals, s) ELSE actions[j].approvals
<1> DEFINE mid == WithVote(i, s)
<1>1. mid \in [ActionIds -> Action]
  BY RowsTyped
<1>2. /\ mid[j].status = actions[j].status
      /\ mid[j].command = actions[j].command
      /\ mid[j].initiator = actions[j].initiator
      /\ mid[j].overridden = actions[j].overridden
      /\ mid[j].approvals = IF j = i THEN Append(actions[i].approvals, s) ELSE actions[j].approvals
  BY RowFields
<1> HIDE DEF mid
<1>3. mid[j] \in Action
  BY <1>1
<1>4. [mid EXCEPT ![i].status = st][j]
        = IF j = i THEN [mid[j] EXCEPT !.status = st] ELSE mid[j]
  BY <1>1
<1>5. LET new == [mid EXCEPT ![i].status = st] IN
      /\ new[j].status = IF j = i THEN st ELSE mid[j].status
      /\ new[j].command = mid[j].command
      /\ new[j].initiator = mid[j].initiator
      /\ new[j].overridden = mid[j].overridden
      /\ new[j].approvals = mid[j].approvals
  BY <1>3, <1>4 DEF Action
<1> QED
  BY <1>2, <1>5 DEF mid

(* No step rewrites a row that exists: only votes are added and blocks lifted. *)
LEMMA RowHistory ==
    ASSUME TypedInv, [Next]_vars
    PROVE  \A i \in ActionIds : i <= created => SameRow(i)
<1>0. /\ actions \in [ActionIds -> Action]
      /\ \A i \in ActionIds : actions[i] \in Action
      /\ created \in 0..MaxActions
      /\ \A h \in Handlers : /\ handlers[h].session \in Sessions
                             /\ handlers[h].pc \in Pointing => handlers[h].id \in ActionIds
  BY DEF TypedInv, TypeOK, Handler, HandlersPoint
<1>1. ASSUME actions' = actions
      PROVE  \A i \in ActionIds : SameRow(i)
  BY <1>1 DEF SameRow
<1>2. ASSUME NEW j \in ActionIds, NEW st \in Status, actions' = WithStatus(j, st)
      PROVE  \A i \in ActionIds : SameRow(i)
  BY <1>0, <1>2, RowFields DEF SameRow
<1>3. ASSUME NEW h \in Handlers, handlers[h].pc \in {"insert", "legacyInsert"},
             actions' = WithVote(handlers[h].id, handlers[h].session)
      PROVE  \A i \in ActionIds : SameRow(i)
  <2> SUFFICES ASSUME NEW j \in ActionIds, j = handlers[h].id, NEW i \in ActionIds
               PROVE  SameRow(i)
    BY <1>0, <1>3 DEF Pointing
  <2>1. /\ actions'[i].command = actions[i].command
        /\ actions'[i].initiator = actions[i].initiator
        /\ actions'[i].overridden = actions[i].overridden
        /\ actions'[i].approvals = IF i = j THEN Append(actions[j].approvals, handlers[h].session)
                                            ELSE actions[i].approvals
    BY <1>0, <1>3, RowFields
  <2>2. i = j => VoteAdded(i)
    BY <1>3, <2>1 DEF VoteAdded, Voting
  <2> QED
    BY <2>1, <2>2 DEF SameRow
<1>4. ASSUME NEW h \in Handlers, Execute(h)
      PROVE  \A i \in ActionIds : i <= created => SameRow(i)
  <2>1. CASE ExecuteComplete(h)
    BY <1>0, <1>1, <1>2, <2>1 DEF ExecuteComplete, Consumed, Pointing, Status
  <2>2. CASE ExecuteCreate(h)
    <3>1. \A i \in ActionIds : i <= created => actions'[i] = actions[i]
      BY <1>0, <2>2 DEF ExecuteCreate, ActionIds
    <3> QED
      BY <3>1 DEF SameRow
  <2>3. CASE ~ExecuteComplete(h) /\ ~ExecuteCreate(h)
    BY <1>1, <1>4, <2>3
    DEF Execute, ExecuteRead, ExecuteLocked, ExecuteQueue, ExecuteRun, ExecuteRefused
  <2> QED
    BY <2>1, <2>2, <2>3
<1>5. ASSUME NEW h \in Handlers, Approve(h)
      PROVE  \A i \in ActionIds : SameRow(i)
  <2>1. CASE VoteJson(h)
    <3> SUFFICES ASSUME NEW j \in ActionIds, j = handlers[h].id
                 PROVE  \A i \in ActionIds : SameRow(i)
      BY <1>0, <2>1 DEF VoteJson, Pointing
    <3>1. StatusAfterVote(j) \in Status
      BY <1>0 DEF StatusAfterVote, Status, Action
    <3>2. \/ actions' = actions
          \/ /\ actions' = [WithVote(j, handlers[h].session) EXCEPT ![j].status = StatusAfterVote(j)]
             /\ ~HasVoted(j, handlers[h].session)
      BY <2>1 DEF VoteJson
    <3>3. ASSUME actions' = [WithVote(j, handlers[h].session) EXCEPT ![j].status = StatusAfterVote(j)],
                 ~HasVoted(j, handlers[h].session),
                 NEW i \in ActionIds
          PROVE  SameRow(i)
      <4>1. /\ actions'[i].command = actions[i].command
            /\ actions'[i].initiator = actions[i].initiator
            /\ actions'[i].overridden = actions[i].overridden
            /\ actions'[i].approvals =
                  IF i = j THEN Append(actions[j].approvals, handlers[h].session)
                           ELSE actions[i].approvals
        BY <1>0, <3>1, <3>3, VoteFields
      <4>2. i = j => VoteAdded(i)
        BY <2>1, <3>3, <4>1 DEF VoteAdded, Voting, VoteJson
      <4> QED
        BY <4>1, <4>2 DEF SameRow
    <3> QED
      BY <1>1, <3>2, <3>3
  <2>2. CASE VoteInsert(h)
    BY <1>0, <1>1, <1>3, <2>2 DEF VoteInsert, Pointing
  <2>3. CASE VoteMark(h)
    BY <1>0, <1>1, <1>2, <2>3 DEF VoteMark, Pointing, Status
  <2>4. CASE ~VoteJson(h) /\ ~VoteInsert(h) /\ ~VoteMark(h)
    BY <1>1, <1>5, <2>4 DEF Approve, ApproveRead, VoteFind, VoteReread, SameRow
  <2> QED
    BY <2>1, <2>2, <2>3, <2>4
<1>6. ASSUME NEW h \in Handlers, Legacy(h)
      PROVE  \A i \in ActionIds : SameRow(i)
  <2>1. CASE LegacyExpire(h)
    BY <1>0, <1>1, <1>2, <2>1 DEF LegacyExpire, Pointing, Status, SameRow
  <2>2. CASE LegacyInsert(h)
    BY <1>0, <1>3, <2>2 DEF LegacyInsert, Pointing, SameRow
  <2>3. CASE LegacyMark(h)
    BY <1>0, <1>2, <2>3 DEF LegacyMark, Pointing, Status, SameRow
  <2>4. CASE ~LegacyExpire(h) /\ ~LegacyInsert(h) /\ ~LegacyMark(h)
    BY <1>6, <2>4 DEF Legacy, LegacyRead, LegacyCount, LegacyRun, SameRow
  <2> QED
    BY <2>1, <2>2, <2>3, <2>4
<1>7. ASSUME NEW j \in ActionIds, RunJob(j) \/ Override(j) \/ SweepExpire(j)
      PROVE  \A i \in ActionIds : SameRow(i)
  <2>1. CASE RunJob(j)
    BY <2>1 DEF RunJob, SameRow
  <2>2. CASE Override(j)
    BY <1>0, <2>2 DEF Override, WithOverride, SameRow, Action
  <2>3. CASE SweepExpire(j)
    BY <1>2, <2>3 DEF SweepExpire, Status, SameRow
  <2> QED
    BY <1>7, <2>1, <2>2, <2>3
<1>8. CASE Environment
  <2>1. CASE Reset
    BY <1>0, <2>1 DEF Reset, SameRow, Action
  <2>2. CASE ~Reset
    BY <1>8, <2>2 DEF Environment, TimeRunsOut, PolicyAllow, PolicyDeny, CooldownElapses,
                      Restart, SameRow
  <2> QED
    BY <2>1, <2>2
<1>9. CASE SweepRead \/ (\E h \in Handlers : StoreFails(h)) \/ UNCHANGED vars
  BY <1>9 DEF SweepRead, StoreFails, vars, SameRow
<1> QED
  BY <1>4, <1>5, <1>6, <1>7, <1>8, <1>9 DEF Next

---------------------------------------------------------------------------
(* Quorum safety *)

(* Votes are never taken back. *)
LEMMA QuorumKept ==
    ASSUME TypedInv, [Next]_vars, NEW i \in ActionIds, i <= created, HasQuorum(i)
    PROVE  HasQuorum(i)'
<1>1. SameRow(i)
  BY RowHistory
<1>2. actions[i].approvals \in Seq(Sessions)
  BY DEF TypedInv, TypeOK, Action
<1>3. Len(actions'[i].approvals) >= Len(actions[i].approvals)
  BY <1>1, <1>2 DEF SameRow, VoteAdded, TypedInv, TypeOK, Handler
<1>4. RequiredVotes(i) \in Nat /\ RequiredVotes(i)' = RequiredVotes(i)
  BY <1>1 DEF RequiredVotes, SameRow
<1>5. Len(actions[i].approvals) \in Nat
  BY <1>2
<1>6. actions'[i].approvals \in Seq(Sessions)
  <2>1. \A h \in Handlers : handlers[h].session \in Sessions
    BY DEF TypedInv, TypeOK, Handler
  <2>2. \/ actions'[i].approvals = actions[i].approvals
        \/ \E h \in Handlers :
              actions'[i].approvals = Append(actions[i].approvals, handlers[h].session)
    BY <1>1, Zenon DEF SameRow, VoteAdded
  <2>3. ASSUME NEW s \in Sessions
        PROVE  Append(actions[i].approvals, s) \in Seq(Sessions)
    BY <1>2
  <2> QED
    BY <1>2, <2>1, <2>2, <2>3, Zenon
<1>7. Len(actions'[i].approvals) \in Nat
  BY <1>6
<1> QED
  BY <1>3, <1>4, <1>5, <1>7 DEF HasQuorum

\* The votes are there before or after the step.
Backed(i) == HasQuorum(i) \/ HasQuorum(i)'

\* A step respects the quorum, creating no row, when every row, timer, run or
\* handler that it clears is backed.
RowsRespect ==
    \A i \in ActionIds :
        /\ i > created => actions'[i].approvals = actions[i].approvals
        /\ \/ actions'[i].status = actions[i].status
           \/ actions'[i].status = "none"
           \/ /\ i <= created
              /\ actions'[i].status \in {"approved", "completed"} => Backed(i)

RunsRespect ==
    \A i \in ActionIds :
        /\ jobs'[i] <= jobs[i] \/ (i <= created /\ Backed(i))
        /\ \A c \in Channels : runs'[i][c] = runs[i][c] \/ (i <= created /\ Backed(i))

Clearing == {"mark", "legacyMark", "legacyRun", "complete", "gate"}

HandlersRespect ==
    \A h \in Handlers :
        \/ handlers'[h] = handlers[h]
        \/ handlers'[h] = Idle
        \/ /\ handlers'[h].id <= created
           /\ handlers'[h].pc \in PostgresPoints => Store = "postgres"
           /\ \A i \in ActionIds :
                 handlers'[h].pc \in Clearing /\ handlers'[h].id = i => Backed(i)

RespectsQuorum == created' = created /\ RowsRespect /\ RunsRespect /\ HandlersRespect

LEMMA QuorumStep ==
    ASSUME TypedInv, TypedInv', QuorumInv, [Next]_vars, RespectsQuorum
    PROVE  QuorumInv'
<1> USE DEF RowsRespect, RunsRespect, HandlersRespect, Clearing
<1>0. /\ created \in 0..MaxActions
      /\ \A i \in ActionIds : jobs[i] \in Nat /\ jobs'[i] \in Nat
      /\ \A i \in ActionIds, c \in Channels : runs[i][c] \in Nat /\ runs'[i][c] \in Nat
      /\ \A h \in Handlers : handlers[h].id \in 0..MaxActions
      /\ \A h \in Handlers : handlers'[h].id \in 0..MaxActions
      /\ \A h \in Handlers : handlers[h].pc \in Pointing => handlers[h].id \in ActionIds
      /\ \A h \in Handlers : handlers'[h].pc \in Pointing => handlers'[h].id \in ActionIds
  BY DEF TypedInv, TypeOK, Handler, HandlersPoint
<1>1. \A i \in ActionIds : i <= created /\ Backed(i) => HasQuorum(i)'
  BY QuorumKept DEF Backed
<1>2. FreshInv'
  <2> SUFFICES ASSUME NEW i \in ActionIds, i > created
               PROVE  /\ actions'[i].status = "none"
                      /\ actions'[i].approvals = <<>>
                      /\ jobs'[i] = 0
                      /\ \A c \in Channels : runs'[i][c] = 0
                      /\ \A h \in Handlers : handlers'[h].id # i
    BY DEF FreshInv, RespectsQuorum
  <2>1. /\ actions[i].status = "none"
        /\ actions[i].approvals = <<>>
        /\ jobs[i] = 0
        /\ \A c \in Channels : runs[i][c] = 0
        /\ \A h \in Handlers : handlers[h].id # i
    BY DEF QuorumInv, FreshInv
  <2>2. ~(i <= created)
    BY <1>0 DEF ActionIds
  <2>3. jobs'[i] = 0
    BY <1>0, <2>1, <2>2 DEF RespectsQuorum
  <2>4. \A h \in Handlers : handlers'[h].id # i
    BY <1>0, <2>1, <2>2, Defaults DEF RespectsQuorum, ActionIds
  <2> QED
    BY <2>1, <2>2, <2>3, <2>4 DEF RespectsQuorum
<1>3. \A h \in Handlers : handlers[h].id \in ActionIds => handlers[h].id <= created
  BY <1>0 DEF QuorumInv, FreshInv, ActionIds
<1>4. QuorumSeen'
  <2>1. ASSUME NEW h \in Handlers
        PROVE  handlers'[h].pc \in PostgresPoints => Store = "postgres"
    BY Defaults DEF QuorumInv, QuorumSeen, RespectsQuorum, PostgresPoints
  <2>2. ASSUME NEW h \in Handlers, NEW i \in ActionIds, handlers'[h].id = i,
               handlers'[h].pc \in {"mark", "legacyMark", "legacyRun"}
        PROVE  HasQuorum(i)'
    <3>1. CASE handlers'[h] = handlers[h]
      BY <1>1, <1>3, <2>2, <3>1 DEF QuorumInv, QuorumSeen, Backed
    <3>2. CASE handlers'[h] # handlers[h]
      BY <1>1, <2>2, <3>2, Defaults DEF RespectsQuorum
    <3> QED
      BY <3>1, <3>2
  <2>3. ASSUME NEW h \in Handlers, handlers'[h].pc \in {"mark", "legacyMark", "legacyRun"}
        PROVE  HasQuorum(handlers[h].id)'
    <3>1. PICK i \in ActionIds : handlers'[h].id = i
      BY <1>0, <2>3 DEF Pointing
    <3>2. HasQuorum(i)'
      BY <2>2, <2>3, <3>1
    <3> QED
      BY <3>1, <3>2 DEF HasQuorum, RequiredVotes
  <2> QED
    BY <2>1, <2>3 DEF QuorumSeen
<1>5. NothingRunsWithoutQuorum'
  <2> SUFFICES ASSUME NEW i \in ActionIds, Cleared(i)' PROVE HasQuorum(i)'
    BY DEF NothingRunsWithoutQuorum
  <2>1. Cleared(i) => i <= created /\ HasQuorum(i)
    <3>1. i > created => ~Cleared(i)
      BY <1>0 DEF QuorumInv, FreshInv, Cleared
    <3>2. i <= created \/ i > created
      BY <1>0 DEF ActionIds
    <3> QED
      BY <3>1, <3>2 DEF QuorumInv, NothingRunsWithoutQuorum
  <2>2. Cleared(i) => HasQuorum(i)'
    BY <1>1, <2>1 DEF Backed
  <2>3. CASE actions'[i].status \in {"approved", "completed"}
    <3>1. Cleared(i) \/ (i <= created /\ Backed(i))
      BY <2>3 DEF Cleared, RespectsQuorum
    <3> QED
      BY <1>1, <2>2, <3>1
  <2>4. CASE jobs'[i] > 0
    <3>1. Cleared(i) \/ (i <= created /\ Backed(i))
      BY <1>0, <2>4 DEF Cleared, RespectsQuorum
    <3> QED
      BY <1>1, <2>2, <3>1
  <2>5. CASE \E c \in Channels : runs'[i][c] > 0
    <3>1. Cleared(i) \/ (i <= created /\ Backed(i))
      BY <1>0, <2>5 DEF Cleared, RespectsQuorum
    <3> QED
      BY <1>1, <2>2, <3>1
  <2>6. ASSUME NEW h \in Handlers, handlers'[h].pc \in {"complete", "gate"}, handlers'[h].id = i
        PROVE  HasQuorum(i)'
    <3>1. i # 0
      BY DEF ActionIds
    <3>2. Cleared(i) \/ (i <= created /\ Backed(i))
      BY <2>6, <3>1, Defaults DEF Cleared, RespectsQuorum
    <3> QED
      BY <1>1, <2>2, <3>2
  <2> QED
    BY <2>3, <2>4, <2>5, <2>6 DEF Cleared
<1> QED
  BY <1>2, <1>4, <1>5 DEF QuorumInv

(* The ways a step may change a variable and respect the quorum. *)
LEMMA RowsRespected ==
    ASSUME TypedInv
    PROVE  /\ actions' = actions => RowsRespect
           /\ \A i \in ActionIds, st \in Status :
                 /\ i <= created
                 /\ actions' = WithStatus(i, st)
                 /\ st \in {"approved", "completed"} => Backed(i)
                 => RowsRespect
           /\ \A i \in ActionIds, s \in Sessions :
                 i <= created /\ actions' = WithVote(i, s) => RowsRespect
<1>0. actions \in [ActionIds -> Action] /\ created \in Nat
  BY BoundAssumption DEF TypedInv, TypeOK
<1>1. ASSUME NEW i \in ActionIds, NEW st \in Status, i <= created,
             actions' = WithStatus(i, st),
             st \in {"approved", "completed"} => Backed(i)
      PROVE  RowsRespect
  <2>1. \A j \in ActionIds :
           /\ actions'[j].status = IF j = i THEN st ELSE actions[j].status
           /\ actions'[j].approvals = actions[j].approvals
    BY <1>0, <1>1, RowFields
  <2> QED
    BY <1>1, <2>1 DEF RowsRespect
<1>2. ASSUME NEW i \in ActionIds, NEW s \in Sessions, i <= created,
             actions' = WithVote(i, s)
      PROVE  RowsRespect
  <2>1. \A j \in ActionIds :
           /\ actions'[j].status = actions[j].status
           /\ j # i => actions'[j].approvals = actions[j].approvals
    BY <1>0, <1>2, RowFields
  <2>2. \A j \in ActionIds : j > created => j # i
    BY <1>0, <1>2 DEF ActionIds
  <2> QED
    BY <2>1, <2>2 DEF RowsRespect
<1> QED
  BY <1>1, <1>2 DEF RowsRespect

LEMMA HandlersRespected ==
    ASSUME TypedInv, NEW h \in Handlers
    PROVE  /\ handlers' = handlers => HandlersRespect
           /\ Return(h) => HandlersRespect
           /\ \A pc \in Points, i \in 0..MaxActions :
                 /\ Goto(h, pc)
                 /\ handlers[h].id = i
                 /\ i <= created
                 /\ pc \in PostgresPoints => Store = "postgres"
                 /\ i \in ActionIds /\ pc \in Clearing => Backed(i)
                 => HandlersRespect
<1>0. handlers \in [Handlers -> Handler]
  BY DEF TypedInv, TypeOK
<1>1. Return(h) => HandlersRespect
  BY <1>0 DEF Return, HandlersRespect
<1>2. ASSUME NEW pc \in Points, NEW i \in 0..MaxActions, Goto(h, pc),
             handlers[h].id = i, i <= created,
             pc \in PostgresPoints => Store = "postgres",
             i \in ActionIds /\ pc \in Clearing => Backed(i)
      PROVE  HandlersRespect
  <2> DEFINE moved == [handlers[h] EXCEPT !.pc = pc]
  <2>1. moved.pc = pc /\ moved.id = i
    BY <1>0, <1>2 DEF Handler
  <2>2. handlers' = [handlers EXCEPT ![h] = moved]
    BY <1>2 DEF Goto
  <2> HIDE DEF moved
  <2>3. \A g \in Handlers : handlers'[g] = IF g = h THEN moved ELSE handlers[g]
    BY <1>0, <2>2
  <2> QED
    BY <1>2, <2>1, <2>3 DEF HandlersRespect
<1> QED
  BY <1>1, <1>2 DEF HandlersRespect

\* Counting down, or counting up with the votes behind it.
LEMMA RunsRespected ==
    ASSUME TypedInv
    PROVE  /\ jobs' = jobs /\ runs' = runs => RunsRespect
           /\ \A i \in ActionIds :
                 /\ i <= created
                 /\ Backed(i)
                 /\ jobs' \in {jobs, [jobs EXCEPT ![i] = @ + 1], [jobs EXCEPT ![i] = @ - 1]}
                 /\ \/ runs' = runs
                    \/ \E c \in Channels : runs' = [runs EXCEPT ![i][c] = @ + 1]
                 => RunsRespect
<1>0. jobs \in [ActionIds -> Nat] /\ runs \in [ActionIds -> [Channels -> Nat]]
  BY DEF TypedInv, TypeOK
<1>1. ASSUME jobs' = jobs, runs' = runs
      PROVE  RunsRespect
  <2>1. \A j \in ActionIds : jobs'[j] <= jobs[j]
    BY <1>0, <1>1
  <2>2. \A j \in ActionIds, c \in Channels : runs'[j][c] = runs[j][c]
    BY <1>1
  <2> QED
    BY <2>1, <2>2, Zenon DEF RunsRespect
<1>2. ASSUME NEW i \in ActionIds, i <= created, Backed(i),
             jobs' \in {jobs, [jobs EXCEPT ![i] = @ + 1], [jobs EXCEPT ![i] = @ - 1]},
             \/ runs' = runs
             \/ \E c \in Channels : runs' = [runs EXCEPT ![i][c] = @ + 1]
      PROVE  RunsRespect
  <2>1. \A j \in ActionIds : j # i => jobs'[j] = jobs[j] /\ runs'[j] = runs[j]
    BY <1>0, <1>2
  <2>2. \A j \in ActionIds : j # i => jobs'[j] <= jobs[j]
    BY <1>0, <2>1
  <2>3. ASSUME NEW j \in ActionIds
        PROVE  /\ jobs'[j] <= jobs[j] \/ (j <= created /\ Backed(j))
               /\ \A c \in Channels : runs'[j][c] = runs[j][c] \/ (j <= created /\ Backed(j))
    BY <1>2, <2>1, <2>2, Zenon
  <2> QED
    BY <2>3, Zenon DEF RunsRespect
<1> QED
  BY <1>1, <1>2

\* What the invariant says of a row something refers to.
LEMMA QuorumFacts ==
    ASSUME TypedInv, QuorumInv
    PROVE  /\ \A i \in ActionIds : Exists(i) => i <= created
           /\ \A i \in ActionIds : jobs[i] > 0 => i <= created
           /\ \A h \in Handlers : handlers[h].id <= created
           /\ \A i \in ActionIds : Cleared(i) => HasQuorum(i)
           /\ \A h \in Handlers, i \in ActionIds :
                 /\ handlers[h].id = i
                 /\ handlers[h].pc \in Clearing
                 => HasQuorum(i)
<1>0. /\ created \in Nat
      /\ jobs \in [ActionIds -> Nat]
      /\ \A h \in Handlers : handlers[h].id = 0 \/ handlers[h].id \in ActionIds
  BY BoundAssumption DEF TypedInv, TypeOK, Handler, ActionIds
<1>1. \A i \in ActionIds : i <= created \/ i > created
  BY <1>0 DEF ActionIds
<1>2. \A h \in Handlers : handlers[h].id <= created
  BY <1>0, <1>1 DEF QuorumInv, FreshInv
<1>3. \A i \in ActionIds : Exists(i) => i <= created
  BY <1>1 DEF QuorumInv, FreshInv, Exists
<1>4. \A i \in ActionIds : jobs[i] > 0 => i <= created
  BY <1>0, <1>1 DEF QuorumInv, FreshInv
<1>5. \A i \in ActionIds : Cleared(i) => HasQuorum(i)
  BY DEF QuorumInv, NothingRunsWithoutQuorum
<1>6. ASSUME NEW h \in Handlers, NEW i \in ActionIds, handlers[h].id = i,
             handlers[h].pc \in Clearing
      PROVE  HasQuorum(i)
  <2>1. CASE handlers[h].pc \in {"complete", "gate"}
    BY <1>5, <1>6, <2>1 DEF Cleared
  <2>2. CASE handlers[h].pc \in {"mark", "legacyMark", "legacyRun"}
    BY <1>6, <2>2 DEF QuorumInv, QuorumSeen
  <2> QED
    BY <1>6, <2>1, <2>2 DEF Clearing
<1> QED
  BY <1>2, <1>3, <1>4, <1>5, <1>6

(* The execute handler, but for the creation of a row. *)
LEMMA ExecuteRespects ==
    ASSUME TypedInv, QuorumInv, NEW h \in Handlers, Execute(h), ~ExecuteCreate(h)
    PROVE  RespectsQuorum
<1> SUFFICES ASSUME NEW i \in 0..MaxActions, i = handlers[h].id
             PROVE  RespectsQuorum
  BY DEF TypedInv, TypeOK, Handler
<1>0. /\ handlers[h].pc \in Pointing => i \in ActionIds
      /\ i \in 0..MaxActions
      /\ i <= created
      /\ i \in ActionIds \/ i = 0
  BY QuorumFacts, BoundAssumption DEF TypedInv, TypeOK, Handler, HandlersPoint, ActionIds
<1>1. ASSUME NEW s \in Sessions, NEW c \in Commands, ExecuteRead(h, s, c)
      PROVE  RespectsQuorum
  <2>1. PICK a \in 0..MaxActions, p \in 0..MaxActions :
            /\ IsNewest(a, c, "approved")
            /\ handlers' = [handlers EXCEPT ![h] =
                  [pc |-> IF a = 0 THEN "gate" ELSE "complete",
                   session |-> s, command |-> c, id |-> a, queued |-> p # 0]]
    BY <1>1 DEF ExecuteRead
  <2>2. a \in ActionIds => /\ a <= created
                           /\ HasQuorum(a)
    BY <2>1, QuorumFacts DEF IsNewest, Exists, Cleared, ActionIds
  <2>3. 0 <= created /\ (a = 0 \/ a \in ActionIds)
    BY BoundAssumption DEF TypedInv, TypeOK, ActionIds
  <2>4. HandlersRespect
    <3> DEFINE reader == [pc |-> IF a = 0 THEN "gate" ELSE "complete",
                          session |-> s, command |-> c, id |-> a, queued |-> p # 0]
    <3>1. reader.id = a /\ reader.pc \in {"gate", "complete"}
      OBVIOUS
    <3>2. handlers' = [handlers EXCEPT ![h] = reader]
      BY <2>1
    <3> HIDE DEF reader
    <3>3. \A g \in Handlers : handlers'[g] = IF g = h THEN reader ELSE handlers[g]
      BY <3>2 DEF TypedInv, TypeOK
    <3> QED
      BY <2>2, <2>3, <3>1, <3>3 DEF HandlersRespect, Backed, PostgresPoints
  <2> QED
    BY <1>1, <2>4, RowsRespected, RunsRespected DEF RespectsQuorum, ExecuteRead
<1>2. CASE ExecuteComplete(h)
  <2>1. i \in ActionIds /\ Backed(i)
    BY <1>0, <1>2, QuorumFacts DEF ExecuteComplete, Pointing, Clearing, Backed
  <2>2. RowsRespect
    BY <1>0, <1>2, <2>1, RowsRespected DEF ExecuteComplete, Consumed, Status
  <2>3. Goto(h, "gate") \/ Return(h)
    BY <1>2 DEF ExecuteComplete
  <2>4. HandlersRespect
    BY <1>0, <2>1, <2>3, HandlersRespected DEF Points, PostgresPoints
  <2> QED
    BY <1>2, <2>2, <2>4, RunsRespected DEF RespectsQuorum, ExecuteComplete
<1>3. CASE ExecuteLocked(h)
  BY <1>3, RowsRespected, RunsRespected, HandlersRespected DEF RespectsQuorum, ExecuteLocked
<1>4. CASE ExecuteQueue(h)
  <2>1. HandlersRespect
    BY <1>0, <1>4, HandlersRespected
    DEF ExecuteQueue, Points, PostgresPoints, Clearing
  <2> QED
    BY <1>4, <2>1, RowsRespected, RunsRespected DEF RespectsQuorum, ExecuteQueue
<1>5. CASE ExecuteRun(h)
  <2>1. RunsRespect
    <3>1. CASE i = 0
      BY <1>5, <3>1, RunsRespected DEF ExecuteRun
    <3>2. CASE i # 0
      <4>1. i \in ActionIds /\ Backed(i)
        BY <1>0, <1>5, <3>2, QuorumFacts DEF ExecuteRun, Clearing, Backed
      <4>2. jobs' = jobs /\ runs' = [runs EXCEPT ![i]["console"] = @ + 1]
        BY <1>5, <3>2 DEF ExecuteRun
      <4> QED
        BY <1>0, <4>1, <4>2, RunsRespected DEF Channels
    <3> QED
      BY <3>1, <3>2
  <2> QED
    BY <1>5, <2>1, RowsRespected, HandlersRespected DEF RespectsQuorum, ExecuteRun
<1>6. CASE ExecuteRefused(h)
  BY <1>6, RowsRespected, RunsRespected, HandlersRespected DEF RespectsQuorum, ExecuteRefused
<1> QED
  BY <1>1, <1>2, <1>3, <1>4, <1>5, <1>6 DEF Execute

\* Scheduling a row that is approved is backed by its votes.
LEMMA ScheduleRespects ==
    ASSUME TypedInv, NEW i \in ActionIds, i <= created, NEW status \in Status,
           Schedule(i, status), runs' = runs, status = "approved" => Backed(i)
    PROVE  RunsRespect
<1>1. CASE status = "approved"
  BY <1>1, RunsRespected DEF Schedule
<1>2. CASE status # "approved"
  BY <1>2, RunsRespected DEF Schedule
<1> QED
  BY <1>1, <1>2

LEMMA ApproveRespects ==
    ASSUME TypedInv, QuorumInv, NEW h \in Handlers, Approve(h)
    PROVE  RespectsQuorum
<1> SUFFICES ASSUME NEW i \in 0..MaxActions, i = handlers[h].id
             PROVE  RespectsQuorum
  BY DEF TypedInv, TypeOK, Handler
<1> DEFINE s == handlers[h].session
<1>0. /\ actions \in [ActionIds -> Action]
      /\ handlers[h].pc \in Pointing => i \in ActionIds
      /\ i \in 0..MaxActions
      /\ i <= created
      /\ s \in Sessions
  BY QuorumFacts DEF TypedInv, TypeOK, Handler, HandlersPoint
<1>a. i \in ActionIds => Len(actions[i].approvals) \in Nat /\ RequiredVotes(i) \in {2, 3}
  BY <1>0 DEF Action, RequiredVotes
<1>1. ASSUME NEW t \in Sessions, NEW j \in ActionIds, ApproveRead(h, t, j)
      PROVE  RespectsQuorum
  <2>1. j <= created
    BY <1>1, QuorumFacts DEF ApproveRead, Exists
  <2>2. HandlersRespect
    BY <1>1, <2>1 DEF ApproveRead, Start, HandlersRespect, PostgresPoints, Clearing, TypedInv, TypeOK
  <2> QED
    BY <1>1, <2>2, RowsRespected, RunsRespected DEF RespectsQuorum, ApproveRead
<1>2. CASE VoteJson(h)
  <2>1. i \in ActionIds /\ Store = "json"
    BY <1>0, <1>2 DEF VoteJson, Pointing
  <2>2. HandlersRespect
    BY <1>2, HandlersRespected DEF VoteJson
  <2>3. CASE UNCHANGED <<actions, jobs>>
    BY <1>2, <2>2, <2>3, RowsRespected, RunsRespected DEF RespectsQuorum, VoteJson
  <2>4. CASE ~UNCHANGED <<actions, jobs>>
    <3>1. /\ actions' = [WithVote(i, s) EXCEPT ![i].status = StatusAfterVote(i)]
          /\ Schedule(i, StatusAfterVote(i))
      BY <1>2, <2>4 DEF VoteJson
    <3>2. StatusAfterVote(i) \in Status
      BY <1>0, <2>1 DEF StatusAfterVote, Status, Action
    <3>3. \A j \in ActionIds :
             /\ actions'[j].status = IF j = i THEN StatusAfterVote(i) ELSE actions[j].status
             /\ actions'[j].command = actions[j].command
             /\ actions'[j].approvals =
                   IF j = i THEN Append(actions[i].approvals, s) ELSE actions[j].approvals
      BY <1>0, <2>1, <3>1, <3>2, VoteFields
    <3>4. StatusAfterVote(i) \in {"approved", "completed"} => Backed(i)
      <4>1. CASE StatusAfterVote(i) = actions[i].status
        BY <2>1, <4>1, QuorumFacts DEF Cleared, Backed
      <4>2. CASE QuorumMet(i, Len(actions[i].approvals) + 1)
        <5>1. Len(actions'[i].approvals) = Len(actions[i].approvals) + 1
          <6>1. actions[i].approvals \in Seq(Sessions)
            BY <1>0, <2>1 DEF Action
          <6>2. actions'[i].approvals = Append(actions[i].approvals, s)
            BY <2>1, <3>3
          <6> HIDE DEF s
          <6> QED
            BY <1>0, <6>1, <6>2
        <5>2. RequiredVotes(i)' = RequiredVotes(i)
          BY <2>1, <3>3 DEF RequiredVotes
        <5> QED
          BY <2>1, <4>2, <5>1, <5>2 DEF HasQuorum, Backed, QuorumMet
      <4> QED
        BY <4>1, <4>2 DEF StatusAfterVote
    <3>5. RowsRespect
      <4>1. \A j \in ActionIds : j > created => j # i
        BY <1>0, BoundAssumption DEF TypedInv, TypeOK, ActionIds
      <4> QED
        BY <1>0, <3>3, <3>4, <4>1 DEF RowsRespect
    <3>6. RunsRespect
      <4>1. runs' = runs
        BY <1>2 DEF VoteJson
      <4> QED
        BY <1>0, <2>1, <3>1, <3>2, <3>4, <4>1, ScheduleRespects
    <3> QED
      BY <1>2, <2>2, <3>5, <3>6 DEF RespectsQuorum, VoteJson
  <2> QED
    BY <2>3, <2>4
<1>3. CASE VoteFind(h)
  <2>1. HandlersRespect
    BY <1>0, <1>3, HandlersRespected DEF VoteFind, Points, PostgresPoints, Clearing
  <2> QED
    BY <1>3, <2>1, RowsRespected, RunsRespected DEF RespectsQuorum, VoteFind
<1>4. CASE VoteInsert(h)
  <2>1. i \in ActionIds /\ Store = "postgres"
    BY <1>0, <1>4 DEF VoteInsert, Pointing, QuorumInv, QuorumSeen, PostgresPoints
  <2>2. RowsRespect
    BY <1>0, <1>4, <2>1, RowsRespected DEF VoteInsert
  <2>3. HandlersRespect
    BY <1>0, <1>4, <2>1, HandlersRespected DEF VoteInsert, Points, Clearing
  <2> QED
    BY <1>4, <2>2, <2>3, RunsRespected DEF RespectsQuorum, VoteInsert
<1>5. CASE VoteReread(h)
  <2>1. i \in ActionIds /\ Store = "postgres"
    BY <1>0, <1>5 DEF VoteReread, Pointing, QuorumInv, QuorumSeen, PostgresPoints
  <2>2. CASE actions[i].status = "pending" /\ QuorumMet(i, Len(actions[i].approvals))
    <3>1. Backed(i)
      BY <1>a, <2>1, <2>2 DEF HasQuorum, Backed, QuorumMet
    <3>2. Goto(h, "mark") /\ UNCHANGED <<jobs, runs, actions, created>>
      BY <1>5, <2>2 DEF VoteReread
    <3>3. HandlersRespect
      BY <1>0, <2>1, <3>1, <3>2, HandlersRespected DEF Points
    <3> QED
      BY <3>2, <3>3, RowsRespected, RunsRespected DEF RespectsQuorum
  <2>3. CASE ~(actions[i].status = "pending" /\ QuorumMet(i, Len(actions[i].approvals)))
    <3>1. Return(h) /\ Schedule(i, actions[i].status) /\ UNCHANGED <<runs, actions, created>>
      BY <1>5, <2>3 DEF VoteReread
    <3>2. actions[i].status = "approved" => Backed(i)
      BY <2>1, QuorumFacts DEF Cleared, Backed
    <3>3. actions[i].status \in Status
      BY <1>0, <2>1 DEF Action
    <3>4. RunsRespect
      BY <1>0, <2>1, <3>1, <3>2, <3>3, ScheduleRespects
    <3> QED
      BY <3>1, <3>4, RowsRespected, HandlersRespected DEF RespectsQuorum
  <2> QED
    BY <2>2, <2>3
<1>6. CASE VoteMark(h)
  <2>1. i \in ActionIds /\ Backed(i)
    BY <1>0, <1>6, QuorumFacts DEF VoteMark, Pointing, Clearing, Backed
  <2>2. RowsRespect
    BY <1>0, <1>6, <2>1, RowsRespected DEF VoteMark, Status
  <2>3. RunsRespect
    BY <1>0, <1>6, <2>1, ScheduleRespects, RunsRespected DEF VoteMark, Status
  <2> QED
    BY <1>6, <2>2, <2>3, HandlersRespected DEF RespectsQuorum, VoteMark
<1> QED
  BY <1>1, <1>2, <1>3, <1>4, <1>5, <1>6 DEF Approve

LEMMA LegacyRespects ==
    ASSUME TypedInv, QuorumInv, NEW h \in Handlers, Legacy(h)
    PROVE  RespectsQuorum
<1> SUFFICES ASSUME NEW i \in 0..MaxActions, i = handlers[h].id
             PROVE  RespectsQuorum
  BY DEF TypedInv, TypeOK, Handler
<1> DEFINE s == handlers[h].session
<1>0. /\ actions \in [ActionIds -> Action]
      /\ handlers[h].pc \in Pointing => i \in ActionIds
      /\ handlers[h].pc \in PostgresPoints => Store = "postgres"
      /\ i <= created
      /\ s \in Sessions
  BY QuorumFacts DEF TypedInv, TypeOK, Handler, HandlersPoint, QuorumInv, QuorumSeen
<1>1. ASSUME NEW t \in Sessions, NEW j \in ActionIds, LegacyRead(h, t, j)
      PROVE  RespectsQuorum
  <2>1. j <= created
    BY <1>1, QuorumFacts DEF LegacyRead, Exists
  <2>2. PICK pc \in {"legacyExpire", "legacyInsert"} : Start(h, pc, t, j)
    BY <1>1 DEF LegacyRead
  <2>3. HandlersRespect
    BY <1>1, <2>1, <2>2
    DEF LegacyRead, Start, HandlersRespect, PostgresPoints, Clearing, TypedInv, TypeOK
  <2> QED
    BY <1>1, <2>3, RowsRespected, RunsRespected DEF RespectsQuorum, LegacyRead
<1>2. CASE LegacyExpire(h)
  <2>1. RowsRespect
    BY <1>0, <1>2, RowsRespected DEF LegacyExpire, Pointing, Status
  <2> QED
    BY <1>2, <2>1, RunsRespected, HandlersRespected DEF RespectsQuorum, LegacyExpire
<1>3. CASE LegacyInsert(h)
  <2>1. RowsRespect
    BY <1>0, <1>3, RowsRespected DEF LegacyInsert, Pointing
  <2>2. HandlersRespect
    BY <1>0, <1>3, HandlersRespected DEF LegacyInsert, PostgresPoints, Points, Clearing
  <2> QED
    BY <1>3, <2>1, <2>2, RunsRespected DEF RespectsQuorum, LegacyInsert
<1>4. CASE LegacyCount(h)
  <2>1. i \in ActionIds /\ Store = "postgres"
    BY <1>0, <1>4 DEF LegacyCount, Pointing, PostgresPoints
  <2>2. /\ Len(actions[i].approvals) \in Nat
        /\ RequiredVotes(i) \in {2, 3}
    BY <1>0, <2>1 DEF Action, RequiredVotes
  <2>3. LegacyQuorumMet(i, Len(actions[i].approvals)) => Backed(i)
    BY <2>1, <2>2 DEF LegacyQuorumMet, Backed, HasQuorum
  <2>4. HandlersRespect
    BY <1>0, <1>4, <2>1, <2>3, HandlersRespected DEF LegacyCount, Points
  <2> QED
    BY <1>4, <2>4, RowsRespected, RunsRespected DEF RespectsQuorum, LegacyCount
<1>5. CASE LegacyMark(h)
  <2>1. i \in ActionIds /\ Backed(i) /\ Store = "postgres"
    BY <1>0, <1>5, QuorumFacts DEF LegacyMark, Pointing, PostgresPoints, Clearing, Backed
  <2>2. RowsRespect
    BY <1>0, <1>5, <2>1, RowsRespected DEF LegacyMark, Status
  <2>3. HandlersRespect
    BY <1>0, <1>5, <2>1, HandlersRespected DEF LegacyMark, Points
  <2> QED
    BY <1>5, <2>2, <2>3, RunsRespected DEF RespectsQuorum, LegacyMark
<1>6. CASE LegacyRun(h)
  <2>1. i \in ActionIds /\ Backed(i)
    BY <1>0, <1>6, QuorumFacts DEF LegacyRun, Pointing, Clearing, Backed
  <2>2. RunsRespect
    BY <1>0, <1>6, <2>1, RunsRespected DEF LegacyRun, Channels
  <2> QED
    BY <1>6, <2>2, RowsRespected, HandlersRespected DEF RespectsQuorum, LegacyRun
<1> QED
  BY <1>1, <1>2, <1>3, <1>4, <1>5, <1>6 DEF Legacy

(* Timers, overrides, the expiry worker and the environment. *)
LEMMA BackgroundRespects ==
    ASSUME TypedInv, QuorumInv, NEW i \in ActionIds,
           \/ RunJob(i) \/ Override(i) \/ SweepExpire(i)
           \/ SweepRead \/ Environment \/ UNCHANGED vars
    PROVE  RespectsQuorum
<1>0. actions \in [ActionIds -> Action] /\ jobs \in [ActionIds -> Nat]
  BY DEF TypedInv, TypeOK
<1>a. handlers' = handlers => HandlersRespect
  BY DEF HandlersRespect
<1>1. CASE RunJob(i)
  <2>1. i <= created /\ Backed(i)
    BY <1>1, QuorumFacts DEF RunJob, Cleared, Backed
  <2>2. RunsRespect
    BY <1>1, <2>1, RunsRespected DEF RunJob, Channels
  <2> QED
    BY <1>1, <1>a, <2>2, RowsRespected DEF RespectsQuorum, RunJob
<1>2. CASE Override(i)
  <2>1. \A j \in ActionIds : /\ actions'[j].status = actions[j].status
                            /\ actions'[j].approvals = actions[j].approvals
    BY <1>0, <1>2 DEF Override, WithOverride, Action
  <2>2. RowsRespect
    BY <2>1 DEF RowsRespect
  <2> QED
    BY <1>2, <1>a, <2>2, RunsRespected DEF RespectsQuorum, Override, WithOverride
<1>3. CASE SweepExpire(i)
  <2>1. RowsRespect
    BY <1>3, QuorumFacts, RowsRespected DEF SweepExpire, Status
  <2> QED
    BY <1>3, <1>a, <2>1, RunsRespected DEF RespectsQuorum, SweepExpire
<1>4. CASE Reset
  <2>1. \A j \in ActionIds : /\ actions'[j].status = "none"
                            /\ actions'[j].approvals = actions[j].approvals
    BY <1>0, <1>4 DEF Reset, Action
  <2>2. RowsRespect
    BY <2>1 DEF RowsRespect
  <2> QED
    BY <1>4, <1>a, <2>2, RunsRespected DEF RespectsQuorum, Reset
<1>5. CASE Restart
  <2>1. HandlersRespect
    BY <1>5 DEF Restart, HandlersRespect
  <2>2. \A j \in ActionIds : jobs'[j] <= jobs[j]
    BY <1>0, <1>5 DEF Restart
  <2>3. runs' = runs
    BY <1>5 DEF Restart
  <2>4. RunsRespect
    BY <2>2, <2>3, Zenon DEF RunsRespect
  <2> QED
    BY <1>5, <2>1, <2>4, RowsRespected DEF RespectsQuorum, Restart
<1>6. CASE SweepRead \/ UNCHANGED vars
  BY <1>6, <1>a, RowsRespected, RunsRespected DEF RespectsQuorum, SweepRead, vars
<1>7. CASE Environment /\ ~Reset /\ ~Restart
  BY <1>7, <1>a, RowsRespected, RunsRespected
  DEF RespectsQuorum, Environment, TimeRunsOut, PolicyAllow, PolicyDeny, CooldownElapses
<1> QED
  BY <1>1, <1>2, <1>3, <1>4, <1>5, <1>6, <1>7

(* A new row disturbs nothing: nobody can have referred to it before. *)
LEMMA CreateKeepsQuorum ==
    ASSUME TypedInv, QuorumInv, NEW h \in Handlers, ExecuteCreate(h)
    PROVE  QuorumInv'
<1> SUFFICES ASSUME NEW n \in ActionIds, n = created + 1
             PROVE  QuorumInv'
  BY BoundAssumption DEF ExecuteCreate, TypedInv, TypeOK, ActionIds
<1>0. /\ actions \in [ActionIds -> Action]
      /\ handlers \in [Handlers -> Handler]
      /\ created \in Nat
      /\ created' = n
      /\ UNCHANGED <<jobs, runs>>
  BY BoundAssumption DEF ExecuteCreate, TypedInv, TypeOK
<1>1. /\ \A i \in ActionIds : i # n => actions'[i] = actions[i]
      /\ actions'[n].status = "pending"
  BY <1>0 DEF ExecuteCreate, NewAction
<1>2. /\ handlers'[h] = Idle
      /\ \A g \in Handlers : g # h => handlers'[g] = handlers[g]
  BY <1>0 DEF ExecuteCreate, Return
<1>3. \A i \in ActionIds : i > n => i > created /\ i # n
  BY <1>0 DEF ActionIds
<1>4. n > created
  BY <1>0
<1>5. FreshInv'
  BY <1>0, <1>1, <1>2, <1>3, Defaults DEF QuorumInv, FreshInv, ActionIds
<1>6. \A i \in ActionIds : i # n /\ HasQuorum(i) => HasQuorum(i)'
  BY <1>1 DEF HasQuorum, RequiredVotes
<1>7. QuorumSeen'
  <2>1. ASSUME NEW g \in Handlers, handlers'[g].pc \in PostgresPoints
        PROVE  Store = "postgres"
    BY <1>2, <2>1, Defaults DEF QuorumInv, QuorumSeen, PostgresPoints
  <2>2. ASSUME NEW g \in Handlers, NEW i \in ActionIds, handlers'[g].id = i,
               handlers'[g].pc \in {"mark", "legacyMark", "legacyRun"}
        PROVE  HasQuorum(i)'
    <3>1. handlers'[g] = handlers[g]
      BY <1>2, <2>2, Defaults
    <3>2. HasQuorum(i) /\ i # n
      BY <1>4, <2>2, <3>1 DEF QuorumInv, QuorumSeen, FreshInv
    <3> QED
      BY <1>6, <3>2
  <2>3. ASSUME NEW g \in Handlers, handlers'[g].pc \in {"mark", "legacyMark", "legacyRun"}
        PROVE  HasQuorum(handlers[g].id)'
    <3>1. handlers'[g] = handlers[g]
      BY <1>2, <2>3, Defaults
    <3>2. PICK i \in ActionIds : handlers'[g].id = i
      BY <2>3, <3>1 DEF TypedInv, HandlersPoint, Pointing
    <3>3. HasQuorum(i)'
      BY <2>2, <2>3, <3>2
    <3> QED
      BY <3>2, <3>3 DEF HasQuorum, RequiredVotes
  <2> QED
    BY <2>1, <2>3 DEF QuorumSeen
<1>8. NothingRunsWithoutQuorum'
  <2> SUFFICES ASSUME NEW i \in ActionIds, Cleared(i)' PROVE HasQuorum(i)'
    BY DEF NothingRunsWithoutQuorum
  <2>1. i # n
    <3>1. ~Cleared(n)'
      <4>1. jobs'[n] = 0 /\ \A c \in Channels : runs'[n][c] = 0
        BY <1>0, <1>4 DEF QuorumInv, FreshInv
      <4>2. \A g \in Handlers : handlers'[g].id # n
        BY <1>2, <1>4, Defaults DEF QuorumInv, FreshInv, ActionIds
      <4> QED
        BY <1>1, <4>1, <4>2 DEF Cleared
    <3> QED
      BY <3>1
  <2>2. Cleared(i)
    BY <1>0, <1>1, <1>2, <2>1, Defaults DEF Cleared
  <2> QED
    BY <1>6, <2>1, <2>2 DEF QuorumInv, NothingRunsWithoutQuorum
<1> QED
  BY <1>5, <1>7, <1>8 DEF QuorumInv

LEMMA QuorumInductive ==
    ASSUME TypedInv, TypedInv', QuorumInv, [Next]_vars
    PROVE  QuorumInv'
<1>1. ASSUME NEW h \in Handlers, ExecuteCreate(h)
      PROVE  QuorumInv'
  BY <1>1, CreateKeepsQuorum
<1>2. ASSUME NEW h \in Handlers, Execute(h), ~ExecuteCreate(h)
      PROVE  RespectsQuorum
  BY <1>2, ExecuteRespects
<1>3. ASSUME NEW h \in Handlers, StoreFails(h)
      PROVE  RespectsQuorum
  BY <1>3, RowsRespected, RunsRespected, HandlersRespected DEF StoreFails, RespectsQuorum
<1>4. 1 \in ActionIds
  BY BoundAssumption DEF ActionIds
<1>5. \/ QuorumInv'
      \/ RespectsQuorum
  BY <1>1, <1>2, <1>3, <1>4, ApproveRespects, LegacyRespects, BackgroundRespects DEF Next
<1> QED
  BY <1>5, QuorumStep

(* The whole strengthening holds in every reachable state. *)
LEMMA QuorumInvariant == Spec => [](TypedInv /\ QuorumInv)
<1>1. Init => QuorumInv
  <2> SUFFICES ASSUME Init PROVE QuorumInv
    OBVIOUS
  <2>1. /\ \A i \in ActionIds : actions[i] = NoRow
        /\ \A i \in ActionIds : jobs[i] = 0
        /\ \A i \in ActionIds, c \in Channels : runs[i][c] = 0
        /\ \A h \in Handlers : handlers[h] = Idle
    BY DEF Init
  <2>2. \A i \in ActionIds : ~Cleared(i)
    BY <2>1, Defaults DEF Cleared
  <2> QED
    BY <2>1, <2>2, Defaults
    DEF QuorumInv, FreshInv, QuorumSeen, NothingRunsWithoutQuorum, PostgresPoints, ActionIds
<1>2. TypedInv /\ TypedInv' /\ QuorumInv /\ [Next]_vars => QuorumInv'
  BY QuorumInductive
<1> QED
  BY <1>1, <1>2, TypeCorrect, PTL DEF Spec

(* Quorum safety, on both stores: for every number of commands, users, roles
   they hold, concurrent requests, expiries, resets and restarts, nothing is
   approved, scheduled, run or about to be run from the console without the
   votes its rating demands. *)
THEOREM QuorumSafety == Spec => []NothingRunsWithoutQuorum
<1>1. QuorumInv => NothingRunsWithoutQuorum
  BY DEF QuorumInv
<1> QED
  BY <1>1, QuorumInvariant, PTL

---------------------------------------------------------------------------
(* Separation of duties *)

(* Moving a handler changes its point and nothing else of it. *)
LEMMA GotoFields ==
    ASSUME handlers \in [Handlers -> Handler], NEW h \in Handlers, NEW pc \in Points,
           Goto(h, pc)
    PROVE  /\ \A g \in Handlers : g # h => handlers'[g] = handlers[g]
           /\ handlers'[h].pc = pc
           /\ handlers'[h].id = handlers[h].id
           /\ handlers'[h].session = handlers[h].session
<1> DEFINE moved == [handlers[h] EXCEPT !.pc = pc]
<1>1. /\ moved.pc = pc
      /\ moved.id = handlers[h].id
      /\ moved.session = handlers[h].session
  BY DEF Handler
<1>2. handlers' = [handlers EXCEPT ![h] = moved]
  BY DEF Goto
<1> HIDE DEF moved
<1>3. \A g \in Handlers : handlers'[g] = IF g = h THEN moved ELSE handlers[g]
  BY <1>2
<1> QED
  BY <1>1, <1>3

\* g keeps what it was about to vote on.
SameVote(g) ==
    /\ handlers[g].pc \in Voting
    /\ handlers'[g].pc = "vote" => handlers[g].pc = "vote"
    /\ handlers'[g].id = handlers[g].id
    /\ handlers'[g].session = handlers[g].session

\* g has just read a row its session may vote on.
NewVote(g) ==
    \E i \in ActionIds, s \in Sessions :
        /\ handlers'[g].id = i
        /\ handlers'[g].session = s
        /\ Exists(i)
        /\ MayVote(i, s)
        /\ handlers'[g].pc = "vote" => ~Blocked(i)
        /\ UNCHANGED <<actions, created>>

LEMMA VotersHistory ==
    ASSUME TypedInv, [Next]_vars, NEW g \in Handlers, handlers'[g].pc \in Voting
    PROVE  SameVote(g) \/ NewVote(g)
<1>0. handlers \in [Handlers -> Handler] /\ Idle.pc \notin Voting
  BY Defaults DEF TypedInv, TypeOK, Voting
<1>1. ASSUME handlers'[g] = handlers[g]
      PROVE  SameVote(g)
  BY <1>1 DEF SameVote
<1>2. ASSUME NEW h \in Handlers, Return(h)
      PROVE  SameVote(g)
  <2>1. g # h
    BY <1>0, <1>2 DEF Return
  <2> QED
    BY <1>0, <1>1, <1>2, <2>1 DEF Return
<1>3. ASSUME NEW h \in Handlers, NEW pc \in Points \ Voting, Goto(h, pc)
      PROVE  SameVote(g)
  <2>1. g # h
    BY <1>0, <1>3, GotoFields
  <2> QED
    BY <1>0, <1>1, <1>3, <2>1, GotoFields
<1>4. ASSUME NEW h \in Handlers, Execute(h)
      PROVE  SameVote(g)
  <2>1. ASSUME NEW s \in Sessions, NEW c \in Commands, ExecuteRead(h, s, c)
        PROVE  SameVote(g)
    <3>1. g # h /\ handlers'[g] = handlers[g]
      BY <1>0, <2>1 DEF ExecuteRead, Voting
    <3> QED
      BY <1>1, <3>1
  <2>2. CASE \/ ExecuteComplete(h) \/ ExecuteLocked(h) \/ ExecuteQueue(h)
             \/ ExecuteCreate(h) \/ ExecuteRun(h) \/ ExecuteRefused(h)
    <3>1. \/ Return(h)
          \/ \E pc \in {"gate", "create"} : Goto(h, pc)
      BY <2>2 DEF ExecuteComplete, ExecuteLocked, ExecuteQueue, ExecuteCreate, ExecuteRun,
                  ExecuteRefused
    <3> QED
      BY <1>2, <1>3, <3>1 DEF Points, Voting
  <2> QED
    BY <1>4, <2>1, <2>2 DEF Execute
<1>5. ASSUME NEW h \in Handlers, Approve(h)
      PROVE  SameVote(g) \/ NewVote(g)
  <2>1. ASSUME NEW s \in Sessions, NEW i \in ActionIds, ApproveRead(h, s, i)
        PROVE  SameVote(g) \/ NewVote(g)
    <3>1. CASE g = h
      BY <1>0, <2>1, <3>1 DEF ApproveRead, Start, NewVote, Exists
    <3>2. CASE g # h
      BY <1>0, <1>1, <2>1, <3>2 DEF ApproveRead, Start
    <3> QED
      BY <3>1, <3>2
  <2>2. CASE VoteFind(h)
    <3>1. CASE Goto(h, "insert")
      <4>1. CASE g = h
        BY <1>0, <2>2, <3>1, <4>1, GotoFields DEF VoteFind, SameVote, Points, Voting
      <4>2. CASE g # h
        BY <1>0, <1>1, <3>1, <4>2, GotoFields DEF Points
      <4> QED
        BY <4>1, <4>2
    <3> QED
      BY <1>2, <2>2, <3>1 DEF VoteFind
  <2>3. CASE VoteJson(h) \/ VoteInsert(h) \/ VoteReread(h) \/ VoteMark(h)
    <3>1. \/ Return(h)
          \/ \E pc \in {"reread", "mark"} : Goto(h, pc)
      BY <2>3 DEF VoteJson, VoteInsert, VoteReread, VoteMark
    <3> QED
      BY <1>2, <1>3, <3>1 DEF Points, Voting
  <2> QED
    BY <1>5, <2>1, <2>2, <2>3 DEF Approve
<1>6. ASSUME NEW h \in Handlers, Legacy(h)
      PROVE  SameVote(g) \/ NewVote(g)
  <2>1. ASSUME NEW s \in Sessions, NEW i \in ActionIds, LegacyRead(h, s, i)
        PROVE  SameVote(g) \/ NewVote(g)
    <3>1. CASE g = h
      <4>1. PICK pc \in {"legacyExpire", "legacyInsert"} :
               /\ Start(h, pc, s, i)
               /\ pc = "legacyInsert" => MayVote(i, s)
        BY <2>1 DEF LegacyRead
      <4>2. handlers'[g].pc = pc /\ handlers'[g].id = i /\ handlers'[g].session = s
        BY <1>0, <3>1, <4>1 DEF Start
      <4> QED
        BY <2>1, <4>1, <4>2 DEF LegacyRead, NewVote, Exists, Voting
    <3>2. CASE g # h
      BY <1>0, <1>1, <2>1, <3>2 DEF LegacyRead, Start
    <3> QED
      BY <3>1, <3>2
  <2>2. CASE \/ LegacyExpire(h) \/ LegacyInsert(h) \/ LegacyCount(h)
             \/ LegacyMark(h) \/ LegacyRun(h)
    <3>1. \/ Return(h)
          \/ \E pc \in {"legacyCount", "legacyMark", "legacyRun"} : Goto(h, pc)
      BY <2>2 DEF LegacyExpire, LegacyInsert, LegacyCount, LegacyMark, LegacyRun
    <3> QED
      BY <1>2, <1>3, <3>1 DEF Points, Voting
  <2> QED
    BY <1>6, <2>1, <2>2 DEF Legacy
<1>7. CASE Restart
  BY <1>0, <1>7 DEF Restart
<1>8. CASE handlers' = handlers
  BY <1>1, <1>8
<1>9. ASSUME NEW h \in Handlers, StoreFails(h)
      PROVE  SameVote(g)
  BY <1>2, <1>9 DEF StoreFails
<1>10. ASSUME NEW i \in ActionIds, RunJob(i) \/ Override(i) \/ SweepExpire(i)
       PROVE  handlers' = handlers
  BY <1>10 DEF RunJob, Override, WithOverride, SweepExpire
<1>11. CASE SweepRead \/ Environment \/ UNCHANGED vars
  BY <1>7, <1>8, <1>11
  DEF SweepRead, Environment, TimeRunsOut, PolicyAllow, PolicyDeny, CooldownElapses, Reset, vars
<1> QED
  BY <1>4, <1>5, <1>6, <1>8, <1>9, <1>10, <1>11 DEF Next

\* A row beyond those created before the step has no votes after it.
LEMMA NewRowsEmpty ==
    ASSUME TypedInv, QuorumInv', [Next]_vars, NEW i \in ActionIds, ~(i <= created)
    PROVE  actions'[i].approvals = <<>>
<1>0. created \in Nat /\ i > created
  BY BoundAssumption DEF TypedInv, TypeOK, ActionIds
<1>1. CASE created' = created
  BY <1>0, <1>1 DEF QuorumInv, FreshInv
<1>2. ASSUME NEW h \in Handlers, ExecuteCreate(h)
      PROVE  actions'[i].approvals = <<>>
  <2>1. created + 1 \in ActionIds /\ created' = created + 1
    BY <1>0, <1>2, BoundAssumption DEF ExecuteCreate, ActionIds
  <2>2. actions'[created + 1].approvals = <<>>
    BY <1>2, <2>1 DEF ExecuteCreate, NewAction, TypedInv, TypeOK
  <2>3. i = created + 1 \/ i > created'
    BY <1>0, <2>1 DEF ActionIds
  <2> QED
    BY <2>2, <2>3 DEF QuorumInv, FreshInv
<1>3. created' = created \/ \E h \in Handlers : ExecuteCreate(h)
  BY DEF Next, Execute, ExecuteRead, ExecuteComplete, ExecuteLocked, ExecuteQueue, ExecuteRun,
         ExecuteRefused, Approve, ApproveRead, VoteJson, VoteFind, VoteInsert, VoteReread,
         VoteMark, Legacy, LegacyRead, LegacyExpire, LegacyInsert, LegacyCount, LegacyMark,
         LegacyRun, StoreFails, RunJob, Override, WithOverride, SweepExpire, SweepRead, Environment,
         TimeRunsOut, PolicyAllow, PolicyDeny, CooldownElapses, Reset, Restart, vars
<1> QED
  BY <1>1, <1>2, <1>3

\* A vote in a grown list is an old one or the one added.
LEMMA VotesGrow ==
    ASSUME NEW votes \in Seq(Sessions), NEW s \in Sessions
    PROVE  /\ Append(votes, s) \in Seq(Sessions)
           /\ \A k \in DOMAIN Append(votes, s) :
                 \/ k \in DOMAIN votes /\ Append(votes, s)[k] = votes[k]
                 \/ Append(votes, s)[k] = s /\ k = Len(votes) + 1
OBVIOUS

LEMMA SeparationInductive ==
    ASSUME TypedInv, QuorumInv, QuorumInv', [Next]_vars, NoSelfAttestation, VotersEligible
    PROVE  NoSelfAttestation' /\ VotersEligible'
<1>0. /\ \A h \in Handlers : /\ handlers[h].session \in Sessions
                             /\ handlers[h].pc \in Voting => handlers[h].id \in ActionIds
      /\ \A i \in ActionIds : actions[i].approvals \in Seq(Sessions)
  BY DEF TypedInv, TypeOK, HandlersPoint, Pointing, Voting, Handler, Action
<1>1. ASSUME NEW i \in ActionIds, NEW k \in DOMAIN actions'[i].approvals
      PROVE  actions'[i].approvals[k].email # actions'[i].initiator
  <2>1. i <= created
    BY NewRowsEmpty
  <2>2. SameRow(i)
    BY <2>1, RowHistory
  <2>3. CASE actions'[i].approvals = actions[i].approvals
    BY <2>2, <2>3 DEF SameRow, NoSelfAttestation
  <2>4. CASE VoteAdded(i)
    <3>1. PICK h \in Handlers :
             /\ handlers[h].pc \in Voting
             /\ handlers[h].id = i
             /\ actions'[i].approvals = Append(actions[i].approvals, handlers[h].session)
      BY <2>4 DEF VoteAdded
    <3>2. handlers[h].session.email # actions[i].initiator
      BY <3>1 DEF VotersEligible, Voting
    <3>3. \/ /\ k \in DOMAIN actions[i].approvals
             /\ actions'[i].approvals[k] = actions[i].approvals[k]
          \/ actions'[i].approvals[k] = handlers[h].session
      BY <1>0, <3>1, VotesGrow
    <3> QED
      BY <2>2, <3>2, <3>3 DEF SameRow, NoSelfAttestation
  <2> QED
    BY <2>2, <2>3, <2>4 DEF SameRow
<1>2. ASSUME NEW g \in Handlers, handlers'[g].pc \in Voting, NEW i \in ActionIds,
             handlers'[g].id = i
      PROVE  handlers'[g].session.email # actions'[i].initiator
  <2>1. CASE SameVote(g)
    <3>1. handlers[g].id = i /\ i <= created
      BY <1>2, <2>1, QuorumFacts DEF SameVote
    <3>2. handlers[g].session.email # actions[i].initiator
      BY <2>1, <3>1 DEF SameVote, VotersEligible, Voting
    <3>3. actions'[i].initiator = actions[i].initiator
      BY <3>1, RowHistory DEF SameRow
    <3> QED
      BY <2>1, <3>2, <3>3 DEF SameVote
  <2>2. CASE NewVote(g)
    BY <1>2, <2>2 DEF NewVote, MayVote
  <2> QED
    BY <1>2, <2>1, <2>2, VotersHistory
<1>3. ASSUME NEW g \in Handlers, handlers'[g].pc \in Voting
      PROVE  \E i \in ActionIds : handlers'[g].id = i
  <2>1. CASE SameVote(g)
    BY <1>0, <2>1 DEF SameVote
  <2>2. CASE NewVote(g)
    BY <2>2 DEF NewVote
  <2> QED
    BY <1>3, <2>1, <2>2, VotersHistory
<1>4. VotersEligible'
  BY <1>2, <1>3 DEF VotersEligible, Voting
<1> QED
  BY <1>1, <1>4 DEF NoSelfAttestation

(* No vote, cast or about to be, is its action's initiator's. *)
LEMMA VotersInvariant == Spec => [](NoSelfAttestation /\ VotersEligible)
<1>1. Init => NoSelfAttestation /\ VotersEligible
  BY Defaults DEF Init, NoSelfAttestation, VotersEligible
<1>2. /\ TypedInv /\ QuorumInv /\ QuorumInv' /\ [Next]_vars
      /\ NoSelfAttestation /\ VotersEligible
      => NoSelfAttestation' /\ VotersEligible'
  BY SeparationInductive
<1> QED
  BY <1>1, <1>2, QuorumInvariant, PTL DEF Spec

(* Separation of duties, on both stores: although the test is made on a
   snapshot and the vote is written steps later, no vote is its initiator's. *)
THEOREM SeparationOfDuties == Spec => []NoSelfAttestation
BY VotersInvariant, PTL

---------------------------------------------------------------------------
(* The JSON store: the vote is tested and written in one step *)

(* Uniqueness of votes in the JSON store, which the Postgres store does not
   give: the test for an earlier vote is made under the lock of the write. *)
THEOREM JsonVotesUnique ==
    ASSUME Store = "json"
    PROVE  Spec => []OneVotePerRoleAndApprover
<1>1. Init => OneVotePerRoleAndApprover
  BY Defaults DEF Init, OneVotePerRoleAndApprover
<1>2. ASSUME TypedInv, QuorumInv, QuorumInv', [Next]_vars, OneVotePerRoleAndApprover
      PROVE  OneVotePerRoleAndApprover'
  <2>0. /\ \A h \in Handlers : handlers[h].session \in Sessions
        /\ \A i \in ActionIds : actions[i].approvals \in Seq(Sessions)
    BY <1>2 DEF TypedInv, TypeOK, Handler, Action
  <2>1. SUFFICES ASSUME NEW i \in ActionIds,
                        NEW j \in DOMAIN actions'[i].approvals,
                        NEW k \in DOMAIN actions'[i].approvals, j # k
                 PROVE  /\ actions'[i].approvals[j].role # actions'[i].approvals[k].role
                        /\ actions'[i].approvals[j].email # actions'[i].approvals[k].email
    BY DEF OneVotePerRoleAndApprover
  <2>2. SameRow(i)
    <3>1. i <= created
      BY <1>2, NewRowsEmpty
    <3> QED
      BY <1>2, <3>1, RowHistory
  <2>3. CASE actions'[i].approvals = actions[i].approvals
    BY <1>2, <2>1, <2>3 DEF OneVotePerRoleAndApprover
  <2>4. CASE VoteAdded(i)
    <3>1. PICK h \in Handlers :
             /\ handlers[h].pc \in Voting
             /\ handlers[h].pc = "vote" => ~HasVoted(i, handlers[h].session)
             /\ actions'[i].approvals = Append(actions[i].approvals, handlers[h].session)
      BY <2>4 DEF VoteAdded
    <3>2. \A n \in DOMAIN actions[i].approvals :
             /\ actions[i].approvals[n].role # handlers[h].session.role
             /\ actions[i].approvals[n].email # handlers[h].session.email
      BY <1>2, <3>1 DEF QuorumInv, QuorumSeen, PostgresPoints, Voting, HasVoted
    <3>3. \A n \in DOMAIN actions'[i].approvals :
             \/ /\ n \in DOMAIN actions[i].approvals
                /\ actions'[i].approvals[n] = actions[i].approvals[n]
             \/ /\ actions'[i].approvals[n] = handlers[h].session
                /\ n = Len(actions[i].approvals) + 1
      BY <2>0, <3>1, VotesGrow
    <3> QED
      BY <1>2, <2>1, <3>2, <3>3 DEF OneVotePerRoleAndApprover
  <2> QED
    BY <2>2, <2>3, <2>4 DEF SameRow
<1> QED
  BY <1>1, <1>2, QuorumInvariant, PTL DEF Spec

(* In the JSON store no dangerous command collects a vote, so none can be
   approved, before an administrator has unlocked it: a block read as lifted
   stays lifted until the vote is written. *)
THEOREM JsonBlockHolds ==
    ASSUME Store = "json"
    PROVE  Spec => []DangerousVotesOverridden
<1>1. Init => DangerousVotesOverridden /\ VotersUnlocked
  BY Defaults DEF Init, DangerousVotesOverridden, VotersUnlocked
<1>2. ASSUME TypedInv, QuorumInv, QuorumInv', [Next]_vars,
             DangerousVotesOverridden, VotersUnlocked
      PROVE  DangerousVotesOverridden' /\ VotersUnlocked'
  <2>1. ASSUME NEW i \in ActionIds, actions'[i].command \in Dangerous,
               actions'[i].approvals # <<>>
        PROVE  actions'[i].overridden
    <3>1. SameRow(i)
      <4>1. i <= created
        BY <1>2, <2>1, NewRowsEmpty
      <4> QED
        BY <1>2, <4>1, RowHistory
    <3>2. CASE actions'[i].approvals = actions[i].approvals
      BY <1>2, <2>1, <3>1, <3>2 DEF SameRow, DangerousVotesOverridden
    <3>3. CASE VoteAdded(i)
      <4>1. PICK h \in Handlers : handlers[h].pc = "vote" /\ handlers[h].id = i
        BY <1>2, <3>3 DEF VoteAdded, Voting, QuorumInv, QuorumSeen, PostgresPoints
      <4>2. ~Blocked(i)
        BY <1>2, <4>1 DEF VotersUnlocked
      <4> QED
        BY <2>1, <3>1, <4>2 DEF SameRow, Blocked
    <3> QED
      BY <3>1, <3>2, <3>3 DEF SameRow
  <2>2. ASSUME NEW g \in Handlers, handlers'[g].pc = "vote"
        PROVE  \E i \in ActionIds : handlers'[g].id = i /\ ~Blocked(i)'
    <3>1. CASE SameVote(g)
      <4>1. PICK i \in ActionIds : handlers[g].id = i
        BY <1>2, <2>2, <3>1 DEF SameVote, TypedInv, HandlersPoint, Pointing
      <4>2. i <= created /\ ~Blocked(i)
        BY <1>2, <2>2, <3>1, <4>1, QuorumFacts DEF SameVote, VotersUnlocked
      <4>3. SameRow(i)
        BY <1>2, <4>2, RowHistory
      <4> QED
        BY <3>1, <4>1, <4>2, <4>3 DEF SameVote, SameRow, Blocked
    <3>2. CASE NewVote(g)
      BY <2>2, <3>2 DEF NewVote, Blocked
    <3> QED
      BY <1>2, <2>2, <3>1, <3>2, VotersHistory DEF Voting
  <2>3. VotersUnlocked'
    BY <2>2 DEF VotersUnlocked, Blocked
  <2> QED
    BY <2>1, <2>3 DEF DangerousVotesOverridden
<1> QED
  BY <1>1, <1>2, QuorumInvariant, PTL DEF Spec

(* What a step may do to the status of a row. *)
LEMMA JsonStatus ==
    ASSUME Store = "json", TypedInv, QuorumInv, [Next]_vars, NEW i \in ActionIds
    PROVE  /\ actions'[i].status = "approved" => actions[i].status \in {"approved", "pending"}
           /\ actions'[i].status = "pending" => actions[i].status = "pending" \/ i > created
<1> DEFINE Sound == /\ actions'[i].status = "approved" => actions[i].status \in {"approved", "pending"}
                    /\ actions'[i].status = "pending" => actions[i].status = "pending" \/ i > created
<1>0. /\ actions \in [ActionIds -> Action]
      /\ created \in Nat
      /\ \A h \in Handlers : /\ handlers[h].session \in Sessions
                             /\ handlers[h].pc \in Pointing => handlers[h].id \in ActionIds
                             /\ handlers[h].pc \notin PostgresPoints
  BY BoundAssumption DEF TypedInv, TypeOK, Handler, HandlersPoint, QuorumInv, QuorumSeen
<1>1. ASSUME actions' = actions
      PROVE  Sound
  BY <1>1
<1>2. ASSUME NEW j \in ActionIds, NEW st \in {"completed", "expired"}, actions' = WithStatus(j, st)
      PROVE  Sound
  BY <1>0, <1>2, RowFields DEF Status
<1>3. ASSUME NEW h \in Handlers, Execute(h)
      PROVE  Sound
  <2>1. CASE ExecuteComplete(h)
    BY <1>0, <1>1, <1>2, <2>1 DEF ExecuteComplete, Consumed, Pointing
  <2>2. CASE ExecuteCreate(h)
    <3>1. i <= created => actions'[i] = actions[i]
      BY <1>0, <2>2 DEF ExecuteCreate, ActionIds
    <3>2. i = created + 1 => actions'[i].status = "pending"
      BY <1>0, <2>2 DEF ExecuteCreate, NewAction
    <3>3. i > created + 1 => actions'[i] = actions[i]
      BY <1>0, <2>2 DEF ExecuteCreate, ActionIds
    <3> QED
      BY <1>0, <3>1, <3>2, <3>3 DEF ActionIds
  <2>3. CASE ~ExecuteComplete(h) /\ ~ExecuteCreate(h)
    BY <1>1, <1>3, <2>3
    DEF Execute, ExecuteRead, ExecuteLocked, ExecuteQueue, ExecuteRun, ExecuteRefused
  <2> QED
    BY <2>1, <2>2, <2>3
<1>4. ASSUME NEW h \in Handlers, Approve(h)
      PROVE  Sound
  <2>1. CASE VoteJson(h)
    <3> SUFFICES ASSUME NEW j \in ActionIds, j = handlers[h].id
                 PROVE  Sound
      BY <1>0, <2>1 DEF VoteJson, Pointing
    <3>1. /\ StatusAfterVote(j) \in Status
          /\ StatusAfterVote(j) = actions[j].status
             \/ (StatusAfterVote(j) = "approved" /\ actions[j].status = "pending")
      BY <1>0 DEF StatusAfterVote, Status, Action
    <3>2. \/ actions' = actions
          \/ actions' = [WithVote(j, handlers[h].session) EXCEPT ![j].status = StatusAfterVote(j)]
      BY <2>1 DEF VoteJson
    <3>3. ASSUME actions' = [WithVote(j, handlers[h].session) EXCEPT ![j].status = StatusAfterVote(j)]
          PROVE  actions'[i].status = IF i = j THEN StatusAfterVote(j) ELSE actions[i].status
      BY <1>0, <3>1, <3>3, VoteFields
    <3> QED
      BY <1>1, <3>1, <3>2, <3>3
  <2>2. ~VoteInsert(h) /\ ~VoteMark(h)
    BY <1>0 DEF VoteInsert, VoteMark, PostgresPoints
  <2>3. CASE ~VoteJson(h)
    BY <1>1, <1>4, <2>2, <2>3 DEF Approve, ApproveRead, VoteFind, VoteReread
  <2> QED
    BY <2>1, <2>3
<1>5. ASSUME NEW h \in Handlers, Legacy(h)
      PROVE  Sound
  <2>1. ~LegacyExpire(h) /\ ~LegacyInsert(h) /\ ~LegacyMark(h)
    BY <1>0 DEF LegacyExpire, LegacyInsert, LegacyMark, PostgresPoints
  <2> QED
    BY <1>1, <1>5, <2>1 DEF Legacy, LegacyRead, LegacyCount, LegacyRun
<1>6. ASSUME NEW j \in ActionIds, RunJob(j) \/ Override(j) \/ SweepExpire(j)
      PROVE  Sound
  <2>1. CASE RunJob(j)
    BY <1>1, <2>1 DEF RunJob
  <2>2. CASE Override(j)
    BY <1>0, <2>2 DEF Override, WithOverride, Action
  <2>3. CASE SweepExpire(j)
    BY <1>1, <1>2, <2>3 DEF SweepExpire
  <2> QED
    BY <1>6, <2>1, <2>2, <2>3
<1>7. CASE Environment
  <2>1. CASE Reset
    BY <1>0, <2>1 DEF Reset, Action
  <2>2. CASE ~Reset
    BY <1>1, <1>7, <2>2
    DEF Environment, TimeRunsOut, PolicyAllow, PolicyDeny, CooldownElapses, Restart
  <2> QED
    BY <2>1, <2>2
<1>8. CASE SweepRead \/ (\E h \in Handlers : StoreFails(h)) \/ UNCHANGED vars
  BY <1>1, <1>8 DEF SweepRead, StoreFails, vars
<1> QED
  BY <1>3, <1>4, <1>5, <1>6, <1>7, <1>8 DEF Next

(* In the JSON store nothing brings an expired or completed action back, although
   votes and expiries act on rows read earlier. *)
THEOREM JsonApprovals ==
    ASSUME Store = "json"
    PROVE  Spec => ApprovalFollowsPending
<1>1. ASSUME TypedInv, QuorumInv, [Next]_vars
      PROVE  [\A i \in ActionIds :
                 actions'[i].status # actions[i].status =>
                    /\ actions'[i].status = "approved" => actions[i].status = "pending"
                    /\ actions'[i].status = "pending" => i > created]_vars
  BY <1>1, JsonStatus
<1> QED
  BY <1>1, QuorumInvariant, PTL DEF Spec, ApprovalFollowsPending

\* The console requests that hold the approval of i.
Holders(i) == {h \in Handlers : handlers[h].pc \in {"complete", "gate"} /\ handlers[h].id = i}

\* Once a request has consumed an approval no other can read it, and each that
\* had read it runs at most once.
SpentInv ==
    \A i \in ActionIds :
        /\ \/ runs[i]["console"] > 0
           \/ \E h \in Handlers : handlers[h].pc = "gate" /\ handlers[h].id = i
           => actions[i].status \notin {"pending", "approved"}
        /\ runs[i]["console"] + Cardinality(Holders(i)) <= Cardinality(Handlers)

LEMMA HoldersFinite ==
    ASSUME IsFiniteSet(Handlers), NEW i \in ActionIds
    PROVE  /\ IsFiniteSet(Holders(i)) /\ Cardinality(Holders(i)) \in Nat
           /\ Cardinality(Handlers) \in Nat
           /\ Cardinality(Holders(i)) <= Cardinality(Handlers)
BY FS_Subset, FS_CardinalityType DEF Holders

(* A step after which nobody newly holds an approval, and nothing newly ran. *)
LEMMA NobodyReads ==
    ASSUME Store = "json", IsFiniteSet(Handlers), TypedInv, QuorumInv, [Next]_vars, SpentInv,
           \A i \in ActionIds : runs'[i]["console"] = runs[i]["console"],
           \A g \in Handlers : \/ handlers'[g] = handlers[g]
                              \/ handlers'[g].pc \notin {"complete", "gate"}
                              \/ handlers'[g].id = 0
    PROVE  SpentInv'
<1> SUFFICES ASSUME NEW i \in ActionIds
             PROVE  /\ \/ runs'[i]["console"] > 0
                       \/ \E h \in Handlers : handlers'[h].pc = "gate" /\ handlers'[h].id = i
                       => actions'[i].status \notin {"pending", "approved"}
                    /\ runs'[i]["console"] + Cardinality(Holders(i)') <= Cardinality(Handlers)
  BY DEF SpentInv, Holders
<1>1. Holders(i)' \subseteq Holders(i)
  BY DEF Holders, ActionIds
<1>2. Cardinality(Holders(i)') \in Nat /\ Cardinality(Holders(i)') <= Cardinality(Holders(i))
  BY <1>1, HoldersFinite, FS_Subset, FS_CardinalityType
<1>3. runs[i]["console"] \in Nat
  BY DEF TypedInv, TypeOK, Channels
<1>4. \/ runs'[i]["console"] > 0
      \/ \E h \in Handlers : handlers'[h].pc = "gate" /\ handlers'[h].id = i
      => /\ actions[i].status \notin {"pending", "approved"}
         /\ ~(i > created)
  <2>1. runs[i]["console"] > 0 => ~(i > created)
    BY DEF QuorumInv, FreshInv, Channels
  <2>2. ASSUME NEW h \in Handlers, handlers'[h].pc = "gate", handlers'[h].id = i
        PROVE  handlers[h].pc = "gate" /\ handlers[h].id = i /\ ~(i > created)
    <3>1. i # 0
      BY DEF ActionIds
    <3> QED BY <2>2, <3>1 DEF QuorumInv, FreshInv
  <2> QED BY <2>1, <2>2 DEF SpentInv
<1> QED
  BY <1>2, <1>3, <1>4, HoldersFinite, JsonStatus DEF SpentInv

LEMMA SpentStep ==
    ASSUME Store = "json", IsFiniteSet(Handlers), TypedInv, QuorumInv, [Next]_vars, SpentInv
    PROVE  SpentInv'
<1>0. /\ actions \in [ActionIds -> Action]
      /\ handlers \in [Handlers -> Handler]
      /\ runs \in [ActionIds -> [Channels -> Nat]]
      /\ \A h \in Handlers : /\ handlers[h].pc \in Pointing => handlers[h].id \in ActionIds
                             /\ handlers[h].pc \notin PostgresPoints
  BY DEF TypedInv, TypeOK, HandlersPoint, QuorumInv, QuorumSeen
<1>1. ASSUME NEW h \in Handlers, NEW s \in Sessions, NEW c \in Commands, ExecuteRead(h, s, c)
      PROVE  SpentInv'
  <2>1. PICK a \in 0..MaxActions :
            /\ IsNewest(a, c, "approved")
            /\ handlers'[h].pc = (IF a = 0 THEN "gate" ELSE "complete")
            /\ handlers'[h].id = a
            /\ \A g \in Handlers : g # h => handlers'[g] = handlers[g]
    BY <1>0, <1>1 DEF ExecuteRead
  <2>2. actions' = actions /\ runs' = runs
    BY <1>1 DEF ExecuteRead
  <2>3. CASE a = 0
    BY <2>1, <2>2, <2>3, NobodyReads
  <2>4. CASE a # 0
    <3>1. actions[a].status = "approved" /\ a \in ActionIds
      BY <2>1, <2>4, BoundAssumption DEF IsNewest, ActionIds
    <3>2. runs[a]["console"] = 0
      BY <1>0, <3>1 DEF SpentInv, Channels
    <3>3. ASSUME NEW i \in ActionIds
          PROVE  /\ \/ runs'[i]["console"] > 0
                    \/ \E g \in Handlers : handlers'[g].pc = "gate" /\ handlers'[g].id = i
                    => actions'[i].status \notin {"pending", "approved"}
                 /\ runs'[i]["console"] + Cardinality(Holders(i)') <= Cardinality(Handlers)
      <4>1. ASSUME NEW g \in Handlers, handlers'[g].pc = "gate" PROVE handlers[g] = handlers'[g]
        BY <2>1, <2>4, <4>1
      <4>2. CASE i = a
        <5>1. Holders(i)' \subseteq Handlers
          BY DEF Holders
        <5>2. Cardinality(Holders(i)') \in Nat /\ Cardinality(Holders(i)') <= Cardinality(Handlers)
          BY <5>1, FS_Subset, FS_CardinalityType
        <5> QED
          BY <2>2, <3>2, <4>1, <4>2, <5>2 DEF SpentInv
      <4>3. CASE i # a
        <5>1. Holders(i)' \subseteq Holders(i)
          BY <2>1, <4>3 DEF Holders
        <5>2. /\ Cardinality(Holders(i)') \in Nat
              /\ Cardinality(Holders(i)') <= Cardinality(Holders(i))
          BY <5>1, HoldersFinite, FS_Subset, FS_CardinalityType
        <5>3. runs[i]["console"] \in Nat
          BY <1>0 DEF Channels
        <5>4. runs[i]["console"] + Cardinality(Holders(i)') <= Cardinality(Handlers)
          BY <5>2, <5>3, HoldersFinite DEF SpentInv
        <5> QED
          BY <2>2, <4>1, <5>4 DEF SpentInv
      <4> QED
        BY <4>2, <4>3
    <3> QED
      BY <3>3 DEF SpentInv, Holders
  <2> QED
    BY <2>3, <2>4
<1>2. ASSUME NEW h \in Handlers, ExecuteComplete(h)
      PROVE  SpentInv'
  <2>1. PICK a \in ActionIds : a = handlers[h].id /\ handlers[h].pc = "complete"
    BY <1>0, <1>2 DEF ExecuteComplete, Pointing
  <2>2. /\ handlers'[h].pc = "gate" /\ handlers'[h].id = a
        /\ \A g \in Handlers : g # h => handlers'[g] = handlers[g]
    <3>1. Goto(h, "gate")
      BY <1>2 DEF ExecuteComplete
    <3> QED
      BY <1>0, <2>1, <3>1, GotoFields DEF Points
  <2>3. runs' = runs
    BY <1>2 DEF ExecuteComplete
  <2>4. actions'[a].status \in {"completed", "none"}
    BY <1>0, <1>2, <2>1, RowFields DEF ExecuteComplete, Consumed, Exists, Status
  <2>5. ASSUME NEW i \in ActionIds
        PROVE  /\ \/ runs'[i]["console"] > 0
                  \/ \E g \in Handlers : handlers'[g].pc = "gate" /\ handlers'[g].id = i
                  => actions'[i].status \notin {"pending", "approved"}
               /\ runs'[i]["console"] + Cardinality(Holders(i)') <= Cardinality(Handlers)
    <3>1. Holders(i)' = Holders(i)
      BY <2>1, <2>2 DEF Holders
    <3>2. CASE i = a
      BY <2>3, <2>4, <3>1, <3>2 DEF SpentInv
    <3>3. CASE i # a
      <4>1. \/ runs'[i]["console"] > 0
            \/ \E g \in Handlers : handlers'[g].pc = "gate" /\ handlers'[g].id = i
            => /\ actions[i].status \notin {"pending", "approved"}
               /\ ~(i > created)
        <5>1. runs[i]["console"] > 0 => ~(i > created)
          BY DEF QuorumInv, FreshInv, Channels
        <5>2. \A g \in Handlers : handlers[g].id = i => ~(i > created)
          BY DEF QuorumInv, FreshInv
        <5> QED
          BY <2>2, <2>3, <3>3, <5>1, <5>2 DEF SpentInv
      <4> QED
        BY <2>3, <3>1, <4>1, JsonStatus DEF SpentInv
    <3> QED
      BY <3>2, <3>3
  <2> QED
    BY <2>5 DEF SpentInv, Holders
<1>3. ASSUME NEW h \in Handlers, ExecuteRun(h), handlers[h].id # 0
      PROVE  SpentInv'
  <2>1. PICK a \in ActionIds : a = handlers[h].id /\ handlers[h].pc = "gate"
    BY <1>0, <1>3, BoundAssumption DEF ExecuteRun, Handler, ActionIds
  <2>2. /\ handlers'[h] = Idle
        /\ \A g \in Handlers : g # h => handlers'[g] = handlers[g]
    BY <1>0, <1>3 DEF ExecuteRun, Return
  <2>3. /\ actions' = actions
        /\ \A i \in ActionIds : runs'[i]["console"] = IF i = a THEN runs[i]["console"] + 1
                                                             ELSE runs[i]["console"]
    BY <1>0, <1>3, <2>1 DEF ExecuteRun, Channels
  <2>4. ASSUME NEW i \in ActionIds
        PROVE  /\ \/ runs'[i]["console"] > 0
                  \/ \E g \in Handlers : handlers'[g].pc = "gate" /\ handlers'[g].id = i
                  => actions'[i].status \notin {"pending", "approved"}
               /\ runs'[i]["console"] + Cardinality(Holders(i)') <= Cardinality(Handlers)
    <3>1. \A g \in Handlers : handlers'[g].pc = "gate" => handlers'[g] = handlers[g]
      BY <2>2, Defaults
    <3>2. runs[i]["console"] \in Nat
      BY <1>0 DEF Channels
    <3>3. CASE i = a
      <4>1. h \in Holders(i) /\ Holders(i)' = Holders(i) \ {h}
        BY <2>1, <2>2, <3>3, Defaults DEF Holders
      <4>2. Cardinality(Holders(i)') = Cardinality(Holders(i)) - 1
        BY <4>1, HoldersFinite, FS_RemoveElement
      <4> QED
        BY <2>1, <2>3, <3>2, <3>3, <4>2, HoldersFinite DEF SpentInv
    <3>4. CASE i # a
      <4>1. Holders(i)' = Holders(i)
        BY <2>1, <2>2, <3>4, Defaults DEF Holders
      <4> QED
        BY <2>3, <3>1, <3>4, <4>1 DEF SpentInv
    <3> QED
      BY <3>3, <3>4
  <2> QED
    BY <2>4 DEF SpentInv, Holders
<1>4. ASSUME \A i \in ActionIds : runs'[i]["console"] = runs[i]["console"],
             NEW h \in Handlers, NEW pc \in Points \ {"complete", "gate"},
             \/ Return(h) \/ Goto(h, pc)
             \/ \E s \in Sessions, i \in ActionIds : Start(h, pc, s, i)
      PROVE  SpentInv'
  <2>1. ASSUME NEW g \in Handlers
        PROVE  handlers'[g] = handlers[g] \/ handlers'[g].pc \notin {"complete", "gate"}
    <3>1. CASE Return(h)
      BY <1>0, <3>1, Defaults DEF Return
    <3>2. CASE Goto(h, pc)
      BY <1>0, <1>4, <3>2, GotoFields
    <3>3. ASSUME NEW s \in Sessions, NEW i \in ActionIds, Start(h, pc, s, i)
          PROVE  handlers'[g] = handlers[g] \/ handlers'[g].pc \notin {"complete", "gate"}
      BY <1>0, <1>4, <3>3 DEF Start
    <3> QED
      BY <1>4, <3>1, <3>2, <3>3
  <2> QED
    BY <1>4, <2>1, NobodyReads
<1>5. ASSUME \A i \in ActionIds : runs'[i]["console"] = runs[i]["console"],
             handlers' = handlers
      PROVE  SpentInv'
  BY <1>5, NobodyReads
<1>6. ASSUME NEW h \in Handlers, Execute(h) \/ Approve(h) \/ Legacy(h) \/ StoreFails(h),
             ~ExecuteComplete(h), ~ExecuteRun(h) \/ handlers[h].id = 0,
             \A s \in Sessions, c \in Commands : ~ExecuteRead(h, s, c)
      PROVE  SpentInv'
  <2>1. runs' = runs
    BY <1>0, <1>6
    DEF Execute, ExecuteLocked, ExecuteQueue, ExecuteCreate, ExecuteRun, ExecuteRefused, Approve,
        ApproveRead, VoteJson, VoteFind, VoteInsert, VoteReread, VoteMark, Legacy, LegacyRead,
        LegacyExpire, LegacyInsert, LegacyCount, LegacyMark, LegacyRun, StoreFails, PostgresPoints
  <2>2. \/ Return(h)
        \/ \E pc \in {"create", "insert", "reread", "mark", "legacyCount", "legacyMark",
                      "legacyRun"} : Goto(h, pc)
        \/ \E s \in Sessions, i \in ActionIds, pc \in {"vote", "legacyExpire", "legacyInsert"} :
              Start(h, pc, s, i)
    BY <1>6
    DEF Execute, ExecuteLocked, ExecuteQueue, ExecuteCreate, ExecuteRun, ExecuteRefused, Approve,
        ApproveRead, VoteJson, VoteFind, VoteInsert, VoteReread, VoteMark, Legacy, LegacyRead,
        LegacyExpire, LegacyInsert, LegacyCount, LegacyMark, LegacyRun, StoreFails
  <2> QED
    BY <1>4, <2>1, <2>2 DEF Points
<1>7. ASSUME NEW j \in ActionIds, RunJob(j) \/ Override(j) \/ SweepExpire(j)
      PROVE  SpentInv'
  <2>1. handlers' = handlers /\ \A i \in ActionIds : runs'[i]["console"] = runs[i]["console"]
    BY <1>0, <1>7 DEF RunJob, Override, WithOverride, SweepExpire, Channels
  <2> QED
    BY <1>5, <2>1
<1>8. CASE Restart
  BY <1>8, NobodyReads, Defaults DEF Restart
<1>9. CASE SweepRead \/ (Environment /\ ~Restart) \/ UNCHANGED vars
  BY <1>5, <1>9
  DEF SweepRead, Environment, TimeRunsOut, PolicyAllow, PolicyDeny, CooldownElapses, Reset, vars
<1> QED
  BY <1>1, <1>2, <1>3, <1>6, <1>7, <1>8, <1>9 DEF Next

(* In the JSON store an approval is run from the console by no more requests
   than were in flight when it was consumed, for any number of them. *)
THEOREM JsonApprovalsSpent ==
    ASSUME Store = "json", IsFiniteSet(Handlers)
    PROVE  Spec => []SpentApprovalStaysSpent
<1>1. Init => SpentInv
  <2> SUFFICES ASSUME Init, NEW i \in ActionIds
               PROVE  /\ ~(runs[i]["console"] > 0)
                      /\ \A h \in Handlers : ~(handlers[h].pc = "gate" /\ handlers[h].id = i)
                      /\ runs[i]["console"] + Cardinality(Holders(i)) <= Cardinality(Handlers)
    BY DEF SpentInv
  <2>1. runs[i]["console"] = 0 /\ \A h \in Handlers : handlers[h] = Idle
    BY DEF Init, Channels
  <2> QED
    BY <2>1, Defaults, HoldersFinite
<1>2. TypedInv /\ QuorumInv /\ [Next]_vars /\ SpentInv => SpentInv'
  BY SpentStep
<1>3. TypedInv /\ SpentInv => SpentApprovalStaysSpent
  <2> SUFFICES ASSUME TypedInv, SpentInv, NEW i \in ActionIds
               PROVE  runs[i]["console"] <= Cardinality(Handlers)
    BY DEF SpentApprovalStaysSpent
  <2>1. runs[i]["console"] \in Nat
    BY DEF TypedInv, TypeOK, Channels
  <2> QED
    BY <2>1, HoldersFinite DEF SpentInv
<1> QED
  BY <1>1, <1>2, <1>3, QuorumInvariant, PTL DEF Spec

---------------------------------------------------------------------------
(* The JSON store implements the quorum gate: what the gate sees of the rows *)

(* The votes of the gate are as many as the approvals of the row. *)
LEMMA VotesCounted ==
    ASSUME TypedInv, OneVotePerRoleAndApprover, NEW i \in ActionIds
    PROVE  /\ IsFiniteSet(VotesOf(i))
           /\ Cardinality(VotesOf(i)) = Len(actions[i].approvals)
<1> DEFINE n == Len(actions[i].approvals)
           f == [k \in 1..n |-> actions[i].approvals[k]]
<1>1. actions[i].approvals \in Seq(Sessions)
  BY DEF TypedInv, TypeOK, Action
<1>2. n \in Nat /\ DOMAIN actions[i].approvals = 1..n
  BY <1>1
<1>3. f \in [1..n -> VotesOf(i)]
  BY <1>2 DEF VotesOf
<1>4. \A j, k \in 1..n : f[j] = f[k] => j = k
  BY <1>2 DEF OneVotePerRoleAndApprover
<1>5. \A v \in VotesOf(i) : \E k \in 1..n : f[k] = v
  BY <1>2 DEF VotesOf
<1> HIDE DEF f
<1>6. ExistsBijection(1..n, VotesOf(i))
  <2>1. f \in Injection(1..n, VotesOf(i))
    BY <1>3, <1>4 DEF Injection, IsInjective
  <2>2. f \in Surjection(1..n, VotesOf(i))
    BY <1>3, <1>5, Zenon DEF Surjection
  <2> QED
    BY <2>1, <2>2 DEF ExistsBijection, Bijection
<1>7. IsFiniteSet(1..n) /\ Cardinality(1..n) = n
  BY <1>2, FS_Interval
<1> QED
  BY <1>6, <1>7, FS_Bijection

(* A vote appended to the row is one added to the gate's set. *)
LEMMA VoteAppended ==
    ASSUME NEW votes \in Seq(Sessions), NEW s \in Sessions
    PROVE  {Append(votes, s)[k] : k \in DOMAIN Append(votes, s)}
             = {votes[k] : k \in DOMAIN votes} \cup {s}
<1>1. /\ DOMAIN Append(votes, s) = 1..(Len(votes) + 1)
      /\ DOMAIN votes = 1..Len(votes)
      /\ Len(votes) \in Nat
      /\ \A k \in 1..Len(votes) : Append(votes, s)[k] = votes[k]
      /\ Append(votes, s)[Len(votes) + 1] = s
  OBVIOUS
<1>2. 1..(Len(votes) + 1) = 1..Len(votes) \cup {Len(votes) + 1}
  BY <1>1
<1> QED
  BY <1>1, <1>2

\* What the gate sees of row i stays, but for its phase; and the phase too.
SeenKept(i) ==
    /\ actions'[i].initiator = actions[i].initiator
    /\ RequiredVotes(i)' = RequiredVotes(i)

PhaseKept(i) == PhaseOf(actions'[i].status) = PhaseOf(actions[i].status)

RunsKept == HasRun' = HasRun

(* The gate counts as this module does. *)
LEMMA SameCount == \A S : Gate!Cardinality(S) = Cardinality(S)
BY DEF Gate!Cardinality, Cardinality

(* The actions of the gate, from what they say of each request. *)
LEMMA GateStutters ==
    ASSUME \A i \in ActionIds : SeenKept(i) /\ VotesOf(i)' = VotesOf(i) /\ PhaseKept(i), RunsKept
    PROVE  UNCHANGED Gate!gateVars
BY DEF SeenKept, PhaseKept, RunsKept, Gate!gateVars

LEMMA GateCloses ==
    ASSUME NEW r \in ActionIds, RunsKept,
           PhaseOf(actions[r].status) \in {"open", "granted"},
           PhaseOf(actions'[r].status) = "closed",
           \A i \in ActionIds : SeenKept(i) /\ VotesOf(i)' = VotesOf(i) /\ (i # r => PhaseKept(i))
    PROVE  Gate!Close(r)
BY DEF SeenKept, PhaseKept, RunsKept, Gate!Close

LEMMA GateDiscards ==
    ASSUME RunsKept,
           \A i \in ActionIds : /\ SeenKept(i) /\ VotesOf(i)' = VotesOf(i)
                                /\ PhaseOf(actions'[i].status) = "none"
    PROVE  Gate!Discard
BY DEF SeenKept, RunsKept, Gate!Discard

LEMMA GateRuns ==
    ASSUME NEW r \in ActionIds, HasRun' = HasRun \cup {r},
           Cardinality(VotesOf(r)) >= RequiredVotes(r),
           \A i \in ActionIds : SeenKept(i) /\ VotesOf(i)' = VotesOf(i) /\ PhaseKept(i)
    PROVE  Gate!Run(r)
BY SameCount DEF SeenKept, PhaseKept, Gate!Run, Gate!HasVotes

LEMMA GateVotes ==
    ASSUME NEW r \in ActionIds, NEW v \in Sessions, RunsKept,
           PhaseOf(actions[r].status) # "none",
           v.email # actions[r].initiator,
           \A w \in VotesOf(r) : w.role # v.role /\ w.email # v.email,
           VotesOf(r)' = VotesOf(r) \cup {v},
           PhaseOf(actions'[r].status) =
              IF /\ PhaseOf(actions[r].status) = "open"
                 /\ Cardinality(VotesOf(r) \cup {v}) >= RequiredVotes(r)
              THEN "granted" ELSE PhaseOf(actions[r].status),
           \A i \in ActionIds : SeenKept(i)
                             /\ (i # r => VotesOf(i)' = VotesOf(i) /\ PhaseKept(i))
    PROVE  Gate!Vote(r, v)
<1> DEFINE phases == [i \in ActionIds |-> PhaseOf(actions[i].status)]
           voters == [i \in ActionIds |-> VotesOf(i)]
<1>1. voters' = [voters EXCEPT ![r] = @ \cup {v}]
  BY DEF SeenKept
<1>2. phases' = [phases EXCEPT ![r] = PhaseOf(actions'[r].status)]
  BY DEF PhaseKept
<1>3. phases[r] = PhaseOf(actions[r].status) /\ voters[r] = VotesOf(r)
  OBVIOUS
<1>4. phases' = IF /\ phases[r] = "open"
                   /\ Cardinality(voters[r] \cup {v}) >= RequiredVotes(r)
                THEN [phases EXCEPT ![r] = "granted"]
                ELSE phases
  <2> HIDE DEF voters
  <2>1. CASE PhaseOf(actions'[r].status) = PhaseOf(actions[r].status)
    BY <1>2, <1>3, <2>1
  <2> QED
    BY <1>2, <1>3, <2>1
<1>5. /\ [i \in ActionIds |-> actions[i].initiator]' = [i \in ActionIds |-> actions[i].initiator]
      /\ [i \in ActionIds |-> RequiredVotes(i)]' = [i \in ActionIds |-> RequiredVotes(i)]
  BY DEF SeenKept
<1> QED
  BY <1>1, <1>3, <1>4, <1>5, SameCount DEF RunsKept, Gate!Vote, Gate!HasVotes

LEMMA GateOpens ==
    ASSUME NEW r \in ActionIds, NEW e \in Emails, NEW n \in {2, 3}, RunsKept,
           PhaseOf(actions[r].status) = "none", VotesOf(r) = {}, VotesOf(r)' = {},
           PhaseOf(actions'[r].status) = "open",
           actions'[r].initiator = e, RequiredVotes(r)' = n,
           \A i \in ActionIds \ {r} : SeenKept(i) /\ VotesOf(i)' = VotesOf(i) /\ PhaseKept(i)
    PROVE  Gate!Open(r, e, n)
<1>1. [i \in ActionIds |-> PhaseOf(actions[i].status)]'
        = [[i \in ActionIds |-> PhaseOf(actions[i].status)] EXCEPT ![r] = "open"]
  BY DEF PhaseKept
<1>2. [i \in ActionIds |-> actions[i].initiator]'
        = [[i \in ActionIds |-> actions[i].initiator] EXCEPT ![r] = e]
  BY DEF SeenKept
<1>3. [i \in ActionIds |-> RequiredVotes(i)]'
        = [[i \in ActionIds |-> RequiredVotes(i)] EXCEPT ![r] = n]
  BY DEF SeenKept
<1>4. [i \in ActionIds |-> VotesOf(i)]' = [i \in ActionIds |-> VotesOf(i)]
  OBVIOUS
<1> QED
  BY <1>1, <1>2, <1>3, <1>4 DEF RunsKept, Gate!Open

---------------------------------------------------------------------------
(* The steps of the handlers, by what they do to the rows *)

GateStep == [Gate!GateNext]_(Gate!gateVars)

(* Nothing that the gate sees moves. *)
LEMMA NothingSeen ==
    ASSUME actions' = actions, runs' = runs
    PROVE  GateStep
<1>1. \A i \in ActionIds : SeenKept(i) /\ VotesOf(i)' = VotesOf(i) /\ PhaseKept(i)
  BY DEF SeenKept, PhaseKept, VotesOf, RequiredVotes
<1>2. RunsKept
  BY DEF RunsKept, HasRun
<1> QED
  BY <1>1, <1>2, GateStutters DEF GateStep

(* A row is expired or completed, whatever it had become. *)
LEMMA RowCloses ==
    ASSUME TypedInv, NEW j \in ActionIds, NEW st \in {"completed", "expired"}, Exists(j),
           actions' = WithStatus(j, st), runs' = runs
    PROVE  GateStep
<1>1. \A i \in ActionIds :
         /\ actions'[i].status = IF i = j THEN st ELSE actions[i].status
         /\ actions'[i].command = actions[i].command
         /\ actions'[i].initiator = actions[i].initiator
         /\ actions'[i].approvals = actions[i].approvals
  BY RowFields DEF TypedInv, TypeOK, Status
<1>2. \A i \in ActionIds : SeenKept(i) /\ VotesOf(i)' = VotesOf(i) /\ (i # j => PhaseKept(i))
  BY <1>1 DEF SeenKept, PhaseKept, VotesOf, RequiredVotes
<1>3. RunsKept
  BY DEF RunsKept, HasRun
<1>4. PhaseOf(actions'[j].status) = "closed"
  BY <1>1 DEF PhaseOf
<1>5. PhaseOf(actions[j].status) \in {"open", "granted", "closed"}
  BY DEF PhaseOf, Exists
<1>6. CASE PhaseOf(actions[j].status) = "closed"
  BY <1>2, <1>3, <1>4, <1>6, GateStutters DEF PhaseKept, GateStep
<1>7. CASE PhaseOf(actions[j].status) # "closed"
  <2>1. Gate!Close(j)
    BY <1>2, <1>3, <1>4, <1>5, <1>7, GateCloses
  <2> QED
    BY <2>1 DEF GateStep, Gate!GateNext
<1> QED
  BY <1>6, <1>7

(* A row that has its votes is run. *)
LEMMA RowRuns ==
    ASSUME Store = "json", TypedInv, QuorumInv, OneVotePerRoleAndApprover,
           NEW j \in ActionIds, NEW c \in Channels, Cleared(j),
           actions' = actions, runs' = [runs EXCEPT ![j][c] = @ + 1]
    PROVE  GateStep
<1>1. \A i \in ActionIds : SeenKept(i) /\ VotesOf(i)' = VotesOf(i) /\ PhaseKept(i)
  BY DEF SeenKept, PhaseKept, VotesOf, RequiredVotes
<1>2. runs \in [ActionIds -> [Channels -> Nat]]
  BY DEF TypedInv, TypeOK
<1>3. /\ \A i \in ActionIds, d \in Channels :
            runs'[i][d] = IF i = j /\ d = c THEN runs[j][c] + 1 ELSE runs[i][d]
      /\ runs[j][c] \in Nat
  BY <1>2
<1>4. HasRun' = HasRun \cup {j}
  BY <1>3 DEF HasRun
<1>5. Len(actions[j].approvals) >= RequiredVotes(j)
  BY DEF QuorumInv, NothingRunsWithoutQuorum, HasQuorum
<1>6. Cardinality(VotesOf(j)) >= RequiredVotes(j)
  BY <1>5, VotesCounted
<1>7. Gate!Run(j)
  BY <1>1, <1>4, <1>6, GateRuns
<1> QED
  BY <1>7 DEF GateStep, Gate!GateNext

(* A vote is cast, which may be the last one needed. *)
LEMMA RowVoted ==
    ASSUME Store = "json", TypedInv, OneVotePerRoleAndApprover, NEW j \in ActionIds,
           NEW s \in Sessions, Exists(j), ~HasVoted(j, s), s.email # actions[j].initiator,
           actions' = [WithVote(j, s) EXCEPT ![j].status = StatusAfterVote(j)], runs' = runs
    PROVE  GateStep
<1>0. /\ actions \in [ActionIds -> Action]
      /\ actions[j] \in Action
      /\ actions[j].approvals \in Seq(Sessions)
  BY DEF TypedInv, TypeOK, Action
<1>1. StatusAfterVote(j) \in Status
  BY <1>0 DEF StatusAfterVote, Status, Action
<1>2. \A i \in ActionIds :
         /\ actions'[i].status = IF i = j THEN StatusAfterVote(j) ELSE actions[i].status
         /\ actions'[i].command = actions[i].command
         /\ actions'[i].initiator = actions[i].initiator
         /\ actions'[i].approvals =
               IF i = j THEN Append(actions[j].approvals, s) ELSE actions[i].approvals
  BY <1>0, <1>1, VoteFields
<1>3. \A i \in ActionIds : SeenKept(i) /\ (i # j => VotesOf(i)' = VotesOf(i) /\ PhaseKept(i))
  BY <1>2 DEF SeenKept, PhaseKept, VotesOf, RequiredVotes
<1>4. RunsKept
  BY DEF RunsKept, HasRun
<1>5. VotesOf(j)' = VotesOf(j) \cup {s}
  <2> DEFINE grown == Append(actions[j].approvals, s)
  <2>0. actions'[j].approvals = grown
    BY <1>2
  <2>1. VotesOf(j)' = {grown[k] : k \in DOMAIN grown}
    BY <2>0, Zenon DEF VotesOf
  <2>2. {grown[k] : k \in DOMAIN grown} = VotesOf(j) \cup {s}
    BY <1>0, VoteAppended DEF VotesOf
  <2> QED
    BY <2>1, <2>2
<1>6. \A w \in VotesOf(j) : w.role # s.role /\ w.email # s.email
  BY DEF VotesOf, HasVoted
<1>7. Cardinality(VotesOf(j) \cup {s}) = Len(actions[j].approvals) + 1
  <2>1. s \notin VotesOf(j)
    BY <1>6
  <2> QED
    BY <2>1, VotesCounted, FS_AddElement
<1>8. /\ PhaseOf(actions[j].status) # "none"
      /\ PhaseOf(actions'[j].status) =
            IF /\ PhaseOf(actions[j].status) = "open"
               /\ Cardinality(VotesOf(j) \cup {s}) >= RequiredVotes(j)
            THEN "granted" ELSE PhaseOf(actions[j].status)
  BY <1>0, <1>2, <1>7 DEF PhaseOf, StatusAfterVote, QuorumMet, Exists, Action, Status
<1>9. Gate!Vote(j, s)
  BY <1>3, <1>4, <1>5, <1>6, <1>8, GateVotes
<1> QED
  BY <1>9 DEF GateStep, Gate!GateNext

(* A row is created. *)
LEMMA RowOpens ==
    ASSUME TypedInv, QuorumInv, NEW h \in Handlers, ExecuteCreate(h)
    PROVE  GateStep
<1>0. /\ actions \in [ActionIds -> Action]
      /\ created \in Nat
      /\ handlers[h].command \in Commands
      /\ handlers[h].session.email \in Emails
  BY BoundAssumption, SessionAssumption DEF TypedInv, TypeOK, Handler
<1>1. PICK j \in ActionIds : j = created + 1 /\ j > created
  BY <1>0, BoundAssumption DEF ExecuteCreate, ActionIds
<1>2. /\ actions'[j] = NewAction(handlers[h].command, handlers[h].session.email)
      /\ \A i \in ActionIds \ {j} : actions'[i] = actions[i]
      /\ runs' = runs
  BY <1>0, <1>1 DEF ExecuteCreate
<1>3. actions[j].status = "none" /\ actions[j].approvals = <<>>
  BY <1>1 DEF QuorumInv, FreshInv
<1>4. /\ PhaseOf(actions[j].status) = "none"
      /\ VotesOf(j) = {}
  BY <1>3 DEF PhaseOf, VotesOf
<1>5. /\ PhaseOf(actions'[j].status) = "open"
      /\ VotesOf(j)' = {}
      /\ actions'[j].initiator = handlers[h].session.email
      /\ RequiredVotes(j)' \in {2, 3}
  <2>1. /\ actions'[j].status = "pending"
        /\ actions'[j].approvals = <<>>
        /\ actions'[j].initiator = handlers[h].session.email
    BY <1>2 DEF NewAction
  <2>2. PhaseOf(actions'[j].status) = "open"
    BY <2>1 DEF PhaseOf
  <2>3. VotesOf(j)' = {}
    <3>1. actions'[j].approvals = <<>> /\ DOMAIN <<>> = {}
      BY <2>1
    <3> QED
      BY <3>1 DEF VotesOf
  <2>4. RequiredVotes(j)' \in {2, 3}
    BY DEF RequiredVotes
  <2> QED
    BY <2>1, <2>2, <2>3, <2>4
<1>6. \A i \in ActionIds \ {j} : SeenKept(i) /\ VotesOf(i)' = VotesOf(i) /\ PhaseKept(i)
  <2> TAKE i \in ActionIds \ {j}
  <2>2. actions'[i] = actions[i]
    BY <1>2
  <2> QED
    BY <2>2 DEF SeenKept, PhaseKept, VotesOf, RequiredVotes
<1>7. RunsKept
  BY <1>2 DEF RunsKept, HasRun
<1>8. PICK e \in Emails, n \in {2, 3} : actions'[j].initiator = e /\ RequiredVotes(j)' = n
  BY <1>0, <1>5
<1>9. Gate!Open(j, e, n)
  BY <1>1, <1>4, <1>5, <1>6, <1>7, <1>8, GateOpens
<1> QED
  BY <1>1, <1>9 DEF GateStep, Gate!GateNext

---------------------------------------------------------------------------
(* The refinement *)

LEMMA JsonGateStep ==
    ASSUME Store = "json", TypedInv, QuorumInv, OneVotePerRoleAndApprover, VotersEligible,
           [Next]_vars
    PROVE  GateStep
<1>0. /\ actions \in [ActionIds -> Action]
      /\ \A h \in Handlers : /\ handlers[h].session \in Sessions
                             /\ handlers[h].pc \in Pointing => handlers[h].id \in ActionIds
                             /\ handlers[h].id \in 0..MaxActions
                             /\ handlers[h].pc \notin PostgresPoints
  BY DEF TypedInv, TypeOK, Handler, HandlersPoint, QuorumInv, QuorumSeen
<1>1. ASSUME NEW h \in Handlers, Execute(h)
      PROVE  GateStep
  <2>1. CASE ExecuteComplete(h)
    BY <1>0, <2>1, NothingSeen, RowCloses DEF ExecuteComplete, Consumed, Pointing
  <2>2. CASE ExecuteCreate(h)
    BY <2>2, RowOpens
  <2>3. CASE ExecuteRun(h)
    <3>1. CASE handlers[h].id = 0
      BY <2>3, <3>1, NothingSeen DEF ExecuteRun
    <3>2. CASE handlers[h].id # 0
      <4>1. PICK j \in ActionIds : j = handlers[h].id
        BY <1>0, <3>2, BoundAssumption DEF ActionIds
      <4>2. Cleared(j)
        BY <2>3, <4>1 DEF ExecuteRun, Cleared
      <4>3. actions' = actions /\ runs' = [runs EXCEPT ![j]["console"] = @ + 1]
        BY <2>3, <3>2, <4>1 DEF ExecuteRun
      <4> QED
        BY <4>2, <4>3, RowRuns DEF Channels
    <3> QED
      BY <3>1, <3>2
  <2>4. CASE ~ExecuteComplete(h) /\ ~ExecuteCreate(h) /\ ~ExecuteRun(h)
    BY <1>1, <2>4, NothingSeen
    DEF Execute, ExecuteRead, ExecuteLocked, ExecuteQueue, ExecuteRefused
  <2> QED
    BY <2>1, <2>2, <2>3, <2>4
<1>2. ASSUME NEW h \in Handlers, Approve(h)
      PROVE  GateStep
  <2>1. CASE VoteJson(h)
    <3>1. PICK j \in ActionIds : j = handlers[h].id
      BY <1>0, <2>1 DEF VoteJson, Pointing
    <3>2. handlers[h].session.email # actions[j].initiator
      BY <2>1, <3>1 DEF VoteJson, VotersEligible
    <3>3. CASE Exists(j) /\ ~HasVoted(j, handlers[h].session)
      <4>1. /\ actions' = [WithVote(j, handlers[h].session) EXCEPT ![j].status = StatusAfterVote(j)]
            /\ runs' = runs
        BY <2>1, <3>1, <3>3 DEF VoteJson
      <4> QED
        BY <1>0, <3>2, <3>3, <4>1, RowVoted
    <3>4. CASE ~(Exists(j) /\ ~HasVoted(j, handlers[h].session))
      BY <2>1, <3>1, <3>4, NothingSeen DEF VoteJson
    <3> QED
      BY <3>3, <3>4
  <2>2. ~VoteInsert(h) /\ ~VoteMark(h)
    BY <1>0 DEF VoteInsert, VoteMark, PostgresPoints
  <2>3. CASE ~VoteJson(h)
    BY <1>2, <2>2, <2>3, NothingSeen DEF Approve, ApproveRead, VoteFind, VoteReread
  <2> QED
    BY <2>1, <2>3
<1>3. ASSUME NEW h \in Handlers, Legacy(h)
      PROVE  GateStep
  <2>1. ~LegacyExpire(h) /\ ~LegacyInsert(h) /\ ~LegacyMark(h) /\ ~LegacyRun(h)
    BY <1>0 DEF LegacyExpire, LegacyInsert, LegacyMark, LegacyRun, PostgresPoints
  <2> QED
    BY <1>3, <2>1, NothingSeen DEF Legacy, LegacyRead, LegacyCount
<1>4. ASSUME NEW j \in ActionIds, RunJob(j) \/ Override(j) \/ SweepExpire(j)
      PROVE  GateStep
  <2>1. CASE RunJob(j)
    <3>1. Cleared(j)
      BY <2>1 DEF RunJob, Cleared
    <3>2. actions' = actions /\ runs' = [runs EXCEPT ![j]["background"] = @ + 1]
      BY <2>1 DEF RunJob
    <3> QED
      BY <3>1, <3>2, RowRuns DEF Channels
  <2>2. CASE Override(j)
    <3>1. \A i \in ActionIds : /\ actions'[i].status = actions[i].status
                               /\ actions'[i].command = actions[i].command
                               /\ actions'[i].initiator = actions[i].initiator
                               /\ actions'[i].approvals = actions[i].approvals
      BY <1>0, <2>2 DEF Override, WithOverride, Action
    <3>2. \A i \in ActionIds : SeenKept(i) /\ VotesOf(i)' = VotesOf(i) /\ PhaseKept(i)
      BY <3>1 DEF SeenKept, PhaseKept, VotesOf, RequiredVotes
    <3>3. RunsKept
      BY <2>2 DEF Override, WithOverride, RunsKept, HasRun
    <3> QED
      BY <3>2, <3>3, GateStutters DEF GateStep
  <2>3. CASE SweepExpire(j)
    BY <2>3, NothingSeen, RowCloses DEF SweepExpire
  <2> QED
    BY <1>4, <2>1, <2>2, <2>3
<1>5. CASE Environment
  <2>1. CASE Reset
    <3>1. \A i \in ActionIds : /\ actions'[i].status = "none"
                               /\ actions'[i].command = actions[i].command
                               /\ actions'[i].initiator = actions[i].initiator
                               /\ actions'[i].approvals = actions[i].approvals
      BY <1>0, <2>1 DEF Reset, Action
    <3>2. \A i \in ActionIds : /\ SeenKept(i) /\ VotesOf(i)' = VotesOf(i)
                               /\ PhaseOf(actions'[i].status) = "none"
      BY <3>1 DEF SeenKept, VotesOf, RequiredVotes, PhaseOf
    <3>3. RunsKept
      BY <2>1 DEF Reset, RunsKept, HasRun
    <3>4. Gate!Discard
      BY <3>2, <3>3, GateDiscards
    <3> QED
      BY <3>4 DEF GateStep, Gate!GateNext
  <2>2. CASE ~Reset
    BY <1>5, <2>2, NothingSeen
    DEF Environment, TimeRunsOut, PolicyAllow, PolicyDeny, CooldownElapses, Restart
  <2> QED
    BY <2>1, <2>2
<1>6. CASE SweepRead \/ (\E h \in Handlers : StoreFails(h)) \/ UNCHANGED vars
  BY <1>6, NothingSeen DEF SweepRead, StoreFails, vars
<1> QED
  BY <1>1, <1>2, <1>3, <1>4, <1>5, <1>6 DEF Next

LEMMA GateStarts == Init => Gate!GateInit
<1> SUFFICES ASSUME Init PROVE Gate!GateInit
  OBVIOUS
<1>1. \A i \in ActionIds : /\ PhaseOf(actions[i].status) = "none"
                           /\ VotesOf(i) = {}
                           /\ actions[i].initiator \in Emails
                           /\ RequiredVotes(i) \in {2, 3}
                           /\ \A c \in Channels : runs[i][c] = 0
  BY Defaults DEF Init, PhaseOf, VotesOf, RequiredVotes, Action
<1>2. HasRun = {}
  BY <1>1 DEF HasRun
<1> QED
  BY <1>1, <1>2 DEF Gate!GateInit

(* On the file, whatever handlers, snapshots, timers, the expiry worker, resets
   and restarts do, they do no more than the gate promises. *)
THEOREM JsonImplementsGate ==
    ASSUME Store = "json"
    PROVE  Spec => ImplementsQuorumGate
<1>1. TypedInv /\ QuorumInv /\ OneVotePerRoleAndApprover /\ VotersEligible /\ [Next]_vars
      => [Gate!GateNext]_(Gate!gateVars)
  BY JsonGateStep DEF GateStep
<1>2. Spec => []OneVotePerRoleAndApprover
  BY JsonVotesUnique
<1> QED
  BY <1>1, <1>2, GateStarts, VotersInvariant, QuorumInvariant, PTL
  DEF Spec, ImplementsQuorumGate, Gate!GateSpec

=============================================================================
