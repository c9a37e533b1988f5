----------------------------- MODULE Consensus -----------------------------
(***************************************************************************)
(* Multi-role consensus over suspended sandbox commands: the handlers of   *)
(* apps/secure-gateway/src/index.ts that queue, vote on, override, run and *)
(* reset pending actions, the expiry worker of cron-worker.ts and the      *)
(* store operations of packages/database/src/index.ts they call.           *)
(*                                                                         *)
(* A handler runs without interruption between two awaits; every await on  *)
(* the store is a step of its own, so what a handler read may be stale     *)
(* when it writes.  Store = "json" is the flat file, whose operations are  *)
(* atomic under the file lock; Store = "postgres" is the Prisma store,     *)
(* whose addConsensusApproval is four statements with no transaction and   *)
(* no unique index, and the only one the legacy /api/consensus/approve     *)
(* route accepts.                                                          *)
(*                                                                         *)
(* Left to other parts of the system: the command log, the latency window  *)
(* and the drift scan a console run feeds, and the WebSocket broadcasts.   *)
(***************************************************************************)
EXTENDS Naturals, Sequences, FiniteSets

CONSTANTS
    Commands,        \* command lines a console user may submit
    Gated,           \* those every role must queue: a consensus pattern or a seccomp block
    Dangerous,       \* those rated dangerous, or blocked by the seccomp audit
    Allowlisted,     \* those isCommandLineSecure accepts
    Wasi,            \* those routed to the WASI runner
    Emails,          \* identities
    Sessions,        \* authenticated (email, role) pairs
    Handlers,        \* requests in flight at the same time
    MaxActions,      \* bound: pending actions ever created
    ViolationLimit,  \* consecutive violations that trip the breaker (3 in the code)
    MaxRestarts,     \* bound: gateway restarts
    Store            \* "json" or "postgres"

Roles == {"admin", "developer", "auditor"}

ASSUME CommandAssumption ==
    /\ Commands # {}
    /\ Gated \subseteq Commands
    /\ Dangerous \subseteq Commands
    /\ Allowlisted \subseteq Commands
    /\ Wasi \subseteq Commands

ASSUME SessionAssumption ==
    /\ Sessions # {}
    /\ Sessions \subseteq [email : Emails, role : Roles]

ASSUME BoundAssumption ==
    /\ MaxActions \in Nat \ {0}
    /\ ViolationLimit \in Nat \ {0}
    /\ MaxRestarts \in Nat

ASSUME StoreAssumption == Store \in {"json", "postgres"}

VARIABLES
    actions,    \* the PendingAction table with its approvals, by creation order
    created,    \* how many actions have been created
    overdue,    \* actions whose expiresAt has passed
    handlers,   \* the in-flight request handlers and their local variables
    due,        \* what the expiry worker still has to expire of its snapshot
    jobs,       \* background executions scheduled and not yet started
    runs,       \* history: executions of each action, by the route that ran it
    breaker,    \* the in-memory circuit breaker
    restarts

vars == <<actions, created, overdue, handlers, due, jobs, runs, breaker, restarts>>

---------------------------------------------------------------------------
(* Types *)

ActionIds == 1..MaxActions

\* "none" is a row that does not exist: not created yet, or cleared by a reset.
\* The status 'rejected' of the schema is never assigned.
Status == {"none", "pending", "approved", "expired", "completed"}

Action == [status     : Status,
           command    : Commands,
           initiator  : Emails,
           overridden : BOOLEAN,
           approvals  : Seq(Sessions)]

Points == {"idle", "complete", "gate", "create",
           "vote", "insert", "reread", "mark",
           "legacyExpire", "legacyInsert", "legacyCount", "legacyMark", "legacyRun"}

Handler == [pc      : Points,
            session : Sessions,
            command : Commands,
            id      : 0..MaxActions,   \* the action it acts on, 0 for none
            queued  : BOOLEAN]         \* its snapshot held a pending action for the command

Channels == {"background", "console", "legacy"}

Breaker == [violations : 0..ViolationLimit, tripped : BOOLEAN, cooled : BOOLEAN]

TypeOK ==
    /\ actions \in [ActionIds -> Action]
    /\ created \in 0..MaxActions
    /\ overdue \subseteq ActionIds
    /\ handlers \in [Handlers -> Handler]
    /\ due \subseteq ActionIds
    /\ jobs \in [ActionIds -> Nat]
    /\ runs \in [ActionIds -> [Channels -> Nat]]
    /\ breaker \in Breaker
    /\ restarts \in 0..MaxRestarts

---------------------------------------------------------------------------
(* Helpers *)

AnySession == CHOOSE s \in Sessions : TRUE
AnyCommand == CHOOSE c \in Commands : TRUE

Idle == [pc |-> "idle", session |-> AnySession, command |-> AnyCommand,
         id |-> 0, queued |-> FALSE]

NewAction(c, e) == [status |-> "pending", command |-> c, initiator |-> e,
                    overridden |-> FALSE, approvals |-> <<>>]

NoRow == [status |-> "none", command |-> AnyCommand, initiator |-> AnySession.email,
          overridden |-> FALSE, approvals |-> <<>>]

Exists(i) == actions[i].status # "none"

RequiredVotes(i) == IF actions[i].command \in Dangerous THEN 3 ELSE 2

NeedsConsensus(c, role) == role = "developer" \/ c \in Gated

QuorumMet(i, votes) == votes >= RequiredVotes(i)

\* Mutant of LegacyQuorumMet: the initiator counts twice.
LegacyQuorumMetEarly(i, votes) == votes + 2 >= RequiredVotes(i)

\* The legacy route counts the initiator as a signature.
LegacyQuorumMet(i, votes) == votes + 1 >= RequiredVotes(i)

\* Mutant of HasVoted: only the approver is compared.
HasVotedInPerson(i, s) ==
    \E k \in DOMAIN actions[i].approvals : actions[i].approvals[k].email = s.email

\* One vote per role and per approver.
HasVoted(i, s) ==
    \E k \in DOMAIN actions[i].approvals :
        \/ actions[i].approvals[k].role = s.role
        \/ actions[i].approvals[k].email = s.email

\* Mutant of MayVote: the initiator may.
AnyoneMayVote(i, s) == ~HasVoted(i, s)

\* Who may vote: not the initiator, and nobody twice.
MayVote(i, s) == actions[i].initiator # s.email /\ ~HasVoted(i, s)

\* Mutant of Blocked: the rating is advisory only.
NeverBlocked(i) == FALSE

\* The AI auditor's block holds until an administrator lifts it.
Blocked(i) == actions[i].command \in Dangerous /\ ~actions[i].overridden

WithStatus(i, st) == [actions EXCEPT ![i].status = st]

WithOverride(i) == [actions EXCEPT ![i].overridden = TRUE]

WithVote(i, s) == [actions EXCEPT ![i].approvals = Append(@, s)]

\* i is what find() returns over the rows of command c in status st, newest
\* first; 0 when there is none.
IsNewest(i, c, st) ==
    LET Match(j) == actions[j].command = c /\ actions[j].status = st
    IN  /\ i # 0 => Match(i)
        /\ \A j \in ActionIds : Match(j) => j <= i

Goto(h, pc) == handlers' = [handlers EXCEPT ![h].pc = pc]
Return(h) == handlers' = [handlers EXCEPT ![h] = Idle]

\* Handler h starts at pc, having read row i for session s.
Start(h, pc, s, i) ==
    handlers' = [handlers EXCEPT ![h] =
                    [pc |-> pc, session |-> s, command |-> AnyCommand,
                     id |-> i, queued |-> FALSE]]

\* The breaker as it starts and as a reset leaves it.
Closed == [violations |-> 0, tripped |-> FALSE, cooled |-> FALSE]

Locked == breaker.tripped /\ ~breaker.cooled

\* checkCircuitBreaker: an elapsed cooldown is noticed by the next check.
Checked == IF breaker.tripped /\ breaker.cooled THEN Closed ELSE breaker

\* handleViolation; the count saturates at the limit, the only value tested.
Violation(b) ==
    IF b.violations + 1 >= ViolationLimit
    THEN [violations |-> ViolationLimit, tripped |-> TRUE, cooled |-> FALSE]
    ELSE [b EXCEPT !.violations = @ + 1]

---------------------------------------------------------------------------
Init ==
    /\ actions = [i \in ActionIds |-> NoRow]
    /\ created = 0
    /\ overdue = {}
    /\ handlers = [h \in Handlers |-> Idle]
    /\ due = {}
    /\ jobs = [i \in ActionIds |-> 0]
    /\ runs = [i \in ActionIds |-> [c \in Channels |-> 0]]
    /\ breaker = Closed
    /\ restarts = 0

---------------------------------------------------------------------------
(* POST /api/sandbox/execute *)

\* The snapshot: an approved action for the command to consume, and whether
\* one is pending.
ExecuteRead(h, s, c) ==
    /\ handlers[h].pc = "idle"
    /\ s.role \in {"admin", "developer"}
    /\ \E a, p \in 0..MaxActions :
          /\ IsNewest(a, c, "approved")
          /\ IsNewest(p, c, "pending")
          /\ handlers' = [handlers EXCEPT ![h] =
                [pc |-> IF a = 0 THEN "gate" ELSE "complete",
                 session |-> s, command |-> c, id |-> a, queued |-> p # 0]]
    /\ UNCHANGED <<actions, created, overdue, due, jobs, runs, breaker, restarts>>

\* Mutant of Consumed: the approval is left standing.
NotConsumed(i) == actions

\* completeAction: whatever the row has become since it was read as approved.
Consumed(i) == WithStatus(i, "completed")

\* A row that is gone is a no-op in the file and an error in Postgres.
ExecuteComplete(h) ==
    LET i == handlers[h].id IN
    /\ handlers[h].pc = "complete"
    /\ IF Exists(i)
       THEN actions' = Consumed(i) /\ Goto(h, "gate")
       ELSE /\ UNCHANGED actions
            /\ IF Store = "json" THEN Goto(h, "gate") ELSE Return(h)
    /\ UNCHANGED <<created, overdue, due, jobs, runs, breaker, restarts>>

MustQueue(h) ==
    /\ handlers[h].id = 0
    /\ NeedsConsensus(handlers[h].command, handlers[h].session.role)

\* Circuit breaker still locked: 429, also when the approval is already spent.
ExecuteLocked(h) ==
    /\ handlers[h].pc = "gate"
    /\ Locked
    /\ Return(h)
    /\ UNCHANGED <<actions, created, overdue, due, jobs, runs, breaker, restarts>>

\* The command must wait for votes: point at the action already pending in the
\* snapshot, or go on to create one.
ExecuteQueue(h) ==
    /\ handlers[h].pc = "gate"
    /\ ~Locked
    /\ MustQueue(h)
    /\ breaker' = Checked
    /\ IF handlers[h].queued THEN Return(h) ELSE Goto(h, "create")
    /\ UNCHANGED <<actions, created, overdue, due, jobs, runs, restarts>>

\* createPendingAction
ExecuteCreate(h) ==
    /\ handlers[h].pc = "create"
    /\ created < MaxActions
    /\ created' = created + 1
    /\ actions' = [actions EXCEPT ![created + 1] =
                      NewAction(handlers[h].command, handlers[h].session.email)]
    /\ Return(h)
    /\ UNCHANGED <<overdue, due, jobs, runs, breaker, restarts>>

\* A WASI command runs before the allowlist is consulted, any other after.
ExecuteRun(h) ==
    /\ handlers[h].pc = "gate"
    /\ ~Locked
    /\ ~MustQueue(h)
    /\ handlers[h].command \in Wasi \cup Allowlisted
    /\ breaker' = Checked
    /\ runs' = IF handlers[h].id = 0
               THEN runs
               ELSE [runs EXCEPT ![handlers[h].id]["console"] = @ + 1]
    /\ Return(h)
    /\ UNCHANGED <<actions, created, overdue, due, jobs, restarts>>

\* The allowlist refuses the command, approved or not: a violation.
ExecuteRefused(h) ==
    /\ handlers[h].pc = "gate"
    /\ ~Locked
    /\ ~MustQueue(h)
    /\ handlers[h].command \notin Wasi \cup Allowlisted
    /\ breaker' = Violation(Checked)
    /\ Return(h)
    /\ UNCHANGED <<actions, created, overdue, due, jobs, runs, restarts>>

---------------------------------------------------------------------------
(* POST /api/consensus/requests/approve *)

\* canPersistApproval, computed on a snapshot; every other case answers an
\* error without effect.
ApproveRead(h, s, i) ==
    /\ handlers[h].pc = "idle"
    /\ actions[i].status = "pending"
    /\ MayVote(i, s)
    /\ ~Blocked(i)
    /\ Start(h, "vote", s, i)
    /\ UNCHANGED <<actions, created, overdue, due, jobs, runs, breaker, restarts>>

\* What the handler does with the row addConsensusApproval returns: a row that
\* is approved, by this vote or an earlier one, is run in the background if the
\* command passes the allowlist.
Schedule(i, status) ==
    jobs' = IF status = "approved" /\ actions[i].command \in Allowlisted
            THEN [jobs EXCEPT ![i] = @ + 1]
            ELSE jobs

\* Mutant of StatusAfterVote: the status is not tested.
StatusAfterAnyVote(i) ==
    IF QuorumMet(i, Len(actions[i].approvals) + 1) THEN "approved" ELSE actions[i].status

\* The vote that completes the quorum approves a pending action.
StatusAfterVote(i) ==
    IF QuorumMet(i, Len(actions[i].approvals) + 1) /\ actions[i].status = "pending"
    THEN "approved"
    ELSE actions[i].status

\* addConsensusApproval on the JSON file: one atomic step under the lock.
VoteJson(h) ==
    LET i == handlers[h].id
        s == handlers[h].session
        status == StatusAfterVote(i)
    IN
    /\ Store = "json"
    /\ handlers[h].pc = "vote"
    /\ IF Exists(i) /\ ~HasVoted(i, s)
       THEN /\ actions' = [WithVote(i, s) EXCEPT ![i].status = status]
            /\ Schedule(i, status)
       ELSE UNCHANGED <<actions, jobs>>
    /\ Return(h)
    /\ UNCHANGED <<created, overdue, due, runs, breaker, restarts>>

\* addConsensusApproval on Postgres: look, insert, look again, mark.
VoteFind(h) ==
    /\ Store = "postgres"
    /\ handlers[h].pc = "vote"
    /\ IF Exists(handlers[h].id) /\ ~HasVoted(handlers[h].id, handlers[h].session)
       THEN Goto(h, "insert")
       ELSE Return(h)
    /\ UNCHANGED <<actions, created, overdue, due, jobs, runs, breaker, restarts>>

\* The foreign key refuses an approval of a deleted row.
VoteInsert(h) ==
    LET i == handlers[h].id IN
    /\ handlers[h].pc = "insert"
    /\ IF Exists(i)
       THEN actions' = WithVote(i, handlers[h].session) /\ Goto(h, "reread")
       ELSE UNCHANGED actions /\ Return(h)
    /\ UNCHANGED <<created, overdue, due, jobs, runs, breaker, restarts>>

VoteReread(h) ==
    LET i == handlers[h].id IN
    /\ handlers[h].pc = "reread"
    /\ IF /\ actions[i].status = "pending"
          /\ QuorumMet(i, Len(actions[i].approvals))
       THEN Goto(h, "mark") /\ UNCHANGED jobs
       ELSE Return(h) /\ Schedule(i, actions[i].status)
    /\ UNCHANGED <<actions, created, overdue, due, runs, breaker, restarts>>

\* The update does not repeat the test of the status.
VoteMark(h) ==
    LET i == handlers[h].id IN
    /\ handlers[h].pc = "mark"
    /\ IF Exists(i)
       THEN actions' = WithStatus(i, "approved") /\ Schedule(i, "approved")
       ELSE UNCHANGED <<actions, jobs>>
    /\ Return(h)
    /\ UNCHANGED <<created, overdue, due, runs, breaker, restarts>>

\* Mutant of RunJob: a timer that was never set fires.
RunUnscheduledJob(i) ==
    /\ jobs' = [jobs EXCEPT ![i] = @ - 1]
    /\ runs' = [runs EXCEPT ![i]["background"] = @ + 1]
    /\ UNCHANGED <<actions, created, overdue, handlers, due, breaker, restarts>>

\* The timer of a scheduled execution fires.  It looks at nothing again.
RunJob(i) ==
    /\ jobs[i] > 0
    /\ jobs' = [jobs EXCEPT ![i] = @ - 1]
    /\ runs' = [runs EXCEPT ![i]["background"] = @ + 1]
    /\ UNCHANGED <<actions, created, overdue, handlers, due, breaker, restarts>>

\* POST /api/consensus/requests/:actionId/override
Override(i) ==
    /\ \E s \in Sessions : s.role = "admin"
    /\ Exists(i)
    /\ actions' = WithOverride(i)
    /\ UNCHANGED <<created, overdue, handlers, due, jobs, runs, breaker, restarts>>

---------------------------------------------------------------------------
(* POST /api/consensus/approve, which only Postgres deployments serve *)

LegacyRead(h, s, i) ==
    /\ Store = "postgres"
    /\ handlers[h].pc = "idle"
    /\ actions[i].status = "pending"
    /\ IF i \in overdue
       THEN Start(h, "legacyExpire", s, i)
       ELSE MayVote(i, s) /\ Start(h, "legacyInsert", s, i)
    /\ UNCHANGED <<actions, created, overdue, due, jobs, runs, breaker, restarts>>

LegacyExpire(h) ==
    LET i == handlers[h].id IN
    /\ handlers[h].pc = "legacyExpire"
    /\ actions' = IF Exists(i) THEN WithStatus(i, "expired") ELSE actions
    /\ Return(h)
    /\ UNCHANGED <<created, overdue, due, jobs, runs, breaker, restarts>>

LegacyInsert(h) ==
    LET i == handlers[h].id IN
    /\ handlers[h].pc = "legacyInsert"
    /\ IF Exists(i)
       THEN actions' = WithVote(i, handlers[h].session) /\ Goto(h, "legacyCount")
       ELSE UNCHANGED actions /\ Return(h)
    /\ UNCHANGED <<created, overdue, due, jobs, runs, breaker, restarts>>

\* A cleared row has no approvals left to count.
LegacyCount(h) ==
    LET i == handlers[h].id IN
    /\ handlers[h].pc = "legacyCount"
    /\ IF Exists(i) /\ LegacyQuorumMet(i, Len(actions[i].approvals))
       THEN Goto(h, "legacyMark")
       ELSE Return(h)
    /\ UNCHANGED <<actions, created, overdue, due, jobs, runs, breaker, restarts>>

LegacyMark(h) ==
    LET i == handlers[h].id IN
    /\ handlers[h].pc = "legacyMark"
    /\ IF Exists(i)
       THEN actions' = WithStatus(i, "approved") /\ Goto(h, "legacyRun")
       ELSE UNCHANGED actions /\ Return(h)
    /\ UNCHANGED <<created, overdue, due, jobs, runs, breaker, restarts>>

\* The command runs in the same request; the row stays approved.
LegacyRun(h) ==
    /\ handlers[h].pc = "legacyRun"
    /\ runs' = [runs EXCEPT ![handlers[h].id]["legacy"] = @ + 1]
    /\ Return(h)
    /\ UNCHANGED <<actions, created, overdue, due, jobs, breaker, restarts>>

---------------------------------------------------------------------------
(* The expiry worker of cron-worker.ts *)

\* Mutant of Expirable: an action with votes is left to its voters.
ExpirableUnvoted ==
    {i \in overdue : actions[i].status = "pending" /\ actions[i].approvals = <<>>}

Expirable == {i \in overdue : actions[i].status = "pending"}

SweepRead ==
    /\ due = {}
    /\ due' = Expirable
    /\ UNCHANGED <<actions, created, overdue, handlers, jobs, runs, breaker, restarts>>

\* expirePendingAction, newest first, whatever the row has become.  A row that
\* is gone ends the sweep in Postgres, where the update throws.
SweepExpire(i) ==
    /\ i \in due
    /\ \A j \in due : j <= i
    /\ IF Exists(i)
       THEN actions' = WithStatus(i, "expired") /\ due' = due \ {i}
       ELSE UNCHANGED actions /\ due' = IF Store = "json" THEN due \ {i} ELSE {}
    /\ UNCHANGED <<created, overdue, handlers, jobs, runs, breaker, restarts>>

---------------------------------------------------------------------------
(* The environment *)

\* Every action lives 900 s, so they run out in creation order; it matters
\* only to rows still pending.
TimeRunsOut(i) ==
    /\ actions[i].status = "pending"
    /\ i \notin overdue
    /\ \A j \in 1..(i - 1) : actions[j].status = "pending" => j \in overdue
    /\ overdue' = overdue \cup {i}
    /\ UNCHANGED <<actions, created, handlers, due, jobs, runs, breaker, restarts>>

\* evaluateCedarPolicy, for traffic outside this module.
PolicyAllow ==
    /\ breaker' = [breaker EXCEPT !.violations = 0]
    /\ UNCHANGED <<actions, created, overdue, handlers, due, jobs, runs, restarts>>

PolicyDeny ==
    /\ breaker' = Violation(breaker)
    /\ UNCHANGED <<actions, created, overdue, handlers, due, jobs, runs, restarts>>

CooldownElapses ==
    /\ Locked
    /\ breaker' = [breaker EXCEPT !.cooled = TRUE]
    /\ UNCHANGED <<actions, created, overdue, handlers, due, jobs, runs, restarts>>

\* POST /api/reset: the rows go, the requests and timers in flight stay.  On
\* Postgres clearDatabase then throws, because it goes on to the JSON files a
\* Postgres deployment refuses, and the handler never gets to the breaker.
Reset ==
    /\ \E s \in Sessions : s.role = "admin"
    /\ actions' = [i \in ActionIds |-> [actions[i] EXCEPT !.status = "none"]]
    /\ breaker' = IF Store = "json" THEN Closed ELSE breaker
    /\ UNCHANGED <<created, overdue, handlers, due, jobs, runs, restarts>>

\* A store operation throws: the handler answers 500 (the JSON fallback of the
\* Postgres store is refused in production).
StoreFails(h) ==
    /\ handlers[h].pc \notin {"idle", "gate", "legacyRun"}
    /\ Return(h)
    /\ UNCHANGED <<actions, created, overdue, due, jobs, runs, breaker, restarts>>

\* The process dies and comes back: only the store survives.
Restart ==
    /\ restarts < MaxRestarts
    /\ restarts' = restarts + 1
    /\ handlers' = [h \in Handlers |-> Idle]
    /\ due' = {}
    /\ jobs' = [i \in ActionIds |-> 0]
    /\ breaker' = Closed
    /\ UNCHANGED <<actions, created, overdue, runs>>

---------------------------------------------------------------------------
Execute(h) ==
    \/ \E s \in Sessions, c \in Commands : ExecuteRead(h, s, c)
    \/ ExecuteComplete(h)
    \/ ExecuteLocked(h)
    \/ ExecuteQueue(h)
    \/ ExecuteCreate(h)
    \/ ExecuteRun(h)
    \/ ExecuteRefused(h)

Approve(h) ==
    \/ \E s \in Sessions, i \in ActionIds : ApproveRead(h, s, i)
    \/ VoteJson(h)
    \/ VoteFind(h)
    \/ VoteInsert(h)
    \/ VoteReread(h)
    \/ VoteMark(h)

Legacy(h) ==
    \/ \E s \in Sessions, i \in ActionIds : LegacyRead(h, s, i)
    \/ LegacyExpire(h)
    \/ LegacyInsert(h)
    \/ LegacyCount(h)
    \/ LegacyMark(h)
    \/ LegacyRun(h)

Environment ==
    \/ \E i \in ActionIds : TimeRunsOut(i)
    \/ PolicyAllow
    \/ PolicyDeny
    \/ CooldownElapses
    \/ Reset
    \/ Restart

Next ==
    \/ \E h \in Handlers : Execute(h) \/ Approve(h) \/ Legacy(h) \/ StoreFails(h)
    \/ \E i \in ActionIds : RunJob(i) \/ Override(i) \/ SweepExpire(i)
    \/ SweepRead
    \/ Environment

Spec == Init /\ [][Next]_vars

\* Time passes and the 10 s timer of the expiry worker keeps firing; nothing
\* makes a user act, nor a request finish.
Fairness ==
    /\ WF_vars(SweepRead)
    /\ \A i \in ActionIds : WF_vars(SweepExpire(i)) /\ WF_vars(TimeRunsOut(i))

FairSpec == Spec /\ Fairness

---------------------------------------------------------------------------
(* Properties *)

\* The votes that stand behind an approval: in Postgres the legacy route may
\* have given it, with one less.
HasQuorum(i) ==
    Len(actions[i].approvals) >= IF Store = "json" THEN RequiredVotes(i)
                                                   ELSE RequiredVotes(i) - 1

\* i is approved, scheduled, has run, or is about to run from the console.
Cleared(i) ==
    \/ actions[i].status \in {"approved", "completed"}
    \/ jobs[i] > 0
    \/ \E c \in Channels : runs[i][c] > 0
    \/ \E h \in Handlers : handlers[h].pc \in {"complete", "gate"} /\ handlers[h].id = i

\* Separation of duties: no vote on an action is ever its initiator's, although
\* the test is made on a snapshot and the vote is written later.
NoSelfAttestation ==
    \A i \in ActionIds : \A k \in DOMAIN actions[i].approvals :
        actions[i].approvals[k].email # actions[i].initiator

\* No two votes on an action share a role or an approver ("one vote per role
\* and per approver", addConsensusApproval).
OneVotePerRoleAndApprover ==
    \A i \in ActionIds : \A j, k \in DOMAIN actions[i].approvals :
        j # k => /\ actions[i].approvals[j].role # actions[i].approvals[k].role
                 /\ actions[i].approvals[j].email # actions[i].approvals[k].email

\* Nothing is approved, scheduled, run or about to be run from the console
\* without the votes it needs, whatever expiries, resets, restarts and racing
\* votes came between the last vote and the run.
NothingRunsWithoutQuorum == \A i \in ActionIds : Cleared(i) => HasQuorum(i)

\* A dangerous command collects votes only after an administrator unlocked it,
\* so none runs that was not unlocked.
DangerousVotesOverridden ==
    \A i \in ActionIds :
        actions[i].command \in Dangerous /\ actions[i].approvals # <<>>
        => actions[i].overridden

\* An approval is spent for good: only requests that were already in flight
\* when it was consumed may still run it from the console.
SpentApprovalStaysSpent ==
    \A i \in ActionIds : runs[i]["console"] <= Cardinality(Handlers)

\* An action becomes approved only while it is pending, and pending only when
\* it is created: nothing brings an expired or completed action back.
ApprovalFollowsPending ==
    [][\A i \in ActionIds :
          actions'[i].status # actions[i].status =>
             /\ actions'[i].status = "approved" => actions[i].status = "pending"
             /\ actions'[i].status = "pending" => i > created]_vars

\* Every queued command is settled: approved, expired, or cleared.
EveryRequestIsSettled ==
    \A i \in ActionIds : actions[i].status = "pending" ~> actions[i].status # "pending"

\* README.md, section 7: "Running the command in the Sandbox Console executes
\* the task in the isolated container and marks the action status as
\* `completed`."
ConsoleRunCompletes ==
    \A i \in ActionIds :
        runs[i]["console"] > 0 => actions[i].status \in {"completed", "none"}

\* index.ts: "Circuit breaker always applies - consensus does not override
\* lockouts".
BreakerAlwaysApplies ==
    [][\A i \in ActionIds : runs'[i] # runs[i] => ~Locked]_vars

\* POST /api/reset: "Reset in-memory SecOps circuit breaker lockout state": when
\* a reset has cleared the rows, the lockout is gone too.
ResetLiftsLockout ==
    [][(\E i \in ActionIds : Exists(i)) /\ (\A i \in ActionIds : ~Exists(i)')
          => ~breaker'.tripped]_vars

\* index.ts: "Consensus approval never skips the command allowlist".
AllowlistAlwaysApplies ==
    \A i \in ActionIds :
        (\E c \in Channels : runs[i][c] > 0) => actions[i].command \in Allowlisted

=============================================================================
