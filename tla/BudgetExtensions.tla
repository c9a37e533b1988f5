-------------------------- MODULE BudgetExtensions --------------------------
(***************************************************************************)
(* Budget extensions: the routes of index.ts that request, approve and     *)
(* reject them, the operations of packages/database/src/index.ts behind    *)
(* them, and the token budget of the IBP tracker they raise.               *)
(*                                                                         *)
(* An approval is two steps, the stored status and, after the await, the   *)
(* tracker's budget.  Approving and rejecting look a request up by its id  *)
(* alone.  The tracker's file is also saved, whole, by the tool server.    *)
(***************************************************************************)
EXTENDS Naturals, FiniteSets

CONSTANTS
    Extensions,     \* ids of extension requests
    Amount,         \* the tokens a request asks for
    FirstBudget,    \* the budget the tracker starts with
    Reviews,        \* approvals in flight
    MaxApprovals    \* bound: approvals ever stored

ASSUME BudgetAssumption ==
    /\ Amount \in Nat \ {0} /\ FirstBudget \in Nat /\ MaxApprovals \in Nat
    /\ IsFiniteSet(Reviews)

VARIABLES
    extensions,  \* the stored requests
    budget,      \* tokenBudget: in the gateway, in the tool server and on disk
    reviews,     \* the request each approval has still to raise the budget for
    approvals,   \* history: approvals stored
    disturbed    \* history: a restart or a save by the tool server happened

budgetVars == <<extensions, budget, reviews, approvals, disturbed>>

Copies == {"gateway", "tools", "disk"}

BudgetTypeOK ==
    /\ extensions \in [Extensions -> {"none", "pending", "approved", "rejected"}]
    /\ budget \in [Copies -> Nat]
    /\ reviews \in [Reviews -> SUBSET Extensions]
    /\ approvals \in 0..MaxApprovals
    /\ disturbed \in BOOLEAN

BudgetInit ==
    /\ extensions = [x \in Extensions |-> "none"]
    /\ budget = [i \in Copies |-> FirstBudget]
    /\ reviews = [r \in Reviews |-> {}]
    /\ approvals = 0
    /\ disturbed = FALSE

\* createBudgetExtensionRequest
Created(x) == [extensions EXCEPT ![x] = "pending"]

\* The request gets a fresh id.
RequestExtension(x) ==
    /\ extensions[x] = "none"
    /\ extensions' = Created(x)
    /\ UNCHANGED <<budget, reviews, approvals, disturbed>>

\* approveBudgetExtensionRequest: any request with the id, whatever its status.
ApproveExtension(r, x) ==
    /\ reviews[r] = {}
    /\ extensions[x] # "none"
    /\ approvals < MaxApprovals
    /\ extensions' = [extensions EXCEPT ![x] = "approved"]
    /\ reviews' = [reviews EXCEPT ![r] = {x}]
    /\ approvals' = approvals + 1
    /\ UNCHANGED <<budget, disturbed>>

\* The rest of the handler: addTokenBudget, and its save.
RaiseBudget(r) ==
    /\ reviews[r] # {}
    /\ budget' = [budget EXCEPT !["gateway"] = @ + Amount,
                                !["disk"] = budget["gateway"] + Amount]
    /\ reviews' = [reviews EXCEPT ![r] = {}]
    /\ UNCHANGED <<extensions, approvals, disturbed>>

\* rejectBudgetExtensionRequest: also by the id alone.
Rejected(x) == [extensions EXCEPT ![x] = "rejected"]

RejectExtension(x) ==
    /\ extensions[x] # "none"
    /\ extensions' = Rejected(x)
    /\ UNCHANGED <<budget, reviews, approvals, disturbed>>

\* The tool server saves its copy of the tracker.
ToolServerSaves ==
    /\ budget' = [budget EXCEPT !["disk"] = budget["tools"]]
    /\ disturbed' = TRUE
    /\ UNCHANGED <<extensions, reviews, approvals>>

\* A process dies, with the approvals it was handling, and loads the file.
BudgetRestart(p) ==
    /\ budget' = [budget EXCEPT ![p] = budget["disk"]]
    /\ reviews' = IF p = "gateway" THEN [r \in Reviews |-> {}] ELSE reviews
    /\ disturbed' = TRUE
    /\ UNCHANGED <<extensions, approvals>>

\* Mutant of ResetExtensions: the budget too goes back to where it was.
ResetBudgetToo ==
    /\ extensions' = [x \in Extensions |-> "none"]
    /\ budget' = [budget EXCEPT !["gateway"] = FirstBudget, !["disk"] = FirstBudget]
    /\ UNCHANGED <<reviews, approvals, disturbed>>

\* POST /api/reset empties the table; clearTasks keeps and saves tokenBudget.
ResetExtensions ==
    /\ extensions' = [x \in Extensions |-> "none"]
    /\ budget' = [budget EXCEPT !["disk"] = budget["gateway"]]
    /\ UNCHANGED <<reviews, approvals, disturbed>>

BudgetNext ==
    \/ \E x \in Extensions : RequestExtension(x) \/ RejectExtension(x)
    \/ \E r \in Reviews, x \in Extensions : ApproveExtension(r, x)
    \/ \E r \in Reviews : RaiseBudget(r)
    \/ ToolServerSaves
    \/ BudgetRestart("gateway") \/ BudgetRestart("tools")
    \/ ResetExtensions

BudgetSpec == BudgetInit /\ [][BudgetNext]_budgetVars

---------------------------------------------------------------------------
(* Properties *)

InFlight == Cardinality({r \in Reviews : reviews[r] # {}})

\* No copy of the budget ever holds more than the stored approvals account for,
\* whatever crashes, restarts and saves of stale copies happen in between; and
\* until one of these happens, none of it is missing either.
BudgetAccounted ==
    /\ \A i \in Copies : budget[i] + Amount * InFlight <= FirstBudget + Amount * approvals
    /\ ~disturbed => budget["gateway"] + Amount * InFlight = FirstBudget + Amount * approvals

\* index.ts, the 404 of the approve route: "Budget extension request not found
\* or not pending".
ApprovedOncePerRequest ==
    [][\A r \in Reviews, x \in Extensions :
          ApproveExtension(r, x) => extensions[x] = "pending"]_budgetVars

\* A stored approval reaches the budget unless the request is cleared first.
ApprovalRaisesBudget ==
    InFlight = 0 => budget["gateway"] >= FirstBudget + Amount * approvals

=============================================================================
