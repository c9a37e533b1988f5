--------------------------- MODULE PolicyVerdicts ---------------------------
(***************************************************************************)
(* One evaluation of one request over one context by each evaluator, under *)
(* the rules of policy.cedar: what the rules come to when taken together.  *)
(***************************************************************************)
EXTENDS CedarPolicy

CONSTANTS Requests, Contexts

ASSUME VerdictAssumption == Requests \subseteq Request /\ Contexts \subseteq Context

VARIABLES request, context,
          verdicts  \* what the TS engine says in either process, what the daemon
                    \* says, "failed" being HTTP 500, and the policy simulator

verdictVars == <<request, context, verdicts>>

Unjudged == [gateway |-> "none", mcp |-> "none", daemon |-> "none", simulator |-> "none"]

VerdictInit ==
    /\ request \in Requests
    /\ context \in Contexts
    /\ verdicts = Unjudged

\* POST /api/policy/simulate, with no draft of its own.
Simulated == EvaluateSimulator(FullPolicy, request, context)

Judge ==
    /\ verdicts = Unjudged
    /\ verdicts' = [gateway |-> EvaluateTS("gateway", FullPolicy, request, context),
                    mcp |-> EvaluateTS("mcp", FullPolicy, request, context),
                    daemon |-> IF DaemonAnswers(context)
                               THEN EvaluateDaemon(FullPolicy, request, context)
                               ELSE "failed",
                    simulator |-> Simulated]
    /\ UNCHANGED <<request, context>>

VerdictSpec == VerdictInit /\ [][Judge]_verdictVars

---------------------------------------------------------------------------
(* Properties *)

LocallyAllowed == "allow" \in {verdicts.gateway, verdicts.mcp}
Allowed == LocallyAllowed \/ verdicts.daemon = "allow"

AllGatesOpen ==
    /\ context.pipeline /\ context.audited /\ context.ham /\ context.synthesized
    /\ context.tests
    /\ context.drift => context.driftVerified
    /\ context.feedback => context.aligned

\* No evaluator lets a principal in quarantine do more than read, and none lets
\* a commit or a publish through while a gate of tiers 5 to 7 is closed,
\* whichever permits match beside: a publish needs its version and changelog too.
GatesHold ==
    Allowed => /\ context.quarantined => request.tool \in Reading
               /\ Releases(request) => AllGatesOpen
               /\ Publishes(request) => context.version /\ context.changelog

\* Files with an owner are written by that owner only, and by nobody when two
\* patterns name different owners: by what the path comes to, where the TS
\* engine decides, and by what was submitted, where the daemon does.
OwnersWrite ==
    Writes(request) =>
        /\ LocallyAllowed =>
               \A x \in request.canonical \cap DOMAIN Owner : request.who = Owner[x]
        /\ verdicts.daemon = "allow" =>
               \A x \in request.path \cap DOMAIN Owner : request.who = Owner[x]

\* For a path submitted in its canonical form, failing over never lets through
\* what the daemon would refuse, and it refuses what the daemon would let
\* through in two cases only: the caller's path does not resolve (the gateway
\* has none to give, or it escapes), or the sub-agent, of which the gateway
\* tells the daemon nothing, is overspent.
FailoverIsStricter ==
    verdicts.daemon \in Decisions /\ request.path = request.canonical =>
        \A at \in Callers : verdicts[at] # verdicts.daemon =>
            /\ verdicts[at] = "deny"
            /\ Unresolved(at, request) \/ context.subagent = "overspent"

\* The simulator, which looks at every rule of its own evaluation, announces
\* what the tool server's engine decides, which stops at a forbid; and what the
\* gateway's decides, if a path was named.
SimulatorForetells ==
    /\ verdicts.simulator = verdicts.mcp
    /\ request.given => verdicts.simulator = verdicts.gateway

\* resolveCedarDecision: the local evaluator stands in for a daemon that does
\* not answer, as if the two decided alike.
EvaluatorsAgree ==
    verdicts.daemon \in Decisions => \A at \in Callers : verdicts[at] = verdicts.daemon

\* normalizeEvalArgs: "so literal path forbids cannot be skipped via `./`, `//`,
\* or `..` segments", whichever evaluator decides.
OwnersOfFilesWrite ==
    Allowed /\ Writes(request) =>
        \A x \in request.canonical \cap DOMAIN Owner : request.who = Owner[x]

\* policy.cedar, tier 6: "Forbid any tool calls if the subagent budget has been
\* exhausted".
OverspentSubagentDenied == context.subagent = "overspent" => ~Allowed

\* policy.cedar, tier 7: "Forbid write operations in source directories if plm
\* active requirement ID is empty/null".
UnregisteredWritesDenied ==
    Touches(request, {"apps/", "packages/"}) /\ context.requirement # "set" => ~Allowed

\* policy.cedar, tier 3: the bootstrap commands "must not be blocked by the
\* Tier 3 forbid rule".
BootstrapPermitted ==
    verdicts # Unjudged /\ Executes(request) /\ request.command = {"bootstrap"}
    /\ ~context.quarantined /\ context.subagent # "overspent" => Allowed

\* policy.cedar, tier 1: "Auto-approved. No restrictions on reads".
ReadsAutoApproved ==
    request.tool \in Reading => verdicts.daemon \in {"none", "allow"}

=============================================================================
