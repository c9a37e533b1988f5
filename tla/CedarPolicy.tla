---------------------------- MODULE CedarPolicy ----------------------------
(***************************************************************************)
(* policy.cedar and its two evaluators: CedarEvaluator of                  *)
(* apps/secure-gateway/src/cedar-evaluator.ts and the Rust daemon of       *)
(* packages/cedar-daemon.  Operators only; other modules decide when a     *)
(* request is evaluated and over which context.                            *)
(*                                                                         *)
(* A request is reduced to what the rules tell apart: the tool, the        *)
(* principal, the sets of path patterns its path matches, as submitted and *)
(* once canonicalized, and the set of command patterns its command line    *)
(* matches.  A policy is the set of the rules that loaded: {} is a file    *)
(* with no complete rule.                                                  *)
(***************************************************************************)
EXTENDS Naturals

Decisions == {"allow", "deny"}

Reading == {"read_file", "list_directory", "search_code"}
Writing == {"write_file", "patch_file"}

\* The tools of other programs, forbidden by name.
Foreign == {"run_command", "write_to_file", "replace_file_content",
            "multi_replace_file_content", "view_file", "list_dir", "grep_search"}

Tools == Reading \cup Writing \cup {"execute_command"} \cup Foreign

PathPatterns == {"apps/", "packages/", ".memory/", "policy", "scripts/", ".env", "database/",
                 "dashboard/", "gateway/", "test", "workflows", "CHANGELOG.md"}

\* "launches": it starts with one of the two permitted scripts; "mentions":
\* it contains the name of one elsewhere.
CommandPatterns == {"launches", "mentions", "bootstrap", "download", "git commit", "npm publish"}

Principals == {"backend-sme", "frontend-sme", "qa-sme", "devops-sme", "security-sme", "pm-sme",
               "mcp-agent", "developer"}

\* The processes that ask.
Callers == {"gateway", "mcp"}

\* path is what the rules match of the path as submitted, canonical of what
\* canonicalizeRelativePath makes of it: packages/../policy.cedar matches
\* "packages/" as submitted and "policy" once canonical.  escapes: it returned
\* null.  given: the caller named a path at all.
Request == [tool : Tools, who : Principals, path : SUBSET PathPatterns,
            canonical : SUBSET PathPatterns, given : BOOLEAN, escapes : BOOLEAN,
            command : SUBSET CommandPatterns]

\* fullContext.  requirement is null, the empty string or an identifier;
\* subagent is absent unless the caller named one.
Context == [quarantined : BOOLEAN,
            pipeline : BOOLEAN, audited : BOOLEAN, ham : BOOLEAN,
            synthesized : BOOLEAN, exhausted : BOOLEAN,
            subagent : {"absent", "aligned", "overspent"},
            requirement : {"null", "empty", "set"},
            tests : BOOLEAN, drift : BOOLEAN, driftVerified : BOOLEAN,
            version : BOOLEAN, changelog : BOOLEAN,
            feedback : BOOLEAN, aligned : BOOLEAN]

---------------------------------------------------------------------------
(* The rules *)

Writes(r) == r.tool \in Writing
Executes(r) == r.tool = "execute_command"
Releases(r) == Executes(r) /\ r.command \cap {"git commit", "npm publish"} # {}
Publishes(r) == Executes(r) /\ "npm publish" \in r.command
Launches(r) == Executes(r) /\ "launches" \in r.command
Named(r) == r.command \cap {"launches", "mentions"} # {}
Touches(r, patterns) == Writes(r) /\ r.path \cap patterns # {}

\* One rule each for the permits of tiers 1 to 3 and 8.
PermitHolds(rule, r) ==
    \/ rule = "reads" /\ r.tool \in Reading
    \/ rule = "sources" /\ Touches(r, {"apps/", "packages/", ".memory/"})
    \/ rule = "sandbox" /\ Launches(r)
    \/ rule = "bootstrap" /\ Executes(r) /\ "bootstrap" \in r.command
    \/ rule = "workflowEdits" /\ Touches(r, {"workflows"}) /\ r.who = "devops-sme"
    \/ rule = "policies" /\ Touches(r, {"policy"}) /\ r.who = "security-sme"
    \/ rule = "changelogs" /\ Touches(r, {"CHANGELOG.md"}) /\ r.who = "pm-sme"
    \/ rule = "agentReads" /\ r.tool \in Reading /\ r.who = "mcp-agent"

\* ! (context.plm has active_requirement_id) || ... == "": the key is always
\* present, and null is not "".
RequirementMissing(ctx) == ctx.requirement = "empty"

\* The forbids of tiers 0, 2 to 7.
GateForbids(rule, r, ctx) ==
    \/ rule = "quarantine" /\ ctx.quarantined /\ r.tool \notin Reading
    \/ rule = "sensitive" /\ Touches(r, {"policy", "scripts/", ".env"}) /\ r.who # "security-sme"
    \/ rule = "direct" /\ Executes(r) /\ ~Named(r)
    \/ rule = "download" /\ Executes(r) /\ "download" \in r.command
    \/ rule = "pipeline" /\ Releases(r) /\ ~ctx.pipeline
    \/ rule = "audit" /\ Releases(r) /\ ~ctx.audited
    \/ rule = "ham" /\ Releases(r) /\ ~ctx.ham
    \/ rule = "synthesis" /\ Releases(r) /\ ~ctx.synthesized
    \/ rule = "exhaustion" /\ Executes(r) /\ Named(r) /\ ctx.exhausted
    \/ rule = "subagent" /\ ctx.subagent = "overspent"
    \/ rule = "requirement" /\ Touches(r, {"apps/", "packages/"}) /\ RequirementMissing(ctx)
    \/ rule = "tests" /\ Releases(r) /\ ~ctx.tests
    \/ rule = "drift" /\ Releases(r) /\ ctx.drift /\ ~ctx.driftVerified
    \/ rule = "release" /\ Publishes(r) /\ ~(ctx.version /\ ctx.changelog)
    \/ rule = "feedback" /\ Releases(r) /\ ctx.feedback /\ ~ctx.aligned

\* The role forbids of tier 8: each pattern belongs to one expert.
Owner == [x \in {"database/", "dashboard/", "test", "workflows", "policy", "gateway/",
                 "CHANGELOG.md"} |->
            CASE x = "database/" -> "backend-sme"
              [] x = "dashboard/" -> "frontend-sme"
              [] x = "test" -> "qa-sme"
              [] x = "workflows" -> "devops-sme"
              [] x \in {"policy", "gateway/"} -> "security-sme"
              [] x = "CHANGELOG.md" -> "pm-sme"]

OwnerForbids(rule, r) == rule \in DOMAIN Owner /\ Touches(r, {rule}) /\ r.who # Owner[rule]

ForbidHolds(rule, r, ctx) ==
    \/ GateForbids(rule, r, ctx)
    \/ OwnerForbids(rule, r)
    \/ rule = "foreign" /\ r.tool \in Foreign

PermitRules == {"reads", "sources", "sandbox", "bootstrap", "workflowEdits", "policies",
                "changelogs", "agentReads"}

ForbidRules == {"quarantine", "sensitive", "direct", "download", "pipeline", "audit", "ham",
                "synthesis", "exhaustion", "subagent", "requirement", "tests", "drift",
                "release", "feedback", "foreign"} \cup DOMAIN Owner

FullPolicy == PermitRules \cup ForbidRules

\* evaluateAST: does the condition of the rule hold?
Holds(rule, r, ctx) == IF rule \in PermitRules THEN PermitHolds(rule, r) ELSE ForbidHolds(rule, r, ctx)

\* The rules in the order of policy.cedar.
PolicyText ==
    <<"quarantine", "reads", "sources", "sensitive", "sandbox", "bootstrap", "direct", "download",
      "pipeline", "audit", "ham", "synthesis", "exhaustion", "subagent", "requirement", "tests",
      "drift", "release", "feedback", "database/", "dashboard/", "test", "workflows", "policy",
      "gateway/", "CHANGELOG.md", "workflowEdits", "policies", "changelogs", "agentReads",
      "foreign">>

\* What parse finds in a file cut after its n-th rule: every complete rule.
Prefix(n) == {PolicyText[k] : k \in 1..n}

---------------------------------------------------------------------------
(* The evaluators *)

\* Mutant of Authorized: the first matching permit wins.
PermitWins(policy, r, ctx) == \E rule \in policy \cap PermitRules : Holds(rule, r, ctx)

\* Some permit and no forbid.
Authorized(policy, r, ctx) ==
    /\ \E rule \in policy \cap PermitRules : Holds(rule, r, ctx)
    /\ ~\E rule \in policy \cap ForbidRules : Holds(rule, r, ctx)

\* normalizeEvalArgs
Resolved(r) == [r EXCEPT !.path = r.canonical]

\* It gives up on a path that escapes, and on the empty one the gateway passes
\* where its caller named none; the tool server then passes no path at all.
Unresolved(at, r) == r.escapes \/ (at = "gateway" /\ ~r.given)

\* CedarEvaluator.isAuthorized, as each process calls it.
EvaluateTS(at, policy, r, ctx) ==
    IF ~Unresolved(at, r) /\ Authorized(policy, Resolved(r), ctx) THEN "allow" ELSE "deny"

\* evaluateSimulator takes the arguments as they come and collects every rule
\* that matches before it decides.
EvaluateSimulator(policy, r, ctx) ==
    LET matching == {rule \in policy : Holds(rule, Resolved(r), ctx)} IN
    IF /\ ~r.escapes
       /\ matching \cap PermitRules # {}
       /\ matching \cap ForbidRules = {}
    THEN "allow"
    ELSE "deny"

\* Mutant of DaemonContext: the alignment of feedback is left at its default.
DaemonContextPartial(ctx) == [ctx EXCEPT !.subagent = "absent", !.aligned = TRUE]

\* The context the gateway sends the daemon has no subagent entries.
DaemonContext(ctx) == [ctx EXCEPT !.subagent = "absent"]

\* The schema types active_requirement_id as a String: a null fails the
\* request with HTTP 500.
DaemonAnswers(ctx) == ctx.requirement # "null"

\* handle_authorize judges the path as submitted.
EvaluateDaemon(policy, r, ctx) ==
    IF Authorized(policy, r, DaemonContext(ctx)) THEN "allow" ELSE "deny"

\* resolveCedarDecision: the daemon, or what its failure means.
Resolve(answers, remote, fallback, local) ==
    IF answers THEN remote ELSE IF fallback THEN local ELSE "deny"

=============================================================================
