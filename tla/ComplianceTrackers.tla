------------------------- MODULE ComplianceTrackers -------------------------
(***************************************************************************)
(* The compliance trackers of compliance-trackers.ts and what moves them:  *)
(* evaluateCedarPolicy and POST /api/receipts of index.ts, the routes of   *)
(* plm.ts and findings.ts, the synthesis routes, the reset, and the stdio  *)
(* tool server, a second process over the same three state files.          *)
(*                                                                         *)
(* Each process loads a file when it starts and afterwards replaces it     *)
(* whole, from its own memory, on every change (temporary file and rename, *)
(* so a file is never torn).  The gateway's receipt handler charges tokens *)
(* before its first await, takes the context after it, and moves the       *)
(* trackers only once the policy has answered.  The policy judges the path *)
(* of an edit, or its reason where it gives no path, and resolves it when  *)
(* the daemon does not answer; the trackers compare the path as it stands  *)
(* in the arguments.  A failed save, which the code logs and ignores, is   *)
(* not modelled.                                                           *)
(***************************************************************************)
EXTENDS CedarPolicy, FiniteSets

CONSTANTS
    Subagents,     \* subagents that have a budget of their own
    TokenBudget,   \* the initial budget (80000 in the code)
    SubBudget,     \* the budget a call names for its subagent
    MaxTokens,     \* bound: evaluations charged between two resets
    MaxDirectives, \* bound: directives active at the same time
    Submissions    \* receipts and authorizations in flight

ASSUME TrackerAssumption ==
    /\ TokenBudget \in Nat /\ SubBudget \in Nat
    /\ MaxTokens \in Nat /\ MaxDirectives \in Nat
    /\ "none" \notin Subagents

Processes == {"gateway", "tools"}
Gates == {"pipeline", "audited", "ham"}

\* What is submitted: edits of five kinds of files under apps/ and packages/,
\* three commands that move a gate, and the two that need them all.
Edits == {"source", "contract", "test", "package", "changelog"}
Kinds == Edits \cup {"ci", "ham", "commit", "publish"}

\* How its file is named: in the arguments as it stands in the tree, there with
\* a detour (./apps/...), or not there but in the reason of the receipt.
Names == {"plain", "dotted", "elsewhere"}

VARIABLES
    mem,        \* the trackers of each process
    disk,       \* the three state files
    pkg,        \* the version in package.json, and the last one each process saw, if any
    calls,      \* receipts and authorizations in flight
    unverified, \* history: gates not verified since the last accepted edit
    stale       \* history: a source named plainly was edited since the last synthesis

trackerVars == <<mem, disk, pkg, calls, unverified, stale>>

---------------------------------------------------------------------------
(* Types *)

Devops == [Gates -> BOOLEAN]
Ibp == [budget : Nat, consumed : Nat, synthesized : BOOLEAN,
        subs : [Subagents -> [budget : Nat, consumed : Nat]]]
Plm == [requirement : {"null", "set"}, files : SUBSET Edits, tests : BOOLEAN,
        drift : BOOLEAN, driftVerified : BOOLEAN, version : BOOLEAN, changelog : BOOLEAN,
        directives : Nat, aligned : BOOLEAN]
Trackers == [devops : Devops, ibp : Ibp, plm : Plm]

\* bumped and opened are history: the release files modified before or during
\* the call, and whether every gate was open when its context was taken.
Submission == [pc : {"idle", "context", "decide"}, kind : Kinds, named : Names,
               receipt : BOOLEAN, sub : Subagents \cup {"none"}, context : Context,
               bumped : SUBSET {"package", "changelog"}, opened : BOOLEAN]

TrackerTypeOK ==
    /\ mem \in [Processes -> Trackers]
    /\ disk \in Trackers
    /\ pkg \in [current : BOOLEAN, seen : [Processes -> SUBSET BOOLEAN]]
    /\ calls \in [Submissions -> Submission]
    /\ unverified \subseteq Gates
    /\ stale \in BOOLEAN

---------------------------------------------------------------------------
(* The tracker classes, on their state *)

NewDevops == [g \in Gates |-> TRUE]
NewIbp == [budget |-> TokenBudget, consumed |-> 0, synthesized |-> TRUE,
           subs |-> [s \in Subagents |-> [budget |-> 0, consumed |-> 0]]]
NewPlm == [requirement |-> "null", files |-> {}, tests |-> FALSE, drift |-> FALSE,
           driftVerified |-> TRUE, version |-> TRUE, changelog |-> TRUE,
           directives |-> 0, aligned |-> TRUE]

\* Mutant of Charge: a subagent's tokens are charged to it alone.
ChargeApart(ibp, sub) ==
    [ibp EXCEPT !.consumed = IF sub = "none" THEN @ + 1 ELSE @,
                !.subs = [s \in Subagents |->
                             IF s # sub THEN ibp.subs[s]
                             ELSE [budget |-> SubBudget, consumed |-> ibp.subs[s].consumed + 1]]]

\* recordTokenUsage, recordSubagentTokenUsage; each evaluation costs one.
Charge(ibp, sub) ==
    [ibp EXCEPT !.consumed = @ + 1,
                !.subs = [s \in Subagents |->
                             IF s # sub THEN ibp.subs[s]
                             ELSE [budget |-> SubBudget, consumed |-> ibp.subs[s].consumed + 1]]]

\* getBudgetExhaustionPercentage() > 95
Exhausted(ibp) == ibp.budget = 0 \/ (100 * ibp.consumed) \div ibp.budget > 95

\* isSubagentBudgetAligned; a subagent not seen yet has consumed nothing.
SubagentStatus(ibp, sub) ==
    IF sub = "none" THEN "absent"
    ELSE IF ibp.subs[sub].consumed <= ibp.subs[sub].budget THEN "aligned" ELSE "overspent"

ClearedIbp(ibp) == [NewIbp EXCEPT !.budget = ibp.budget]

\* Mutant of Registered: the files of the last requirement are kept.
RegisteredKeepingFiles(plm) == [plm EXCEPT !.requirement = "set", !.tests = FALSE]

\* setRequirement
Registered(plm) == [plm EXCEPT !.requirement = "set", !.files = {}, !.tests = FALSE]

\* PLMComplianceTracker.onFileModified; bump: package.json has another version
\* than the one this process saw last.
Modified(plm, kind, bump) ==
    LET files == plm.files \cup {kind} IN
    [plm EXCEPT !.files = files,
                !.tests = "test" \in files,
                !.drift = @ \/ kind = "contract",
                !.driftVerified = @ /\ kind # "contract",
                !.version = @ \/ (kind = "package" /\ bump),
                !.changelog = @ \/ kind = "changelog"]

\* Mutant of Attempted: the version gate is left as it was.
AttemptedLeavingVersion(plm) == [plm EXCEPT !.changelog = "changelog" \in plm.files]

\* onPublishAttempt
Attempted(plm) == [plm EXCEPT !.version = "package" \in plm.files,
                              !.changelog = "changelog" \in plm.files]

\* addFeedback
Advised(plm, severity) ==
    IF severity = "info" THEN plm ELSE [plm EXCEPT !.directives = @ + 1, !.aligned = FALSE]

\* alignFeedback
Aligned(plm) == [plm EXCEPT !.directives = 0, !.aligned = TRUE]

ClearedPlm == [NewPlm EXCEPT !.tests = TRUE]

---------------------------------------------------------------------------
(* Saving and loading *)

\* Mutant of Keep: the verification flags are only written down when one is open.
KeepOpen(t) ==
    /\ mem' = [mem EXCEPT !["gateway"] = t]
    /\ disk' = [t EXCEPT !.devops = IF \E g \in Gates : t.devops[g] THEN @ ELSE disk.devops]

\* The gateway's trackers become t and are saved.  (logTask saves the IBP file
\* whenever a receipt moves another tracker; nobody else saves the other two.)
Keep(t) == mem' = [mem EXCEPT !["gateway"] = t] /\ disk' = t

SaveIbp(p, ibp) ==
    /\ mem' = [mem EXCEPT ![p].ibp = ibp]
    /\ disk' = [disk EXCEPT !.ibp = ibp]

SavePlm(plm) ==
    /\ mem' = [mem EXCEPT !["gateway"].plm = plm]
    /\ disk' = [disk EXCEPT !.plm = plm]

SaveIbpPlm(ibp, plm) ==
    /\ mem' = [mem EXCEPT !["gateway"].ibp = ibp, !["gateway"].plm = plm]
    /\ disk' = [disk EXCEPT !.ibp = ibp, !.plm = plm]

---------------------------------------------------------------------------
(* A submission *)

GW == mem["gateway"]

Releasing(kind) == kind \in {"commit", "publish"}

\* What the rules match of the file each kind edits, and the expert that owns it.
PathOf(kind) == CASE kind = "contract" -> {"packages/", "database/"}
                  [] kind = "test" -> {"packages/", "test"}
                  [] OTHER -> {"packages/"}

ExpertOf(kind) == CASE kind = "contract" -> "backend-sme"
                    [] kind = "test" -> "qa-sme"
                    [] OTHER -> "developer"

WordsOf(kind) == CASE kind = "commit" -> {"launches", "git commit"}
                   [] kind = "publish" -> {"launches", "npm publish"}
                   [] OTHER -> {"launches"}

\* The request each kind submits.  A detour hides the pattern a path starts
\* with, but not the one of tests, which matches anywhere; a path not in the
\* arguments is the reason of the receipt for an edit, none for a command.
RequestOf(kind, named) ==
    IF kind \in Edits
    THEN [tool |-> "write_file", who |-> ExpertOf(kind),
          path |-> IF named = "dotted" THEN PathOf(kind) \cap {"test"} ELSE PathOf(kind),
          canonical |-> PathOf(kind), given |-> TRUE, escapes |-> FALSE, command |-> {}]
    ELSE [tool |-> "execute_command", who |-> "developer", path |-> {}, canonical |-> {},
          given |-> named = "plain", escapes |-> FALSE, command |-> WordsOf(kind)]

\* The context of evaluateCedarPolicy.
ContextNow(sub) ==
    [quarantined |-> FALSE,
     pipeline |-> GW.devops["pipeline"], audited |-> GW.devops["audited"],
     ham |-> GW.devops["ham"],
     synthesized |-> GW.ibp.synthesized, exhausted |-> Exhausted(GW.ibp),
     subagent |-> SubagentStatus(GW.ibp, sub),
     requirement |-> GW.plm.requirement, tests |-> GW.plm.tests,
     drift |-> GW.plm.drift, driftVerified |-> GW.plm.driftVerified,
     version |-> GW.plm.version, changelog |-> GW.plm.changelog,
     feedback |-> GW.plm.directives > 0, aligned |-> GW.plm.aligned]

AnyContext == [quarantined |-> FALSE, pipeline |-> TRUE, audited |-> TRUE, ham |-> TRUE,
    synthesized |-> TRUE, exhausted |-> FALSE, subagent |-> "absent", requirement |-> "set",
    tests |-> TRUE, drift |-> FALSE, driftVerified |-> TRUE, version |-> TRUE,
    changelog |-> TRUE, feedback |-> FALSE, aligned |-> TRUE]

NoSubmission == [pc |-> "idle", kind |-> "source", named |-> "plain", receipt |-> TRUE,
                 sub |-> "none", context |-> AnyContext, bumped |-> {}, opened |-> FALSE]

\* Up to the await on the quarantine record: tokens are charged, a release
\* attempt is noted.  receipt: POST /api/receipts, else POST /api/authorize,
\* which takes no reason.
Submit(c, kind, named, receipt, sub) ==
    LET plm == IF Releasing(kind) THEN Attempted(GW.plm) ELSE GW.plm IN
    /\ calls[c].pc = "idle"
    /\ GW.ibp.consumed < MaxTokens
    /\ named = "dotted" => kind \in Edits
    /\ named = "elsewhere" /\ kind \in Edits => receipt
    /\ SaveIbpPlm(Charge(GW.ibp, sub), plm)
    /\ calls' = [calls EXCEPT ![c] =
            [NoSubmission EXCEPT !.pc = "context", !.kind = kind, !.named = named,
                                 !.receipt = receipt, !.sub = sub,
                                 !.bumped = GW.plm.files \cap {"package", "changelog"}]]
    /\ UNCHANGED <<pkg, unverified, stale>>

GatesOpenNow ==
    /\ \A g \in Gates : GW.devops[g]
    /\ GW.ibp.synthesized
    /\ GW.plm.tests
    /\ GW.plm.drift => GW.plm.driftVerified
    /\ GW.plm.directives > 0 => GW.plm.aligned

\* After the await: the context is built and the daemon asked.
TakeContext(c) ==
    /\ calls[c].pc = "context"
    /\ calls' = [calls EXCEPT ![c].pc = "decide",
                              ![c].context = ContextNow(calls[c].sub),
                              ![c].opened = GatesOpenNow]
    /\ UNCHANGED <<mem, disk, pkg, unverified, stale>>

\* The daemon's verdict, the local one when the daemon fails and the operator
\* allows it, or a refusal.
MayAllow(c) ==
    LET r == RequestOf(calls[c].kind, calls[c].named)
        ctx == calls[c].context IN
    \/ DaemonAnswers(ctx) /\ EvaluateDaemon(FullPolicy, r, ctx) = "allow"
    \/ EvaluateTS("gateway", FullPolicy, r, ctx) = "allow"

Refused(c) ==
    /\ calls[c].pc = "decide"
    /\ calls' = [calls EXCEPT ![c] = NoSubmission]
    /\ UNCHANGED <<mem, disk, pkg, unverified, stale>>

Passes(c) == calls[c].pc = "decide" /\ MayAllow(c)

\* Mutant of InvalidatesSynthesis: only files that need no expert count.
InvalidatesPlain(kind, named) == named = "plain" /\ kind = "source"

\* The path in the arguments starts with apps/ or packages/, and is neither a
\* test nor package.json nor CHANGELOG.md.
InvalidatesSynthesis(kind, named) == named = "plain" /\ kind \in {"source", "contract"}

\* package.json was accepted at this version; the gateway looks at the file when
\* the path leads it there.
Versioned(version, named) ==
    [current |-> version,
     seen |-> IF named = "plain" THEN [pkg.seen EXCEPT !["gateway"] = {version}] ELSE pkg.seen]

\* A receipt for an edit is accepted; bump: package.json was given another
\* version meanwhile.  The requirement's files hold plain paths only.
EditAccepted(c, bump) ==
    LET kind == calls[c].kind
        named == calls[c].named
        version == IF bump THEN ~pkg.current ELSE pkg.current
        new == ~version \in pkg.seen["gateway"]
        release == IF named = "plain" THEN {kind} \cap {"package", "changelog"} ELSE {} IN
    /\ Passes(c)
    /\ calls[c].receipt
    /\ kind \in Edits
    /\ bump => kind = "package"
    /\ Keep([devops |-> [g \in Gates |-> FALSE],
             ibp |-> [GW.ibp EXCEPT !.synthesized = @ /\ ~InvalidatesSynthesis(kind, named)],
             plm |-> IF named = "plain" THEN Modified(GW.plm, kind, new) ELSE GW.plm])
    /\ pkg' = IF kind = "package" THEN Versioned(version, named) ELSE pkg
    /\ calls' = [d \in Submissions |->
                    IF d = c THEN NoSubmission
                    ELSE IF calls[d].pc = "idle" THEN calls[d]
                    ELSE [calls[d] EXCEPT !.bumped = @ \cup release]]
    /\ unverified' = Gates
    /\ stale' = (stale \/ (named = "plain" /\ kind \in {"source", "contract"}))

\* A receipt for ci-verify.sh or the HAM check is accepted.
CheckAccepted(c) ==
    LET g == IF calls[c].kind = "ci" THEN "pipeline" ELSE "ham" IN
    /\ Passes(c)
    /\ calls[c].receipt
    /\ calls[c].kind \in {"ci", "ham"}
    /\ Keep([GW EXCEPT !.devops[g] = TRUE])
    /\ unverified' = unverified \ {g}
    /\ calls' = [calls EXCEPT ![c] = NoSubmission]
    /\ UNCHANGED <<pkg, stale>>

\* A receipt for a commit or a publish is accepted: the attempt is noted again.
ReleaseAccepted(c) ==
    /\ Passes(c)
    /\ calls[c].receipt
    /\ Releasing(calls[c].kind)
    /\ SavePlm(Attempted(GW.plm))
    /\ calls' = [calls EXCEPT ![c] = NoSubmission]
    /\ UNCHANGED <<pkg, unverified, stale>>

\* POST /api/authorize: a decision and nothing else.
Authorize(c) ==
    /\ Passes(c)
    /\ ~calls[c].receipt
    /\ calls' = [calls EXCEPT ![c] = NoSubmission]
    /\ UNCHANGED <<mem, disk, pkg, unverified, stale>>

---------------------------------------------------------------------------
(* The routes, each from its last await on *)

\* POST /api/findings; findings with a High one leave the gate as it is.
ReportFindings(high) ==
    /\ IF high THEN UNCHANGED <<mem, disk, unverified>>
       ELSE /\ Keep([GW EXCEPT !.devops["audited"] = TRUE])
            /\ unverified' = unverified \ {"audited"}
    /\ UNCHANGED <<pkg, calls, stale>>

PlmRoute(plm) == SavePlm(plm) /\ UNCHANGED <<pkg, calls, unverified, stale>>

SetRequirement == PlmRoute(Registered(GW.plm))
VerifyDrift == PlmRoute([GW.plm EXCEPT !.driftVerified = TRUE])
AddFeedback(severity) ==
    GW.plm.directives < MaxDirectives /\ PlmRoute(Advised(GW.plm, severity))
AlignFeedback == PlmRoute(Aligned(GW.plm))

\* POST /api/ibp/synthesize, and submit_ibp_synthesis of the tool server.
Synthesize(p) ==
    /\ SaveIbp(p, [mem[p].ibp EXCEPT !.synthesized = TRUE])
    /\ stale' = FALSE
    /\ UNCHANGED <<pkg, calls, unverified>>

\* write_file or patch_file of the tool server: it moves its own IBP tracker
\* and nothing else.
ToolEdit ==
    /\ mem["tools"].ibp.synthesized
    /\ SaveIbp("tools", [mem["tools"].ibp EXCEPT !.synthesized = FALSE])
    /\ UNCHANGED <<pkg, calls, unverified, stale>>

\* POST /api/reset clears two of the three trackers.
ResetTrackers ==
    /\ SaveIbpPlm(ClearedIbp(GW.ibp), ClearedPlm)
    /\ calls' = [c \in Submissions |->
                    IF calls[c].pc = "idle" THEN calls[c]
                    ELSE [calls[c] EXCEPT !.bumped = {"package", "changelog"}]]
    /\ stale' = FALSE
    /\ UNCHANGED <<pkg, unverified>>

\* A process dies and loads the files again.
Restart(p) ==
    /\ mem' = [mem EXCEPT ![p] = disk]
    /\ pkg' = [pkg EXCEPT !.seen[p] = {}]
    /\ calls' = IF p = "gateway" THEN [c \in Submissions |-> NoSubmission] ELSE calls
    /\ UNCHANGED <<disk, unverified, stale>>

---------------------------------------------------------------------------

FirstTrackers == [devops |-> NewDevops, ibp |-> NewIbp, plm |-> NewPlm]

TrackerInit ==
    /\ mem = [p \in Processes |-> FirstTrackers]
    /\ disk = FirstTrackers
    /\ pkg = [current |-> FALSE, seen |-> [p \in Processes |-> {}]]
    /\ calls = [c \in Submissions |-> NoSubmission]
    /\ unverified = {}
    /\ stale = FALSE

\* The steps of one submission of one of these kinds, named in one of these ways.
SubmissionStep(c, kinds, names, subs) ==
    \/ \E k \in kinds, n \in names, receipt \in BOOLEAN, s \in subs : Submit(c, k, n, receipt, s)
    \/ TakeContext(c)
    \/ Refused(c)
    \/ \E bump \in BOOLEAN : EditAccepted(c, bump)
    \/ CheckAccepted(c)
    \/ ReleaseAccepted(c)
    \/ Authorize(c)

FeedbackStep ==
    \/ \E severity \in {"info", "warn", "critical"} : AddFeedback(severity)
    \/ AlignFeedback

ToolServerStep == ToolEdit \/ Synthesize("tools") \/ Restart("tools")

TrackerNext ==
    \/ \E c \in Submissions : SubmissionStep(c, Kinds, Names, Subagents \cup {"none"})
    \/ \E high \in BOOLEAN : ReportFindings(high)
    \/ SetRequirement
    \/ VerifyDrift
    \/ FeedbackStep
    \/ Synthesize("gateway")
    \/ ToolServerStep
    \/ ResetTrackers
    \/ Restart("gateway")

TrackerSpec == TrackerInit /\ [][TrackerNext]_trackerVars

---------------------------------------------------------------------------
(* Properties *)

\* A verification gate that is open was verified after the last accepted edit,
\* in memory and in the file a restarted gateway would load.
VerifiedSinceEdit ==
    \A g \in unverified : ~mem["gateway"].devops[g] /\ ~disk.devops[g]

\* While a source edited through the gateway, in a receipt that names it as it
\* stands in the tree, awaits its synthesis, the gateway's gate is closed, and no
\* save by either process opens it behind its back.
SynthesisFollowsEdit == stale => ~mem["gateway"].ibp.synthesized /\ ~disk.ibp.synthesized

\* Under an active requirement the test gate is open exactly when a test file
\* was modified for it, by the paths the trackers compare; active directives and
\* alignment exclude each other.  Both in memory and on disk, over requirement
\* changes, resets and restarts.
PlmConsistent ==
    \A plm \in {mem["gateway"].plm, disk.plm} :
        /\ plm.requirement = "set" => (plm.tests <=> "test" \in plm.files)
        /\ plm.aligned <=> plm.directives = 0

\* What subagents consumed, token by token.
Spent(ibp) == UNION {{s} \X (1..ibp.subs[s].consumed) : s \in Subagents}

\* What subagents consumed was also charged to the session, in every copy of
\* the tracker, whichever process saved the file last.
SubagentTotalsAddUp ==
    \A ibp \in {mem[p].ibp : p \in Processes} \cup {disk.ibp} :
        Cardinality(Spent(ibp)) <= ibp.consumed

\* A commit or a publish passes only if every gate was open together at one
\* moment of its evaluation; a publish only if the version and the changelog
\* files were both modified, or the state was reset, by the time it was decided.
ReleasesWereGated ==
    \A c \in Submissions : Passes(c) =>
        /\ Releasing(calls[c].kind) => calls[c].opened
        /\ calls[c].kind = "publish" => calls[c].bumped = {"package", "changelog"}

\* compliance-trackers.ts, on invalidateSynthesis: "called when a source file is
\* modified", however the accepted receipt names it.
AcceptedEditsInvalidate ==
    [][\A c \in Submissions, bump \in BOOLEAN :
          EditAccepted(c, bump) /\ calls[c].kind \in {"source", "contract"}
              => ~mem'["gateway"].ibp.synthesized]_trackerVars

\* The same comment, by whichever process modifies the file.
ToolEditsInvalidate == [][ToolEdit => ~mem'["gateway"].ibp.synthesized]_trackerVars

\* The tokens charged survive a restart of the gateway.
ChargesSurvive == disk.ibp.consumed >= mem["gateway"].ibp.consumed

\* The gates are still open when the receipt of a release is accepted.
ReleasedWhileOpen ==
    [][\A c \in Submissions : ReleaseAccepted(c) => GatesOpenNow]_trackerVars

=============================================================================
