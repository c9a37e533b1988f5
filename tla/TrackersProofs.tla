--------------------------- MODULE TrackersProofs ---------------------------
(***************************************************************************)
(* The compliance trackers, for any number of subagents and of receipts in *)
(* flight, and the token budget they are charged against, for any number   *)
(* of extension requests and of approvals in flight.                       *)
(*                                                                         *)
(* The four invariants of the trackers are not inductive one by one: a     *)
(* release in flight passes on the context it took, so TrackerInv also     *)
(* keeps what such a context was taken from (Known).                       *)
(***************************************************************************)
EXTENDS ComplianceTrackers, BudgetExtensions, FiniteSetTheorems, TLAPS

---------------------------------------------------------------------------
(* Saving *)

\* What a save makes of the memory that saves and of the file.
LEMMA SaveShapes ==
    ASSUME mem \in [Processes -> Trackers], disk \in Trackers,
           NEW p \in Processes, NEW ibp \in Ibp, NEW plm \in Plm
    PROVE  /\ SaveIbp(p, ibp) =>
                /\ mem' = [mem EXCEPT ![p] = [devops |-> mem[p].devops, ibp |-> ibp, plm |-> mem[p].plm]]
                /\ disk' = [devops |-> disk.devops, ibp |-> ibp, plm |-> disk.plm]
           /\ SavePlm(plm) =>
                /\ mem' = [mem EXCEPT !["gateway"] = [devops |-> GW.devops, ibp |-> GW.ibp, plm |-> plm]]
                /\ disk' = [devops |-> disk.devops, ibp |-> disk.ibp, plm |-> plm]
           /\ SaveIbpPlm(ibp, plm) =>
                /\ mem' = [mem EXCEPT !["gateway"] = [devops |-> GW.devops, ibp |-> ibp, plm |-> plm]]
                /\ disk' = [devops |-> disk.devops, ibp |-> ibp, plm |-> plm]
<1>1. /\ "gateway" \in Processes
      /\ \A q \in Processes : mem[q] \in Trackers
  BY DEF Processes
<1>2. ASSUME NEW t \in Trackers
      PROVE  /\ [t EXCEPT !.ibp = ibp] = [devops |-> t.devops, ibp |-> ibp, plm |-> t.plm]
             /\ [t EXCEPT !.plm = plm] = [devops |-> t.devops, ibp |-> t.ibp, plm |-> plm]
             /\ [t EXCEPT !.ibp = ibp, !.plm = plm] = [devops |-> t.devops, ibp |-> ibp, plm |-> plm]
  <2>1. t = [devops |-> t.devops, ibp |-> t.ibp, plm |-> t.plm]
    BY DEF Trackers
  <2>2. [t EXCEPT !.ibp = ibp] = [devops |-> t.devops, ibp |-> ibp, plm |-> t.plm]
    BY <2>1 DEF Trackers
  <2>3. [t EXCEPT !.plm = plm] = [devops |-> t.devops, ibp |-> t.ibp, plm |-> plm]
    BY <2>1 DEF Trackers
  <2>4. [t EXCEPT !.ibp = ibp, !.plm = plm] = [devops |-> t.devops, ibp |-> ibp, plm |-> plm]
    <3> DEFINE u == [t EXCEPT !.ibp = ibp, !.plm = plm]
    <3>1. u \in Trackers /\ u.devops = t.devops /\ u.ibp = ibp /\ u.plm = plm
      BY DEF Trackers
    <3> HIDE DEF u
    <3>2. u = [devops |-> u.devops, ibp |-> u.ibp, plm |-> u.plm]
      BY <3>1 DEF Trackers
    <3> QED BY <3>1, <3>2 DEF u
  <2> QED BY <2>2, <2>3, <2>4
<1>3. ASSUME SaveIbp(p, ibp)
      PROVE  /\ mem' = [mem EXCEPT ![p] = [devops |-> mem[p].devops, ibp |-> ibp, plm |-> mem[p].plm]]
             /\ disk' = [devops |-> disk.devops, ibp |-> ibp, plm |-> disk.plm]
  BY <1>1, <1>2, <1>3 DEF SaveIbp
<1>4. ASSUME SavePlm(plm)
      PROVE  /\ mem' = [mem EXCEPT !["gateway"] = [devops |-> GW.devops, ibp |-> GW.ibp, plm |-> plm]]
             /\ disk' = [devops |-> disk.devops, ibp |-> disk.ibp, plm |-> plm]
  BY <1>1, <1>2, <1>4 DEF SavePlm, GW
<1>5. ASSUME SaveIbpPlm(ibp, plm)
      PROVE  /\ mem' = [mem EXCEPT !["gateway"] = [devops |-> GW.devops, ibp |-> ibp, plm |-> plm]]
             /\ disk' = [devops |-> disk.devops, ibp |-> ibp, plm |-> plm]
  BY <1>1, <1>2, <1>5 DEF SaveIbpPlm, GW
<1> QED BY <1>3, <1>4, <1>5

LEMMA Replaced ==
    ASSUME mem \in [Processes -> Trackers], NEW p \in Processes, NEW t \in Trackers,
           mem' = [mem EXCEPT ![p] = t]
    PROVE  /\ mem' \in [Processes -> Trackers]
           /\ p = "gateway" => GW' = t
           /\ p # "gateway" => GW' = GW
BY DEF Processes, GW

---------------------------------------------------------------------------
(* The operations of the trackers *)

\* PlmConsistent of one PLM tracker.
Consistent(plm) ==
    /\ plm.requirement = "set" => (plm.tests <=> "test" \in plm.files)
    /\ plm.aligned <=> plm.directives = 0

\* The part of a release that the trackers hold against what was modified.
Recorded(plm, bumped) ==
    /\ plm.files \cap {"package", "changelog"} \subseteq bumped
    /\ plm.version => "package" \in bumped
    /\ plm.changelog => "changelog" \in bumped

\* A charge leaves the synthesis gate alone.
LEMMA ChargeTypes ==
    ASSUME NEW ibp \in Ibp, NEW sub \in Subagents \cup {"none"}
    PROVE  Charge(ibp, sub) \in Ibp /\ Charge(ibp, sub).synthesized = ibp.synthesized
<1> DEFINE subs == [s \in Subagents |->
                        IF s # sub THEN ibp.subs[s]
                        ELSE [budget |-> SubBudget, consumed |-> ibp.subs[s].consumed + 1]]
<1>1. subs \in [Subagents -> [budget : Nat, consumed : Nat]]
  BY TrackerAssumption DEF Ibp
<1>2. Charge(ibp, sub) = [ibp EXCEPT !.consumed = @ + 1, !.subs = subs]
  BY DEF Charge
<1>3. ibp.consumed + 1 \in Nat
  BY DEF Ibp
<1> HIDE DEF subs
<1> DEFINE charged == [ibp EXCEPT !.consumed = @ + 1, !.subs = subs]
<1>4. charged \in Ibp
  BY <1>1, <1>3 DEF Ibp
<1>5. charged.synthesized = ibp.synthesized
  BY DEF Ibp
<1> QED BY <1>2, <1>4, <1>5

\* What the operations of the PLM tracker keep.
LEMMA PlmOperations ==
    ASSUME NEW plm \in Plm, NEW bumped
    PROVE  /\ Attempted(plm) \in Plm
           /\ Consistent(plm) => Consistent(Attempted(plm))
           /\ Recorded(plm, bumped) => Recorded(Attempted(plm), bumped)
           /\ Recorded(Attempted(plm), plm.files \cap {"package", "changelog"})
           /\ Registered(plm) \in Plm /\ ClearedPlm \in Plm /\ Aligned(plm) \in Plm
           /\ Consistent(plm) => Consistent(Registered(plm)) /\ Consistent(Aligned(plm))
           /\ Consistent(ClearedPlm)
           /\ Recorded(plm, bumped) => Recorded(Registered(plm), bumped) /\ Recorded(Aligned(plm), bumped)
           /\ Recorded(ClearedPlm, {"package", "changelog"})
<1>1. /\ Attempted(plm) \in Plm
      /\ Attempted(plm).files = plm.files
      /\ Attempted(plm).version = ("package" \in plm.files)
      /\ Attempted(plm).changelog = ("changelog" \in plm.files)
      /\ Attempted(plm).requirement = plm.requirement /\ Attempted(plm).tests = plm.tests
      /\ Attempted(plm).aligned = plm.aligned /\ Attempted(plm).directives = plm.directives
  <2> DEFINE v == "package" \in plm.files
             w == "changelog" \in plm.files
  <2>1. v \in BOOLEAN /\ w \in BOOLEAN
    OBVIOUS
  <2>2. Attempted(plm) = [plm EXCEPT !.version = v, !.changelog = w]
    BY DEF Attempted
  <2> HIDE DEF v, w
  <2>4. /\ Attempted(plm) \in Plm /\ Attempted(plm).version = v /\ Attempted(plm).changelog = w
        /\ Attempted(plm).files = plm.files
        /\ Attempted(plm).requirement = plm.requirement /\ Attempted(plm).tests = plm.tests
        /\ Attempted(plm).aligned = plm.aligned /\ Attempted(plm).directives = plm.directives
    BY <2>1, <2>2 DEF Plm
  <2> QED BY <2>4 DEF v, w
<1>2. /\ Registered(plm) \in Plm
      /\ Registered(plm).files = {} /\ Registered(plm).tests = FALSE
      /\ Registered(plm).version = plm.version /\ Registered(plm).changelog = plm.changelog
      /\ Registered(plm).aligned = plm.aligned /\ Registered(plm).directives = plm.directives
  BY DEF Registered, Plm
<1>3. /\ Aligned(plm) \in Plm
      /\ Aligned(plm).files = plm.files /\ Aligned(plm).tests = plm.tests
      /\ Aligned(plm).requirement = plm.requirement
      /\ Aligned(plm).version = plm.version /\ Aligned(plm).changelog = plm.changelog
      /\ Aligned(plm).aligned = TRUE /\ Aligned(plm).directives = 0
  BY DEF Aligned, Plm
<1>4. /\ ClearedPlm \in Plm
      /\ ClearedPlm.files = {} /\ ClearedPlm.requirement = "null"
      /\ ClearedPlm.aligned = TRUE /\ ClearedPlm.directives = 0
  BY DEF ClearedPlm, NewPlm, Plm
<1> QED BY <1>1, <1>2, <1>3, <1>4 DEF Consistent, Recorded

LEMMA PlmEdits ==
    ASSUME NEW plm \in Plm, NEW bumped, NEW kind \in Edits, NEW bump \in BOOLEAN
    PROVE  /\ Modified(plm, kind, bump) \in Plm
           /\ Consistent(plm) => Consistent(Modified(plm, kind, bump))
           /\ Recorded(plm, bumped)
              => Recorded(Modified(plm, kind, bump), bumped \cup ({kind} \cap {"package", "changelog"}))
<1>1. /\ Modified(plm, kind, bump) \in Plm
      /\ Modified(plm, kind, bump).files = plm.files \cup {kind}
      /\ Modified(plm, kind, bump).tests = ("test" \in plm.files \cup {kind})
      /\ Modified(plm, kind, bump).version = (plm.version \/ (kind = "package" /\ bump))
      /\ Modified(plm, kind, bump).changelog = (plm.changelog \/ kind = "changelog")
      /\ Modified(plm, kind, bump).aligned = plm.aligned
      /\ Modified(plm, kind, bump).directives = plm.directives
  <2> DEFINE files == plm.files \cup {kind}
             tests == "test" \in files
             drift == plm.drift \/ kind = "contract"
             driftVerified == plm.driftVerified /\ kind # "contract"
             version == plm.version \/ (kind = "package" /\ bump)
             changelog == plm.changelog \/ kind = "changelog"
  <2>1. /\ files \in SUBSET Edits /\ tests \in BOOLEAN /\ drift \in BOOLEAN
        /\ driftVerified \in BOOLEAN /\ version \in BOOLEAN /\ changelog \in BOOLEAN
    BY DEF Plm
  <2>2. Modified(plm, kind, bump) =
            [plm EXCEPT !.files = files, !.tests = tests, !.drift = drift,
                        !.driftVerified = driftVerified, !.version = version,
                        !.changelog = changelog]
    BY DEF Modified
  <2> HIDE DEF files, tests, drift, driftVerified, version, changelog
  <2>4. /\ Modified(plm, kind, bump) \in Plm
        /\ Modified(plm, kind, bump).files = files /\ Modified(plm, kind, bump).tests = tests
        /\ Modified(plm, kind, bump).version = version
        /\ Modified(plm, kind, bump).changelog = changelog
        /\ Modified(plm, kind, bump).requirement = plm.requirement
        /\ Modified(plm, kind, bump).aligned = plm.aligned
        /\ Modified(plm, kind, bump).directives = plm.directives
    <3> DEFINE p == [plm EXCEPT !.files = files, !.tests = tests, !.drift = drift,
                                !.driftVerified = driftVerified, !.version = version,
                                !.changelog = changelog]
    <3>1. p \in Plm
      BY <2>1 DEF Plm
    <3>2. p.files = files /\ p.tests = tests /\ p.version = version /\ p.changelog = changelog
      BY DEF Plm
    <3>3. p.requirement = plm.requirement /\ p.aligned = plm.aligned /\ p.directives = plm.directives
      BY DEF Plm
    <3> QED BY <2>2, <3>1, <3>2, <3>3
  <2> QED BY <2>4 DEF files, tests, version, changelog
<1> QED BY <1>1 DEF Consistent, Recorded

LEMMA PlmFeedback ==
    ASSUME NEW plm \in Plm, NEW bumped, NEW severity
    PROVE  /\ Advised(plm, severity) \in Plm /\ [plm EXCEPT !.driftVerified = TRUE] \in Plm
           /\ Consistent(plm) => /\ Consistent(Advised(plm, severity))
                                 /\ Consistent([plm EXCEPT !.driftVerified = TRUE])
           /\ Recorded(plm, bumped) => /\ Recorded(Advised(plm, severity), bumped)
                                       /\ Recorded([plm EXCEPT !.driftVerified = TRUE], bumped)
<1> DEFINE warned == [plm EXCEPT !.directives = @ + 1, !.aligned = FALSE]
           verified == [plm EXCEPT !.driftVerified = TRUE]
<1>1. /\ warned \in Plm
      /\ warned.files = plm.files /\ warned.tests = plm.tests /\ warned.requirement = plm.requirement
      /\ warned.version = plm.version /\ warned.changelog = plm.changelog
      /\ warned.aligned = FALSE /\ warned.directives = plm.directives + 1 /\ plm.directives \in Nat
  <2> DEFINE n == plm.directives + 1
  <2>1. n \in Nat /\ plm.directives \in Nat
    BY DEF Plm
  <2>2. warned = [plm EXCEPT !.directives = n, !.aligned = FALSE]
    OBVIOUS
  <2>3. ASSUME NEW x \in Nat
        PROVE  LET p == [plm EXCEPT !.directives = x, !.aligned = FALSE] IN
               /\ p \in Plm /\ p.files = plm.files /\ p.tests = plm.tests
               /\ p.requirement = plm.requirement /\ p.version = plm.version
               /\ p.changelog = plm.changelog /\ p.aligned = FALSE /\ p.directives = x
    BY DEF Plm
  <2> HIDE DEF n, warned
  <2>4. /\ warned \in Plm /\ warned.directives = n
        /\ warned.files = plm.files /\ warned.tests = plm.tests /\ warned.requirement = plm.requirement
        /\ warned.version = plm.version /\ warned.changelog = plm.changelog
        /\ warned.aligned = FALSE
    BY <2>1, <2>2, <2>3
  <2> QED BY <2>1, <2>4 DEF n
<1>2. /\ verified \in Plm
      /\ verified.files = plm.files /\ verified.tests = plm.tests
      /\ verified.requirement = plm.requirement
      /\ verified.version = plm.version /\ verified.changelog = plm.changelog
      /\ verified.aligned = plm.aligned /\ verified.directives = plm.directives
  BY DEF Plm
<1>3. Advised(plm, severity) = plm \/ Advised(plm, severity) = warned
  BY DEF Advised
<1> HIDE DEF warned
<1>4. warned.directives # 0
  BY <1>1
<1> QED BY <1>1, <1>2, <1>3, <1>4 DEF Consistent, Recorded

---------------------------------------------------------------------------
(* What the policy allows of a release *)

\* Every gate of a context is open.
ContextOpen(ctx) ==
    /\ ctx.pipeline /\ ctx.audited /\ ctx.ham
    /\ ctx.synthesized
    /\ ctx.tests
    /\ ctx.drift => ctx.driftVerified
    /\ ctx.feedback => ctx.aligned

\* The two kinds of rules are told apart, so each holds by its own condition.
LEMMA RulesApart ==
    ASSUME NEW rule, NEW r, NEW ctx
    PROVE  /\ rule \in PermitRules => (Holds(rule, r, ctx) <=> PermitHolds(rule, r))
           /\ rule \in ForbidRules => (Holds(rule, r, ctx) <=> ForbidHolds(rule, r, ctx))
<1>1. rule \in ForbidRules => rule \notin PermitRules
  BY DEF ForbidRules, PermitRules, Owner
<1> QED BY <1>1 DEF Holds

\* The forbids of the policy, for a commit and a publish.
LEMMA AuthorizedReleases ==
    ASSUME NEW kind, Releasing(kind), NEW r, NEW ctx, Authorized(FullPolicy, r, ctx),
           r.tool = "execute_command", r.command = WordsOf(kind)
    PROVE  ContextOpen(ctx) /\ (kind = "publish" => ctx.version /\ ctx.changelog)
<1>1. kind \in {"commit", "publish"}
  BY DEF Releasing
<1>2. Releases(r) /\ (kind = "publish" => Publishes(r))
  <2>1. CASE kind = "commit"
    <3>1. "git commit" \in r.command
      BY <2>1 DEF WordsOf
    <3> QED BY <2>1, <3>1 DEF Releases, Executes
  <2>2. CASE kind = "publish"
    <3>1. "npm publish" \in r.command
      BY <2>2 DEF WordsOf
    <3> QED BY <2>2, <3>1 DEF Releases, Publishes, Executes
  <2> QED BY <1>1, <2>1, <2>2
<1>3. \A rule \in ForbidRules : ~GateForbids(rule, r, ctx)
  BY RulesApart DEF Authorized, FullPolicy, ForbidHolds
<1>4. {"pipeline", "audit", "ham", "synthesis", "tests", "drift", "release", "feedback"} \subseteq ForbidRules
  BY DEF ForbidRules
<1> QED BY <1>2, <1>3, <1>4 DEF GateForbids, ContextOpen

\* The same of the two evaluators; the context the daemon is sent lacks no gate.
LEMMA PassedReleases ==
    ASSUME NEW c \in Submissions, Releasing(calls[c].kind), calls[c].context \in Context, MayAllow(c)
    PROVE  /\ ContextOpen(calls[c].context)
           /\ calls[c].kind = "publish" => calls[c].context.version /\ calls[c].context.changelog
<1> DEFINE ctx == calls[c].context
           r == RequestOf(calls[c].kind, calls[c].named)
           q == Resolved(r)
<1>1. /\ DaemonContext(ctx).pipeline = ctx.pipeline /\ DaemonContext(ctx).audited = ctx.audited
      /\ DaemonContext(ctx).ham = ctx.ham /\ DaemonContext(ctx).synthesized = ctx.synthesized
      /\ DaemonContext(ctx).tests = ctx.tests /\ DaemonContext(ctx).drift = ctx.drift
      /\ DaemonContext(ctx).driftVerified = ctx.driftVerified
      /\ DaemonContext(ctx).feedback = ctx.feedback /\ DaemonContext(ctx).aligned = ctx.aligned
      /\ DaemonContext(ctx).version = ctx.version /\ DaemonContext(ctx).changelog = ctx.changelog
  BY DEF DaemonContext, Context
<1>2. \/ Authorized(FullPolicy, r, DaemonContext(ctx))
      \/ Authorized(FullPolicy, q, ctx)
  BY DEF MayAllow, EvaluateDaemon, EvaluateTS
<1>3. r = [tool |-> "execute_command", who |-> "developer", path |-> {}, canonical |-> {},
           given |-> calls[c].named = "plain", escapes |-> FALSE, command |-> WordsOf(calls[c].kind)]
  BY DEF RequestOf, Releasing, Edits
<1>4. r.tool = "execute_command" /\ r.command = WordsOf(calls[c].kind)
  <2> HIDE DEF r
  <2> QED BY <1>3
<1>5. q.tool = "execute_command" /\ q.command = WordsOf(calls[c].kind)
  <2>1. q = [r EXCEPT !.path = r.canonical]
    BY DEF Resolved
  <2> HIDE DEF r, q
  <2> QED BY <1>3, <2>1
<1> HIDE DEF ctx, r, q
<1>6. ContextOpen(DaemonContext(ctx)) <=> ContextOpen(ctx)
  BY <1>1 DEF ContextOpen
<1>7. CASE Authorized(FullPolicy, r, DaemonContext(ctx))
  BY <1>1, <1>4, <1>6, <1>7, AuthorizedReleases DEF ctx
<1>8. CASE Authorized(FullPolicy, q, ctx)
  BY <1>5, <1>8, AuthorizedReleases DEF ctx
<1> QED BY <1>2, <1>7, <1>8

---------------------------------------------------------------------------
(* The inductive invariant *)

\* What a release in flight knows: the version and the changelog count only if
\* their files were modified, and its context is what was open when it was taken.
Known(call, plm) ==
    call.pc # "idle" /\ Releasing(call.kind) =>
        /\ Recorded(plm, call.bumped)
        /\ call.pc = "decide" =>
              /\ ContextOpen(call.context) => call.opened
              /\ call.context.version => "package" \in call.bumped
              /\ call.context.changelog => "changelog" \in call.bumped

ReleaseInv == \A c \in Submissions : Known(calls[c], GW.plm)

TrackerInv ==
    /\ TrackerTypeOK
    /\ VerifiedSinceEdit /\ SynthesisFollowsEdit /\ PlmConsistent
    /\ ReleaseInv

LEMMA InvParts ==
    ASSUME TrackerInv
    PROVE  /\ mem \in [Processes -> Trackers] /\ "gateway" \in Processes /\ "tools" \in Processes
           /\ GW \in Trackers /\ disk \in Trackers
           /\ GW.devops \in Devops /\ GW.ibp \in Ibp /\ GW.plm \in Plm
           /\ disk.devops \in Devops /\ disk.ibp \in Ibp /\ disk.plm \in Plm
           /\ Consistent(GW.plm) /\ Consistent(disk.plm)
           /\ \A c \in Submissions : Known(calls[c], GW.plm) /\ calls[c] \in Submission
<1>1. /\ mem \in [Processes -> Trackers] /\ "gateway" \in Processes /\ "tools" \in Processes
      /\ GW \in Trackers /\ disk \in Trackers /\ \A c \in Submissions : calls[c] \in Submission
  BY DEF TrackerInv, TrackerTypeOK, Processes, GW
<1>2. /\ GW.devops \in Devops /\ GW.ibp \in Ibp /\ GW.plm \in Plm
      /\ disk.devops \in Devops /\ disk.ibp \in Ibp /\ disk.plm \in Plm
  BY <1>1 DEF Trackers
<1>3. Consistent(GW.plm) /\ Consistent(disk.plm)
  BY DEF TrackerInv, PlmConsistent, Consistent, GW
<1> QED BY <1>1, <1>2, <1>3 DEF TrackerInv, ReleaseInv

\* The release invariant when submissions stay as they are.
LEMMA KnownStays ==
    ASSUME NEW call, NEW plm, NEW next, Known(call, plm),
           Recorded(plm, call.bumped) => Recorded(next, call.bumped)
    PROVE  Known(call, next)
BY DEF Known

PkgOK == pkg \in [current : BOOLEAN, seen : [Processes -> SUBSET BOOLEAN]]

\* The invariant from the trackers of the gateway and the files after a step.
LEMMA Assembled ==
    ASSUME NEW d \in Devops, NEW i \in Ibp, NEW l \in Plm, NEW e \in Devops, NEW m \in Plm,
           mem' \in [Processes -> Trackers],
           GW' = [devops |-> d, ibp |-> i, plm |-> l],
           NEW j \in Ibp, disk' = [devops |-> e, ibp |-> j, plm |-> m],
           PkgOK', calls' \in [Submissions -> Submission],
           unverified' \subseteq Gates, stale' \in BOOLEAN,
           \A g \in unverified' : ~d[g] /\ ~e[g],
           stale' => ~i.synthesized /\ ~j.synthesized,
           Consistent(l), Consistent(m),
           \A c \in Submissions : Known(calls'[c], l)
    PROVE  TrackerInv'
<1>1. disk' \in Trackers
  BY DEF Trackers
<1>2. TrackerTypeOK'
  BY <1>1 DEF TrackerTypeOK, PkgOK
<1>3. mem'["gateway"] = GW'
  BY DEF GW
<1>4. /\ GW'.devops = d /\ GW'.ibp = i /\ GW'.plm = l
      /\ disk'.devops = e /\ disk'.ibp = j /\ disk'.plm = m
  OBVIOUS
<1>5. VerifiedSinceEdit'
  BY <1>3, <1>4 DEF VerifiedSinceEdit
<1>6. SynthesisFollowsEdit'
  BY <1>3, <1>4 DEF SynthesisFollowsEdit
<1>7. PlmConsistent'
  BY <1>3, <1>4 DEF PlmConsistent, Consistent
<1>8. ReleaseInv'
  BY <1>4 DEF ReleaseInv
<1> QED BY <1>2, <1>5, <1>6, <1>7, <1>8 DEF TrackerInv

LEMMA Whole ==
    ASSUME NEW t \in Trackers
    PROVE  t = [devops |-> t.devops, ibp |-> t.ibp, plm |-> t.plm]
BY DEF Trackers

LEMMA IdleKnown ==
    ASSUME NEW plm
    PROVE  NoSubmission \in Submission /\ Known(NoSubmission, plm)
BY DEF NoSubmission, Submission, Known, Kinds, Names, Edits, AnyContext, Context

\* A submission that ends leaves the others as they are.
LEMMA EndKnown ==
    ASSUME calls \in [Submissions -> Submission], NEW c \in Submissions, NEW plm,
           \A d \in Submissions : Known(calls[d], plm),
           calls' = [calls EXCEPT ![c] = NoSubmission]
    PROVE  calls' \in [Submissions -> Submission] /\ \A d \in Submissions : Known(calls'[d], plm)
BY IdleKnown

LEMMA SubmitKeepsInv ==
    ASSUME TrackerInv, NEW c \in Submissions, NEW kind \in Kinds, NEW named \in Names,
           NEW receipt \in BOOLEAN, NEW sub \in Subagents \cup {"none"},
           Submit(c, kind, named, receipt, sub)
    PROVE  TrackerInv'
<1> DEFINE plm == IF Releasing(kind) THEN Attempted(GW.plm) ELSE GW.plm
           ibp == Charge(GW.ibp, sub)
           bumped == GW.plm.files \cap {"package", "changelog"}
           new == [NoSubmission EXCEPT !.pc = "context", !.kind = kind, !.named = named,
                                       !.receipt = receipt, !.sub = sub, !.bumped = bumped]
<1>1. /\ plm \in Plm /\ Consistent(plm)
      /\ \A b : Recorded(GW.plm, b) => Recorded(plm, b)
      /\ Releasing(kind) => Recorded(plm, bumped)
  BY InvParts, PlmOperations
<1>2. ibp \in Ibp /\ ibp.synthesized = GW.ibp.synthesized
  BY InvParts, ChargeTypes
<1>3. SaveIbpPlm(ibp, plm) /\ UNCHANGED <<pkg, unverified, stale>>
  BY DEF Submit
<1>4. calls' = [calls EXCEPT ![c] = new]
  BY DEF Submit
<1>5. new \in Submission /\ new.pc = "context" /\ new.kind = kind /\ new.bumped = bumped
  <2>1. bumped \in SUBSET {"package", "changelog"}
    OBVIOUS
  <2> HIDE DEF bumped
  <2> QED BY <2>1, IdleKnown DEF Submission
<1> HIDE DEF plm, ibp, bumped, new
<1>6. /\ mem' = [mem EXCEPT !["gateway"] = [devops |-> GW.devops, ibp |-> ibp, plm |-> plm]]
      /\ disk' = [devops |-> disk.devops, ibp |-> ibp, plm |-> plm]
  BY <1>1, <1>2, <1>3, InvParts, SaveShapes
<1>7. [devops |-> GW.devops, ibp |-> ibp, plm |-> plm] \in Trackers
  BY <1>1, <1>2, InvParts DEF Trackers
<1>8. mem' \in [Processes -> Trackers] /\ GW' = [devops |-> GW.devops, ibp |-> ibp, plm |-> plm]
  BY <1>6, <1>7, InvParts, Replaced
<1>9. \A d \in Submissions : Known(calls'[d], plm)
  <2>1. Known(new, plm)
    BY <1>1, <1>5 DEF Known
  <2>2. \A d \in Submissions : Known(calls[d], plm)
    BY <1>1, InvParts, KnownStays
  <2> QED BY <1>4, <2>1, <2>2, InvParts DEF TrackerInv, TrackerTypeOK
<1>10. calls' \in [Submissions -> Submission]
  BY <1>4, <1>5 DEF TrackerInv, TrackerTypeOK
<1>11. /\ PkgOK' /\ unverified' \subseteq Gates /\ stale' \in BOOLEAN
       /\ \A g \in unverified' : ~GW.devops[g] /\ ~disk.devops[g]
       /\ stale' => ~ibp.synthesized
  BY <1>2, <1>3 DEF TrackerInv, TrackerTypeOK, PkgOK, VerifiedSinceEdit, SynthesisFollowsEdit, GW
<1> QED BY <1>1, <1>2, <1>6, <1>8, <1>9, <1>10, <1>11, InvParts, Assembled

\* A step that moves submissions only.
LEMMA TrackersStay ==
    ASSUME TrackerInv, UNCHANGED <<mem, disk, pkg, unverified, stale>>,
           calls' \in [Submissions -> Submission],
           \A c \in Submissions : Known(calls'[c], GW.plm)
    PROVE  TrackerInv'
<1>1. GW' = GW
  BY DEF GW
<1>2. TrackerTypeOK'
  BY DEF TrackerInv, TrackerTypeOK
<1>3. VerifiedSinceEdit' /\ SynthesisFollowsEdit' /\ PlmConsistent'
  BY DEF TrackerInv, VerifiedSinceEdit, SynthesisFollowsEdit, PlmConsistent
<1> QED BY <1>1, <1>2, <1>3 DEF TrackerInv, ReleaseInv

\* A step that saves the PLM tracker only.
LEMMA PlmSaved ==
    ASSUME TrackerInv, NEW plm \in Plm, SavePlm(plm), Consistent(plm),
           UNCHANGED <<pkg, unverified, stale>>,
           calls' \in [Submissions -> Submission],
           \A c \in Submissions : Known(calls'[c], plm)
    PROVE  TrackerInv'
<1>1. /\ mem' = [mem EXCEPT !["gateway"] = [devops |-> GW.devops, ibp |-> GW.ibp, plm |-> plm]]
      /\ disk' = [devops |-> disk.devops, ibp |-> disk.ibp, plm |-> plm]
  BY InvParts, SaveShapes
<1>2. [devops |-> GW.devops, ibp |-> GW.ibp, plm |-> plm] \in Trackers
  BY InvParts DEF Trackers
<1>3. /\ mem' \in [Processes -> Trackers]
      /\ GW' = [devops |-> GW.devops, ibp |-> GW.ibp, plm |-> plm]
  BY <1>1, <1>2, InvParts, Replaced
<1>4. /\ PkgOK' /\ unverified' \subseteq Gates /\ stale' \in BOOLEAN
      /\ \A g \in unverified' : ~GW.devops[g] /\ ~disk.devops[g]
      /\ stale' => ~GW.ibp.synthesized /\ ~disk.ibp.synthesized
  BY DEF TrackerInv, TrackerTypeOK, PkgOK, VerifiedSinceEdit, SynthesisFollowsEdit, GW
<1> QED BY <1>1, <1>3, <1>4, InvParts, Assembled

\* A step of either process that saves its IBP tracker only.
LEMMA IbpSaved ==
    ASSUME TrackerInv, NEW p \in Processes, NEW ibp \in Ibp, SaveIbp(p, ibp),
           UNCHANGED <<pkg, calls, unverified>>, stale' \in BOOLEAN,
           stale' => stale /\ ~ibp.synthesized
    PROVE  TrackerInv'
<1>1. /\ mem' = [mem EXCEPT ![p] = [devops |-> mem[p].devops, ibp |-> ibp, plm |-> mem[p].plm]]
      /\ disk' = [devops |-> disk.devops, ibp |-> ibp, plm |-> disk.plm]
  BY InvParts, SaveShapes
<1>2. [devops |-> mem[p].devops, ibp |-> ibp, plm |-> mem[p].plm] \in Trackers
  BY InvParts DEF Trackers
<1>3. /\ mem' \in [Processes -> Trackers]
      /\ p = "gateway" => GW' = [devops |-> GW.devops, ibp |-> ibp, plm |-> GW.plm]
      /\ p # "gateway" => GW' = GW
  BY <1>1, <1>2, InvParts, Replaced DEF GW
<1>4. PICK i \in Ibp : /\ GW' = [devops |-> GW.devops, ibp |-> i, plm |-> GW.plm]
                       /\ stale' => ~i.synthesized
  <2>1. CASE p = "gateway"
    BY <1>3, <2>1
  <2>2. CASE p # "gateway"
    <3>1. GW = [devops |-> GW.devops, ibp |-> GW.ibp, plm |-> GW.plm]
      BY InvParts, Whole
    <3>2. stale => ~GW.ibp.synthesized
      BY DEF TrackerInv, SynthesisFollowsEdit, GW
    <3> QED BY <1>3, <2>2, <3>1, <3>2, InvParts
  <2> QED BY <2>1, <2>2
<1>5. /\ PkgOK' /\ unverified' \subseteq Gates
      /\ \A g \in unverified' : ~GW.devops[g] /\ ~disk.devops[g]
      /\ calls' \in [Submissions -> Submission]
  BY DEF TrackerInv, TrackerTypeOK, PkgOK, VerifiedSinceEdit, GW
<1>6. \A c \in Submissions : Known(calls'[c], GW.plm)
  BY InvParts
<1> QED BY <1>1, <1>3, <1>4, <1>5, <1>6, InvParts, Assembled

\* A step that opens one of the three gates.
LEMMA GateVerified ==
    ASSUME TrackerInv, NEW g \in Gates, Keep([GW EXCEPT !.devops[g] = TRUE]),
           unverified' = unverified \ {g}, UNCHANGED <<pkg, stale>>,
           calls' \in [Submissions -> Submission],
           \A c \in Submissions : Known(calls'[c], GW.plm)
    PROVE  TrackerInv'
<1> DEFINE devops == [GW.devops EXCEPT ![g] = TRUE]
           kept == [devops |-> devops, ibp |-> GW.ibp, plm |-> GW.plm]
<1>1. devops \in Devops /\ devops[g] = TRUE /\ \A h \in Gates \ {g} : devops[h] = GW.devops[h]
  BY InvParts DEF Devops
<1>2. [GW EXCEPT !.devops[g] = TRUE] = kept
  <2>1. ASSUME NEW t \in Trackers, NEW d
        PROVE  [t EXCEPT !.devops = d] = [devops |-> d, ibp |-> t.ibp, plm |-> t.plm]
    BY Whole DEF Trackers
  <2>2. [GW EXCEPT !.devops[g] = TRUE] = [GW EXCEPT !.devops = devops]
    OBVIOUS
  <2> HIDE DEF devops
  <2> QED BY <2>1, <2>2, InvParts
<1> HIDE DEF devops
<1>3. kept \in Trackers
  BY <1>1, InvParts DEF Trackers
<1>4. mem' = [mem EXCEPT !["gateway"] = kept] /\ disk' = kept
  BY <1>2 DEF Keep
<1>5. mem' \in [Processes -> Trackers] /\ GW' = kept
  BY <1>3, <1>4, InvParts, Replaced
<1>6. /\ PkgOK' /\ unverified' \subseteq Gates /\ stale' \in BOOLEAN
      /\ \A h \in unverified' : ~devops[h]
      /\ stale' => ~GW.ibp.synthesized
  BY <1>1 DEF TrackerInv, TrackerTypeOK, PkgOK, VerifiedSinceEdit, SynthesisFollowsEdit, GW
<1> QED BY <1>1, <1>4, <1>5, <1>6, InvParts, Assembled

\* A context with every gate open is taken when every gate is open.
LEMMA ContextIsNow ==
    ASSUME TrackerInv, NEW sub \in Subagents \cup {"none"}
    PROVE  LET ctx == ContextNow(sub) IN
           /\ ctx \in Context
           /\ ContextOpen(ctx) => GatesOpenNow
           /\ ctx.version = GW.plm.version /\ ctx.changelog = GW.plm.changelog
<1>1. /\ \A g \in Gates : GW.devops[g] \in BOOLEAN
      /\ GW.ibp.synthesized \in BOOLEAN
      /\ GW.plm.requirement \in {"null", "set"} /\ GW.plm.tests \in BOOLEAN
      /\ GW.plm.drift \in BOOLEAN /\ GW.plm.driftVerified \in BOOLEAN
      /\ GW.plm.version \in BOOLEAN /\ GW.plm.changelog \in BOOLEAN
      /\ GW.plm.aligned \in BOOLEAN
  BY InvParts DEF Devops, Ibp, Plm
<1>2. Exhausted(GW.ibp) \in BOOLEAN
  BY DEF Exhausted
<1>3. SubagentStatus(GW.ibp, sub) \in {"absent", "aligned", "overspent"}
  BY DEF SubagentStatus
<1>4. (GW.plm.directives > 0) \in BOOLEAN
  BY InvParts DEF Plm
<1>5. ContextNow(sub) \in Context
  BY <1>1, <1>2, <1>3, <1>4 DEF ContextNow, Context, Gates
<1>6. ContextOpen(ContextNow(sub)) => GatesOpenNow
  BY DEF ContextOpen, ContextNow, GatesOpenNow, Gates
<1>7. /\ ContextNow(sub).version = GW.plm.version
      /\ ContextNow(sub).changelog = GW.plm.changelog
  BY DEF ContextNow
<1> QED BY <1>5, <1>6, <1>7

LEMMA TakeContextKeepsInv ==
    ASSUME TrackerInv, NEW c \in Submissions, TakeContext(c)
    PROVE  TrackerInv'
<1> DEFINE context == ContextNow(calls[c].sub)
           open == GatesOpenNow
           new == [calls[c] EXCEPT !.pc = "decide", !.context = context, !.opened = open]
<1>1. /\ calls[c] \in Submission /\ calls[c].sub \in Subagents \cup {"none"}
      /\ calls \in [Submissions -> Submission]
  BY InvParts DEF Submission, TrackerInv, TrackerTypeOK
<1>2. /\ context \in Context
      /\ ContextOpen(context) => open
      /\ context.version = GW.plm.version /\ context.changelog = GW.plm.changelog
  BY <1>1, ContextIsNow
<1>3. open \in BOOLEAN
  BY InvParts DEF GatesOpenNow, Devops, Ibp, Plm, Trackers
<1>4. calls' = [calls EXCEPT ![c] = new] /\ calls[c].pc = "context"
  BY <1>1 DEF TakeContext
<1> HIDE DEF context, open
<1>5. /\ new \in Submission /\ new.pc = "decide" /\ new.kind = calls[c].kind
      /\ new.bumped = calls[c].bumped /\ new.context = context /\ new.opened = open
  BY <1>1, <1>2, <1>3 DEF Submission
<1>6. Known(calls[c], GW.plm)
  BY InvParts
<1> HIDE DEF new
<1>7. Known(new, GW.plm)
  <2> SUFFICES ASSUME Releasing(new.kind)
               PROVE  /\ Recorded(GW.plm, new.bumped)
                      /\ ContextOpen(new.context) => new.opened
                      /\ new.context.version => "package" \in new.bumped
                      /\ new.context.changelog => "changelog" \in new.bumped
    BY DEF Known
  <2>1. Recorded(GW.plm, new.bumped)
    BY <1>4, <1>5, <1>6 DEF Known
  <2>2. ContextOpen(new.context) => new.opened
    BY <1>2, <1>5
  <2>3. /\ new.context.version => "package" \in new.bumped
        /\ new.context.changelog => "changelog" \in new.bumped
    <3>1. /\ GW.plm.version => "package" \in new.bumped
          /\ GW.plm.changelog => "changelog" \in new.bumped
      BY <2>1 DEF Recorded
    <3> QED BY <1>2, <1>5, <3>1, Zenon
  <2> QED BY <2>1, <2>2, <2>3
<1>8. calls' \in [Submissions -> Submission] /\ \A d \in Submissions : Known(calls'[d], GW.plm)
  BY <1>1, <1>4, <1>5, <1>7, InvParts
<1> QED BY <1>8, TrackersStay DEF TakeContext

LEMMA EditKeepsInv ==
    ASSUME TrackerInv, NEW c \in Submissions, NEW bump \in BOOLEAN, EditAccepted(c, bump)
    PROVE  TrackerInv'
<1> DEFINE kind == calls[c].kind
           named == calls[c].named
           invalid == InvalidatesSynthesis(kind, named)
           version == IF bump THEN ~pkg.current ELSE pkg.current
           fresh == ~version \in pkg.seen["gateway"]
           devops == [g \in Gates |-> FALSE]
           ibp == [GW.ibp EXCEPT !.synthesized = @ /\ ~invalid]
           plm == IF named = "plain" THEN Modified(GW.plm, kind, fresh) ELSE GW.plm
           kept == [devops |-> devops, ibp |-> ibp, plm |-> plm]
           released == IF named = "plain" THEN {kind} \cap {"package", "changelog"} ELSE {}
<1>1. kind \in Edits /\ fresh \in BOOLEAN /\ calls \in [Submissions -> Submission]
  BY DEF EditAccepted, TrackerInv, TrackerTypeOK
<1>2. /\ plm \in Plm /\ Consistent(plm)
      /\ \A b : Recorded(GW.plm, b) => Recorded(plm, b \cup released)
  <2>1. CASE named = "plain"
    BY <1>1, <2>1, InvParts, PlmEdits
  <2>2. CASE named # "plain"
    <3>1. plm = GW.plm /\ released = {}
      BY <2>2
    <3> HIDE DEF plm, released
    <3>2. \A b : b \cup released = b
      BY <3>1
    <3> QED BY <3>1, <3>2, InvParts
  <2> QED BY <2>1, <2>2
<1>3. /\ ibp \in Ibp
      /\ ibp.synthesized = (GW.ibp.synthesized /\ ~invalid)
  <2> DEFINE s == GW.ibp.synthesized /\ ~invalid
  <2>1. s \in BOOLEAN
    OBVIOUS
  <2>2. ibp = [GW.ibp EXCEPT !.synthesized = s]
    OBVIOUS
  <2> HIDE DEF s, ibp
  <2>3. ibp \in Ibp /\ ibp.synthesized = s
    BY <2>1, <2>2, InvParts DEF Ibp
  <2> QED BY <2>3 DEF s
<1>4. devops \in Devops /\ \A g \in Gates : ~devops[g]
  BY DEF Devops
<1>5. mem' = [mem EXCEPT !["gateway"] = kept] /\ disk' = kept
  BY DEF EditAccepted, Keep
<1>6. PkgOK'
  <2>1. version \in BOOLEAN /\ pkg \in [current : BOOLEAN, seen : [Processes -> SUBSET BOOLEAN]]
    BY DEF TrackerInv, TrackerTypeOK
  <2>2. \/ pkg' = [current |-> version, seen |-> [pkg.seen EXCEPT !["gateway"] = {version}]]
        \/ pkg' = [current |-> version, seen |-> pkg.seen]
        \/ pkg' = pkg
    BY DEF EditAccepted, Versioned
  <2> HIDE DEF version
  <2> QED BY <2>1, <2>2 DEF PkgOK
<1>7. unverified' = Gates /\ stale' = (stale \/ invalid)
  BY DEF EditAccepted, InvalidatesSynthesis
<1>8. \A d \in Submissions :
          \/ calls'[d] = NoSubmission
          \/ calls'[d] = calls[d] /\ calls[d].pc = "idle"
          \/ calls'[d] = [calls[d] EXCEPT !.bumped = @ \cup released]
  BY DEF EditAccepted
<1>9. calls' = [d \in Submissions |-> calls'[d]]
  BY DEF EditAccepted
<1> HIDE DEF kind, named, invalid, fresh, devops, ibp, plm, released
<1>10. kept \in Trackers
  BY <1>2, <1>3, <1>4 DEF Trackers
<1>11. mem' \in [Processes -> Trackers] /\ GW' = kept
  BY <1>5, <1>10, InvParts, Replaced
<1>12. released \subseteq {"package", "changelog"}
  BY DEF released
<1>13. ASSUME NEW d \in Submissions
       PROVE  calls'[d] \in Submission /\ Known(calls'[d], plm)
  <2>1. calls[d] \in Submission /\ Known(calls[d], GW.plm)
    BY InvParts
  <2>2. CASE calls'[d] = NoSubmission
    BY <2>2, IdleKnown
  <2>3. CASE calls'[d] = calls[d] /\ calls[d].pc = "idle"
    BY <2>1, <2>3 DEF Known
  <2>4. CASE calls'[d] = [calls[d] EXCEPT !.bumped = @ \cup released]
    <3> DEFINE more == calls[d].bumped \cup released
    <3>1. more \in SUBSET {"package", "changelog"}
      BY <1>12, <2>1 DEF Submission
    <3>2. calls'[d] = [calls[d] EXCEPT !.bumped = more]
      BY <2>4
    <3>3. Recorded(GW.plm, calls[d].bumped) => Recorded(plm, more)
      BY <1>2
    <3>4. calls[d].bumped \subseteq more
      OBVIOUS
    <3> HIDE DEF more
    <3>5. /\ calls'[d] \in Submission /\ calls'[d].bumped = more
          /\ calls'[d].pc = calls[d].pc /\ calls'[d].kind = calls[d].kind
          /\ calls'[d].context = calls[d].context /\ calls'[d].opened = calls[d].opened
      BY <2>1, <3>1, <3>2 DEF Submission
    <3> QED BY <2>1, <3>3, <3>4, <3>5 DEF Known
  <2> QED BY <1>8, <2>2, <2>3, <2>4
<1>14. /\ stale' \in BOOLEAN
       /\ stale' => ~ibp.synthesized
  BY <1>3, <1>7 DEF TrackerInv, TrackerTypeOK, SynthesisFollowsEdit, GW
<1>15. calls' \in [Submissions -> Submission]
  BY <1>9, <1>13
<1> QED BY <1>2, <1>3, <1>4, <1>5, <1>6, <1>7, <1>11, <1>13, <1>14, <1>15, Assembled

LEMMA ReleaseKeepsInv ==
    ASSUME TrackerInv, NEW c \in Submissions, ReleaseAccepted(c)
    PROVE  TrackerInv'
<1> DEFINE plm == Attempted(GW.plm)
<1>1. /\ plm \in Plm /\ Consistent(plm)
      /\ \A b : Recorded(GW.plm, b) => Recorded(plm, b)
  BY InvParts, PlmOperations
<1>2. /\ SavePlm(plm) /\ UNCHANGED <<pkg, unverified, stale>>
      /\ calls' = [calls EXCEPT ![c] = NoSubmission]
  BY DEF ReleaseAccepted
<1> HIDE DEF plm
<1>3. \A d \in Submissions : Known(calls[d], plm)
  BY <1>1, InvParts, KnownStays
<1>4. calls \in [Submissions -> Submission]
  BY DEF TrackerInv, TrackerTypeOK
<1>5. calls' \in [Submissions -> Submission] /\ \A d \in Submissions : Known(calls'[d], plm)
  BY <1>2, <1>3, <1>4, EndKnown
<1> QED BY <1>1, <1>2, <1>5, PlmSaved

LEMMA SubmissionKeepsInv ==
    ASSUME TrackerInv, NEW c \in Submissions,
           SubmissionStep(c, Kinds, Names, Subagents \cup {"none"})
    PROVE  TrackerInv'
<1>1. calls \in [Submissions -> Submission] /\ \A d \in Submissions : Known(calls[d], GW.plm)
  BY InvParts DEF TrackerInv, TrackerTypeOK
<1>2. ASSUME calls' = [calls EXCEPT ![c] = NoSubmission]
      PROVE  /\ calls' \in [Submissions -> Submission]
             /\ \A d \in Submissions : Known(calls'[d], GW.plm)
  BY <1>1, <1>2, EndKnown
<1>3. CASE Refused(c) \/ Authorize(c)
  BY <1>2, <1>3, TrackersStay DEF Refused, Authorize
<1>4. CASE CheckAccepted(c)
  <2> DEFINE g == IF calls[c].kind = "ci" THEN "pipeline" ELSE "ham"
  <2>1. /\ g \in Gates /\ Keep([GW EXCEPT !.devops[g] = TRUE])
        /\ unverified' = unverified \ {g} /\ UNCHANGED <<pkg, stale>>
        /\ calls' = [calls EXCEPT ![c] = NoSubmission]
    BY <1>4 DEF CheckAccepted, Gates
  <2> HIDE DEF g
  <2> QED BY <1>2, <2>1, GateVerified
<1> QED BY <1>3, <1>4, SubmitKeepsInv, TakeContextKeepsInv, EditKeepsInv, ReleaseKeepsInv
        DEF SubmissionStep

LEMMA RouteKeepsInv ==
    ASSUME TrackerInv, NEW plm \in Plm, PlmRoute(plm), Consistent(plm),
           \A b : Recorded(GW.plm, b) => Recorded(plm, b)
    PROVE  TrackerInv'
<1>1. calls' \in [Submissions -> Submission] /\ \A d \in Submissions : Known(calls'[d], plm)
  BY InvParts, KnownStays DEF PlmRoute, TrackerInv, TrackerTypeOK
<1> QED BY <1>1, PlmSaved DEF PlmRoute

LEMMA PlmRoutesKeepInv ==
    ASSUME TrackerInv, SetRequirement \/ VerifyDrift \/ FeedbackStep
    PROVE  TrackerInv'
<1>1. CASE SetRequirement
  BY <1>1, InvParts, PlmOperations, RouteKeepsInv DEF SetRequirement
<1>2. CASE VerifyDrift
  <2> DEFINE plm == [GW.plm EXCEPT !.driftVerified = TRUE]
  <2>1. /\ plm \in Plm /\ Consistent(plm)
        /\ \A b : Recorded(GW.plm, b) => Recorded(plm, b)
    BY InvParts, PlmFeedback
  <2>2. PlmRoute(plm)
    BY <1>2 DEF VerifyDrift
  <2> HIDE DEF plm
  <2> QED BY <2>1, <2>2, RouteKeepsInv
<1>3. CASE AlignFeedback
  BY <1>3, InvParts, PlmOperations, RouteKeepsInv DEF AlignFeedback
<1>4. ASSUME NEW severity, AddFeedback(severity)
      PROVE  TrackerInv'
  BY <1>4, InvParts, PlmFeedback, RouteKeepsInv DEF AddFeedback
<1> QED BY <1>1, <1>2, <1>3, <1>4 DEF FeedbackStep

LEMMA SynthesizeKeepsInv ==
    ASSUME TrackerInv, NEW p \in Processes, Synthesize(p)
    PROVE  TrackerInv'
<1> DEFINE ibp == [mem[p].ibp EXCEPT !.synthesized = TRUE]
<1>1. mem[p].ibp \in Ibp
  BY InvParts DEF Trackers
<1>2. ibp \in Ibp
  BY <1>1 DEF Ibp
<1> QED BY <1>2, IbpSaved DEF Synthesize

LEMMA ToolEditKeepsInv ==
    ASSUME TrackerInv, ToolEdit
    PROVE  TrackerInv'
<1> DEFINE ibp == [mem["tools"].ibp EXCEPT !.synthesized = FALSE]
<1>1. mem["tools"].ibp \in Ibp
  BY InvParts DEF Trackers
<1>2. ibp \in Ibp /\ ~ibp.synthesized
  BY <1>1 DEF Ibp
<1>3. SaveIbp("tools", ibp) /\ UNCHANGED <<pkg, calls, unverified, stale>>
  BY DEF ToolEdit
<1>4. stale' = stale /\ stale \in BOOLEAN
  BY <1>3 DEF TrackerInv, TrackerTypeOK
<1> HIDE DEF ibp
<1> QED BY <1>2, <1>3, <1>4, InvParts, IbpSaved

LEMMA ResetKeepsInv ==
    ASSUME TrackerInv, ResetTrackers
    PROVE  TrackerInv'
<1> DEFINE ibp == ClearedIbp(GW.ibp)
           kept == [devops |-> GW.devops, ibp |-> ibp, plm |-> ClearedPlm]
           both == {"package", "changelog"}
<1>1. ibp \in Ibp
  <2>1. GW.ibp.budget \in Nat /\ NewIbp \in Ibp
    BY InvParts, TrackerAssumption DEF Ibp, NewIbp
  <2> QED BY <2>1 DEF ClearedIbp, Ibp
<1>2. ClearedPlm \in Plm /\ Consistent(ClearedPlm) /\ Recorded(ClearedPlm, both)
  BY InvParts, PlmOperations
<1>3. SaveIbpPlm(ibp, ClearedPlm) /\ stale' = FALSE /\ UNCHANGED <<pkg, unverified>>
  BY DEF ResetTrackers
<1> HIDE DEF ibp
<1>4. /\ mem' = [mem EXCEPT !["gateway"] = kept]
      /\ disk' = [devops |-> disk.devops, ibp |-> ibp, plm |-> ClearedPlm]
  BY <1>1, <1>2, <1>3, InvParts, SaveShapes
<1>5. kept \in Trackers
  BY <1>1, <1>2, InvParts DEF Trackers
<1>6. mem' \in [Processes -> Trackers] /\ GW' = kept
  BY <1>4, <1>5, InvParts, Replaced
<1>7. ASSUME NEW c \in Submissions
      PROVE  calls'[c] \in Submission /\ Known(calls'[c], ClearedPlm)
  <2>1. calls[c] \in Submission
    BY InvParts
  <2>2. CASE calls[c].pc = "idle"
    BY <2>1, <2>2 DEF ResetTrackers, Known
  <2>3. CASE calls[c].pc # "idle"
    <3>1. calls'[c] = [calls[c] EXCEPT !.bumped = both]
      BY <2>3 DEF ResetTrackers
    <3>2. Known(calls[c], GW.plm)
      BY InvParts
    <3>3. /\ calls'[c] \in Submission /\ calls'[c].bumped = both
          /\ calls'[c].pc = calls[c].pc /\ calls'[c].kind = calls[c].kind
          /\ calls'[c].context = calls[c].context /\ calls'[c].opened = calls[c].opened
      BY <2>1, <3>1 DEF Submission
    <3> QED BY <1>2, <3>2, <3>3 DEF Known
  <2> QED BY <2>2, <2>3
<1>8. calls' \in [Submissions -> Submission]
  <2>1. calls' = [c \in Submissions |-> calls'[c]]
    BY DEF ResetTrackers
  <2> QED BY <1>7, <2>1
<1>9. /\ PkgOK' /\ unverified' \subseteq Gates /\ stale' \in BOOLEAN /\ ~stale'
      /\ \A g \in unverified' : ~GW.devops[g] /\ ~disk.devops[g]
  BY <1>3 DEF TrackerInv, TrackerTypeOK, PkgOK, VerifiedSinceEdit, GW
<1> QED BY <1>1, <1>2, <1>4, <1>6, <1>7, <1>8, <1>9, InvParts, Assembled

LEMMA RestartKeepsInv ==
    ASSUME TrackerInv, NEW p \in Processes, Restart(p)
    PROVE  TrackerInv'
<1>1. /\ mem' = [mem EXCEPT ![p] = disk] /\ disk' = disk
      /\ UNCHANGED <<unverified, stale>>
  BY DEF Restart
<1>2. /\ mem' \in [Processes -> Trackers]
      /\ p = "gateway" => GW' = disk
      /\ p # "gateway" => GW' = GW
  BY <1>1, InvParts, Replaced
<1>3. /\ GW = [devops |-> GW.devops, ibp |-> GW.ibp, plm |-> GW.plm]
      /\ disk = [devops |-> disk.devops, ibp |-> disk.ibp, plm |-> disk.plm]
  BY InvParts, Whole
<1>4. PkgOK'
  <2>1. pkg \in [current : BOOLEAN, seen : [Processes -> SUBSET BOOLEAN]]
    BY DEF TrackerInv, TrackerTypeOK
  <2>2. pkg' = [pkg EXCEPT !.seen[p] = {}]
    BY DEF Restart
  <2> QED BY <2>1, <2>2 DEF PkgOK
<1>5. /\ unverified' \subseteq Gates /\ stale' \in BOOLEAN
      /\ \A g \in unverified' : ~GW.devops[g] /\ ~disk.devops[g]
      /\ stale' => ~GW.ibp.synthesized /\ ~disk.ibp.synthesized
  BY <1>1 DEF TrackerInv, TrackerTypeOK, VerifiedSinceEdit, SynthesisFollowsEdit, GW
<1>6. CASE p = "gateway"
  <2>1. calls' = [c \in Submissions |-> NoSubmission]
    BY <1>6 DEF Restart
  <2>2. calls' \in [Submissions -> Submission] /\ \A c \in Submissions : Known(calls'[c], disk.plm)
    BY <2>1, IdleKnown
  <2> QED BY <1>1, <1>2, <1>3, <1>4, <1>5, <1>6, <2>2, InvParts, Assembled
<1>7. CASE p # "gateway"
  <2>1. calls' \in [Submissions -> Submission] /\ \A c \in Submissions : Known(calls'[c], GW.plm)
    BY <1>7, InvParts DEF Restart, TrackerInv, TrackerTypeOK
  <2> QED BY <1>1, <1>2, <1>3, <1>4, <1>5, <1>7, <2>1, InvParts, Assembled
<1> QED BY <1>6, <1>7

---------------------------------------------------------------------------
(* The theorems about the trackers *)

LEMMA TrackerInitInv == TrackerInit => TrackerInv
<1> SUFFICES ASSUME TrackerInit
             PROVE  TrackerInv
  OBVIOUS
<1>1. NewDevops \in Devops /\ NewIbp \in Ibp /\ NewPlm \in Plm
  BY TrackerAssumption DEF NewDevops, Devops, NewIbp, Ibp, NewPlm, Plm
<1>2. FirstTrackers \in Trackers /\ Consistent(FirstTrackers.plm)
  BY <1>1 DEF FirstTrackers, Trackers, Consistent, NewPlm
<1>3. GW = FirstTrackers /\ disk = FirstTrackers /\ mem["gateway"] = FirstTrackers
  BY DEF TrackerInit, GW, Processes
<1>4. TrackerTypeOK
  BY <1>2, IdleKnown DEF TrackerInit, TrackerTypeOK
<1>5. VerifiedSinceEdit /\ SynthesisFollowsEdit
  BY DEF TrackerInit, VerifiedSinceEdit, SynthesisFollowsEdit
<1>6. PlmConsistent
  BY <1>2, <1>3 DEF PlmConsistent, Consistent
<1>7. ReleaseInv
  BY IdleKnown DEF TrackerInit, ReleaseInv
<1> QED BY <1>4, <1>5, <1>6, <1>7 DEF TrackerInv

LEMMA TrackerNextKeepsInv == TrackerInv /\ [TrackerNext]_trackerVars => TrackerInv'
<1> SUFFICES ASSUME TrackerInv, [TrackerNext]_trackerVars
             PROVE  TrackerInv'
  OBVIOUS
<1>1. CASE UNCHANGED trackerVars
  BY <1>1, InvParts, TrackersStay DEF trackerVars, TrackerInv, TrackerTypeOK
<1>2. ASSUME NEW high \in BOOLEAN, ReportFindings(high)
      PROVE  TrackerInv'
  <2>1. calls' \in [Submissions -> Submission] /\ \A c \in Submissions : Known(calls'[c], GW.plm)
    BY <1>2, InvParts DEF ReportFindings, TrackerInv, TrackerTypeOK
  <2>2. CASE high
    BY <1>2, <2>1, <2>2, TrackersStay DEF ReportFindings
  <2>3. CASE ~high
    BY <1>2, <2>1, <2>3, GateVerified DEF ReportFindings, Gates
  <2> QED BY <2>2, <2>3
<1> QED BY <1>1, <1>2, InvParts, SubmissionKeepsInv, PlmRoutesKeepInv, SynthesizeKeepsInv,
           ToolEditKeepsInv, ResetKeepsInv, RestartKeepsInv DEF TrackerNext, ToolServerStep

LEMMA TrackerInvHolds == TrackerSpec => []TrackerInv
BY TrackerInitInv, TrackerNextKeepsInv, PTL DEF TrackerSpec

\* Every tracker, file and submission keeps its type, whatever the two processes
\* do and however often they restart.
THEOREM TrackerTypesHold == TrackerSpec => []TrackerTypeOK
<1>1. TrackerInv => TrackerTypeOK
  BY DEF TrackerInv
<1> QED BY <1>1, TrackerInvHolds, PTL

\* onFileModified closes the three gates of the DevOps tracker, and only a
\* verification made since opens one, in memory and in the file.
THEOREM GatesVerifiedSinceEdit == TrackerSpec => []VerifiedSinceEdit
<1>1. TrackerInv => VerifiedSinceEdit
  BY DEF TrackerInv
<1> QED BY <1>1, TrackerInvHolds, PTL

\* Once invalidateSynthesis was called, which is for the paths the trackers
\* compare in the arguments, it holds until a synthesis: the tool server, which
\* saves the same file from a memory of its own, never opens the gateway's gate.
THEOREM SynthesisAfterEdit == TrackerSpec => []SynthesisFollowsEdit
<1>1. TrackerInv => SynthesisFollowsEdit
  BY DEF TrackerInv
<1> QED BY <1>1, TrackerInvHolds, PTL

\* The test gate follows the files of the requirement and the alignment follows
\* the directives, over edits, routes, resets and restarts.
THEOREM PlmStaysConsistent == TrackerSpec => []PlmConsistent
<1>1. TrackerInv => PlmConsistent
  BY DEF TrackerInv
<1> QED BY <1>1, TrackerInvHolds, PTL

\* evaluateCedarPolicy, whichever evaluator answers, passes a release only with
\* every gate open at the moment its context was built, and a publish only with
\* the two release files modified.
THEOREM ReleasesAreGated == TrackerSpec => []ReleasesWereGated
<1>1. TrackerInv => ReleasesWereGated
  <2> SUFFICES ASSUME TrackerInv, NEW c \in Submissions, Passes(c), Releasing(calls[c].kind)
               PROVE  /\ calls[c].opened
                      /\ calls[c].kind = "publish" => calls[c].bumped = {"package", "changelog"}
    BY DEF ReleasesWereGated, Releasing
  <2>1. calls[c] \in Submission /\ Known(calls[c], GW.plm) /\ calls[c].pc = "decide"
    BY InvParts DEF Passes
  <2>2. /\ ContextOpen(calls[c].context)
        /\ calls[c].kind = "publish" => calls[c].context.version /\ calls[c].context.changelog
    BY <2>1, PassedReleases DEF Passes, Submission
  <2>3. calls[c].bumped \subseteq {"package", "changelog"}
    BY <2>1 DEF Submission
  <2> QED BY <2>1, <2>2, <2>3 DEF Known
<1> QED BY <1>1, TrackerInvHolds, PTL

---------------------------------------------------------------------------
(* What the subagents consumed against what the session did *)

\* SubagentTotalsAddUp of one IBP tracker; Cardinality counts finite sets only.
AddsUp(ibp) == IsFiniteSet(Spent(ibp)) /\ Cardinality(Spent(ibp)) <= ibp.consumed

TotalsInv == (\A p \in Processes : AddsUp(mem[p].ibp)) /\ AddsUp(disk.ibp)

LEMMA SameTotals ==
    ASSUME NEW ibp, NEW next, next.subs = ibp.subs, next.consumed = ibp.consumed, AddsUp(ibp)
    PROVE  AddsUp(next)
BY DEF AddsUp, Spent

LEMMA NothingSpent ==
    ASSUME NEW ibp \in Ibp, \A s \in Subagents : ibp.subs[s].consumed = 0
    PROVE  AddsUp(ibp)
<1>1. Spent(ibp) = {}
  BY DEF Spent
<1>2. ibp.consumed \in Nat
  BY DEF Ibp
<1> QED BY <1>1, <1>2, FS_EmptySet DEF AddsUp

\* recordTokenUsage counts a token, recordSubagentTokenUsage at most that one.
LEMMA ChargeAddsUp ==
    ASSUME NEW ibp \in Ibp, NEW sub \in Subagents \cup {"none"}, AddsUp(ibp)
    PROVE  AddsUp(Charge(ibp, sub))
<1> DEFINE next == Charge(ibp, sub)
           token == <<sub, ibp.subs[sub].consumed + 1>>
<1>1. /\ next.consumed = ibp.consumed + 1 /\ ibp.consumed \in Nat
      /\ \A s \in Subagents : /\ ibp.subs[s].consumed \in Nat
                              /\ next.subs[s].consumed = IF s = sub THEN ibp.subs[s].consumed + 1
                                                         ELSE ibp.subs[s].consumed
  BY DEF Charge, Ibp
<1> HIDE DEF next
<1>2. Spent(next) \subseteq Spent(ibp) \cup {token}
  <2> SUFFICES ASSUME NEW s \in Subagents, NEW n \in 1..next.subs[s].consumed
               PROVE  <<s, n>> \in Spent(ibp) \cup {token}
    BY DEF Spent
  <2>1. n \in 1..ibp.subs[s].consumed \/ (s = sub /\ n = ibp.subs[s].consumed + 1)
    BY <1>1
  <2>2. CASE n \in 1..ibp.subs[s].consumed
    <3>1. <<s, n>> \in {s} \X (1..ibp.subs[s].consumed)
      BY <2>2
    <3> QED BY <3>1 DEF Spent
  <2>3. CASE s = sub /\ n = ibp.subs[s].consumed + 1
    BY <2>3
  <2> QED BY <2>1, <2>2, <2>3
<1> HIDE DEF token
<1>3. /\ IsFiniteSet(Spent(ibp) \cup {token})
      /\ Cardinality(Spent(ibp) \cup {token}) <= Cardinality(Spent(ibp)) + 1
  <2>1. IsFiniteSet(Spent(ibp)) /\ Cardinality(Spent(ibp)) \in Nat
    BY FS_CardinalityType DEF AddsUp
  <2>2. /\ IsFiniteSet(Spent(ibp) \cup {token})
        /\ Cardinality(Spent(ibp) \cup {token}) =
              IF token \in Spent(ibp) THEN Cardinality(Spent(ibp)) ELSE Cardinality(Spent(ibp)) + 1
    BY <2>1, FS_AddElement
  <2> QED BY <2>1, <2>2
<1>4. IsFiniteSet(Spent(next)) /\ Cardinality(Spent(next)) <= Cardinality(Spent(ibp) \cup {token})
  BY <1>2, <1>3, FS_Subset
<1>5. Cardinality(Spent(next)) \in Nat /\ Cardinality(Spent(ibp)) \in Nat
      /\ Cardinality(Spent(ibp) \cup {token}) \in Nat
  BY <1>3, <1>4, FS_CardinalityType DEF AddsUp
<1> QED BY <1>1, <1>3, <1>4, <1>5 DEF AddsUp, next

\* One process saves an IBP tracker that adds up.
LEMMA TotalsSaved ==
    ASSUME TrackerInv, TotalsInv, NEW p \in Processes, NEW t \in Trackers, AddsUp(t.ibp),
           mem' = [mem EXCEPT ![p] = t], AddsUp(disk'.ibp)
    PROVE  TotalsInv'
BY InvParts DEF TotalsInv

LEMMA SubmitKeepsTotals ==
    ASSUME TrackerInv, TotalsInv, NEW c \in Submissions, NEW kind \in Kinds, NEW named \in Names,
           NEW receipt \in BOOLEAN, NEW sub \in Subagents \cup {"none"},
           Submit(c, kind, named, receipt, sub)
    PROVE  TotalsInv'
<1>1. PICK plm \in Plm : SaveIbpPlm(Charge(GW.ibp, sub), plm)
  BY InvParts, PlmOperations DEF Submit
<1>2. PICK ibp \in Ibp : ibp = Charge(GW.ibp, sub) /\ AddsUp(ibp)
  BY InvParts, ChargeTypes, ChargeAddsUp DEF TotalsInv, GW
<1> DEFINE t == [devops |-> GW.devops, ibp |-> ibp, plm |-> plm]
<1>3. mem' = [mem EXCEPT !["gateway"] = t] /\ disk' = [devops |-> disk.devops, ibp |-> ibp, plm |-> plm]
  BY <1>1, <1>2, InvParts, SaveShapes
<1>4. t \in Trackers
  BY InvParts DEF Trackers
<1> QED BY <1>2, <1>3, <1>4, InvParts, TotalsSaved

\* Steps that keep the two counters of the gateway.
LEMMA PlmKeepsTotals ==
    ASSUME TrackerInv, TotalsInv, NEW plm \in Plm, SavePlm(plm)
    PROVE  TotalsInv'
<1> DEFINE t == [devops |-> GW.devops, ibp |-> GW.ibp, plm |-> plm]
<1>1. /\ mem' = [mem EXCEPT !["gateway"] = t]
      /\ disk' = [devops |-> disk.devops, ibp |-> disk.ibp, plm |-> plm]
  BY InvParts, SaveShapes
<1>2. t \in Trackers
  BY InvParts DEF Trackers
<1>3. AddsUp(GW.ibp) /\ AddsUp(disk.ibp)
  BY InvParts DEF TotalsInv, GW
<1> QED BY <1>1, <1>2, <1>3, InvParts, TotalsSaved

LEMMA KeepKeepsTotals ==
    ASSUME TrackerInv, TotalsInv, NEW t \in Trackers, Keep(t),
           t.ibp.subs = GW.ibp.subs, t.ibp.consumed = GW.ibp.consumed
    PROVE  TotalsInv'
<1>1. mem' = [mem EXCEPT !["gateway"] = t] /\ disk' = t
  BY DEF Keep
<1>2. AddsUp(t.ibp)
  BY InvParts, SameTotals DEF TotalsInv, GW
<1> QED BY <1>1, <1>2, InvParts, TotalsSaved

\* The synthesis gate of either process, saved with the rest of its tracker.
LEMMA SynthesisKeepsTotals ==
    ASSUME TrackerInv, TotalsInv, NEW p \in Processes, NEW open \in BOOLEAN,
           SaveIbp(p, [mem[p].ibp EXCEPT !.synthesized = open])
    PROVE  TotalsInv'
<1>1. PICK ibp : ibp = [mem[p].ibp EXCEPT !.synthesized = open]
  OBVIOUS
<1>2. mem[p] \in Trackers /\ mem[p].ibp \in Ibp
  BY InvParts DEF Trackers
<1>3. ibp \in Ibp /\ ibp.subs = mem[p].ibp.subs /\ ibp.consumed = mem[p].ibp.consumed
  BY <1>1, <1>2 DEF Ibp
<1>4. AddsUp(ibp)
  BY <1>3, SameTotals DEF TotalsInv
<1> DEFINE t == [devops |-> mem[p].devops, ibp |-> ibp, plm |-> mem[p].plm]
<1>5. mem' = [mem EXCEPT ![p] = t] /\ disk' = [devops |-> disk.devops, ibp |-> ibp, plm |-> disk.plm]
  BY <1>1, <1>3, InvParts, SaveShapes
<1>6. t \in Trackers
  BY <1>2, <1>3 DEF Trackers
<1> QED BY <1>4, <1>5, <1>6, TotalsSaved

LEMMA EditKeepsTotals ==
    ASSUME TrackerInv, TotalsInv, NEW c \in Submissions, NEW bump \in BOOLEAN, EditAccepted(c, bump)
    PROVE  TotalsInv'
<1> DEFINE kind == calls[c].kind
           named == calls[c].named
           invalid == InvalidatesSynthesis(kind, named)
<1>1. kind \in Edits
  BY DEF EditAccepted
<1>2. PICK fresh \in BOOLEAN :
          Keep([devops |-> [g \in Gates |-> FALSE],
                ibp |-> [GW.ibp EXCEPT !.synthesized = @ /\ ~invalid],
                plm |-> IF named = "plain" THEN Modified(GW.plm, kind, fresh) ELSE GW.plm])
  BY DEF EditAccepted
<1> HIDE DEF kind, named, invalid
<1>3. PICK open \in BOOLEAN :
          [GW.ibp EXCEPT !.synthesized = @ /\ ~invalid] = [GW.ibp EXCEPT !.synthesized = open]
  <2> DEFINE open == GW.ibp.synthesized /\ ~invalid
  <2>1. open \in BOOLEAN
    OBVIOUS
  <2> QED BY <2>1
<1>4. PICK ibp : ibp = [GW.ibp EXCEPT !.synthesized = open]
  OBVIOUS
<1>5. ibp \in Ibp /\ ibp.subs = GW.ibp.subs /\ ibp.consumed = GW.ibp.consumed
  BY <1>4, InvParts DEF Ibp
<1>6. PICK plm \in Plm :
          plm = IF named = "plain" THEN Modified(GW.plm, kind, fresh) ELSE GW.plm
  BY <1>1, InvParts, PlmEdits
<1>7. PICK devops \in Devops : devops = [g \in Gates |-> FALSE]
  BY DEF Devops
<1> DEFINE t == [devops |-> devops, ibp |-> ibp, plm |-> plm]
<1>8. Keep(t)
  BY <1>2, <1>3, <1>4, <1>6, <1>7
<1>9. t \in Trackers /\ t.ibp = ibp
  BY <1>5 DEF Trackers
<1> HIDE DEF t
<1> QED BY <1>5, <1>8, <1>9, KeepKeepsTotals

LEMMA VerifyingKeepsTotals ==
    ASSUME TrackerInv, TotalsInv, NEW g \in Gates, Keep([GW EXCEPT !.devops[g] = TRUE])
    PROVE  TotalsInv'
<1>1. PICK devops \in Devops : devops = [GW.devops EXCEPT ![g] = TRUE]
  BY InvParts DEF Devops
<1>2. PICK t : t = [GW EXCEPT !.devops = devops]
  OBVIOUS
<1>3. t \in Trackers /\ t.ibp = GW.ibp
  BY <1>2, InvParts DEF Trackers
<1>4. Keep(t)
  BY <1>1, <1>2
<1> QED BY <1>3, <1>4, KeepKeepsTotals

LEMMA ResetKeepsTotals ==
    ASSUME TrackerInv, TotalsInv, ResetTrackers
    PROVE  TotalsInv'
<1>1. PICK ibp : ibp = ClearedIbp(GW.ibp)
  OBVIOUS
<1>2. ibp \in Ibp /\ \A s \in Subagents : ibp.subs[s].consumed = 0
  <2>1. GW.ibp.budget \in Nat /\ NewIbp \in Ibp /\ \A s \in Subagents : NewIbp.subs[s].consumed = 0
    BY InvParts, TrackerAssumption DEF Ibp, NewIbp
  <2> QED BY <1>1, <2>1 DEF ClearedIbp, Ibp
<1>3. SaveIbpPlm(ibp, ClearedPlm) /\ ClearedPlm \in Plm
  BY <1>1, InvParts, PlmOperations DEF ResetTrackers
<1> DEFINE t == [devops |-> GW.devops, ibp |-> ibp, plm |-> ClearedPlm]
<1>4. /\ mem' = [mem EXCEPT !["gateway"] = t]
      /\ disk' = [devops |-> disk.devops, ibp |-> ibp, plm |-> ClearedPlm]
  BY <1>2, <1>3, InvParts, SaveShapes
<1>5. t \in Trackers
  BY <1>2, <1>3, InvParts DEF Trackers
<1> QED BY <1>2, <1>4, <1>5, InvParts, NothingSpent, TotalsSaved

LEMMA PlmRoutesKeepTotals ==
    ASSUME TrackerInv, TotalsInv, SetRequirement \/ VerifyDrift \/ FeedbackStep
    PROVE  TotalsInv'
<1>1. PICK plm \in Plm : SavePlm(plm)
  BY InvParts, PlmOperations, PlmFeedback
     DEF SetRequirement, VerifyDrift, FeedbackStep, AddFeedback, AlignFeedback, PlmRoute
<1> QED BY <1>1, PlmKeepsTotals

LEMMA SubmissionKeepsTotals ==
    ASSUME TrackerInv, TotalsInv, NEW c \in Submissions,
           SubmissionStep(c, Kinds, Names, Subagents \cup {"none"})
    PROVE  TotalsInv'
<1>1. CASE TakeContext(c) \/ Refused(c) \/ Authorize(c)
  BY <1>1 DEF TakeContext, Refused, Authorize, TotalsInv
<1>2. CASE CheckAccepted(c)
  <2>1. PICK g \in Gates : Keep([GW EXCEPT !.devops[g] = TRUE])
    BY <1>2 DEF CheckAccepted, Gates
  <2> QED BY <2>1, VerifyingKeepsTotals
<1>3. CASE ReleaseAccepted(c)
  <2>1. Attempted(GW.plm) \in Plm
    BY InvParts, PlmOperations
  <2> QED BY <1>3, <2>1, PlmKeepsTotals DEF ReleaseAccepted
<1> QED BY <1>1, <1>2, <1>3, SubmitKeepsTotals, EditKeepsTotals DEF SubmissionStep

LEMMA TrackerNextKeepsTotals ==
    TrackerInv /\ TotalsInv /\ [TrackerNext]_trackerVars => TotalsInv'
<1> SUFFICES ASSUME TrackerInv, TotalsInv, [TrackerNext]_trackerVars
             PROVE  TotalsInv'
  OBVIOUS
<1>1. CASE UNCHANGED <<mem, disk>>
  BY <1>1 DEF TotalsInv
<1>2. ASSUME NEW high \in BOOLEAN, ReportFindings(high)
      PROVE  TotalsInv'
  <2>1. CASE high
    BY <1>1, <1>2, <2>1 DEF ReportFindings
  <2>2. CASE ~high
    BY <1>2, <2>2, VerifyingKeepsTotals DEF ReportFindings, Gates
  <2> QED BY <2>1, <2>2
<1>3. ASSUME NEW p \in Processes, Synthesize(p)
      PROVE  TotalsInv'
  BY <1>3, SynthesisKeepsTotals DEF Synthesize
<1>4. CASE ToolEdit
  BY <1>4, InvParts, SynthesisKeepsTotals DEF ToolEdit
<1>5. ASSUME NEW p \in Processes, Restart(p)
      PROVE  TotalsInv'
  <2>1. mem' = [mem EXCEPT ![p] = disk] /\ disk' = disk /\ disk \in Trackers /\ AddsUp(disk.ibp)
    BY <1>5, InvParts DEF Restart, TotalsInv
  <2> QED BY <2>1, TotalsSaved
<1> QED BY <1>1, <1>2, <1>3, <1>4, <1>5, InvParts, SubmissionKeepsTotals, PlmRoutesKeepTotals,
           ResetKeepsTotals DEF TrackerNext, ToolServerStep, trackerVars

\* Whatever recordSubagentTokenUsage counts, recordTokenUsage counted too: no
\* save, restart or reset of either process sets the two apart.
THEOREM SubagentTotals == TrackerSpec => []SubagentTotalsAddUp
<1>1. TrackerInit => TotalsInv
  <2> SUFFICES ASSUME TrackerInit
               PROVE  TotalsInv
    OBVIOUS
  <2>1. NewIbp \in Ibp /\ \A s \in Subagents : NewIbp.subs[s].consumed = 0
    BY TrackerAssumption DEF NewIbp, Ibp
  <2>2. /\ \A p \in Processes : mem[p].ibp = NewIbp
        /\ disk.ibp = NewIbp
    BY DEF TrackerInit, FirstTrackers
  <2> QED BY <2>1, <2>2, NothingSpent DEF TotalsInv
<1>2. TotalsInv => SubagentTotalsAddUp
  BY DEF TotalsInv, AddsUp, SubagentTotalsAddUp
<1> QED BY <1>1, <1>2, TrackerInvHolds, TrackerNextKeepsTotals, PTL DEF TrackerSpec

---------------------------------------------------------------------------
(* The token budget against the approvals stored *)

Stored == {r \in Reviews : reviews[r] # {}}

LEMMA InFlightCounts ==
    /\ IsFiniteSet(Stored) /\ IsFiniteSet(Stored') /\ InFlight \in Nat /\ InFlight' \in Nat
    /\ InFlight = Cardinality(Stored) /\ InFlight' = Cardinality(Stored')
<1>1. Stored \subseteq Reviews /\ Stored' \subseteq Reviews
  BY DEF Stored
<1>2. IsFiniteSet(Stored) /\ IsFiniteSet(Stored')
  BY <1>1, BudgetAssumption, FS_Subset
<1>3. InFlight = Cardinality(Stored) /\ InFlight' = Cardinality(Stored')
  BY DEF InFlight, Stored
<1> QED BY <1>2, <1>3, FS_CardinalityType

\* What the approvals in flight will still add to the budget.
Owing == Amount * InFlight
Granted == Amount * approvals

LEMMA OwingType ==
    ASSUME BudgetTypeOK
    PROVE  Owing \in Nat /\ Owing' \in Nat /\ Granted \in Nat
<1>1. Amount \in Nat /\ approvals \in Nat
  BY BudgetAssumption DEF BudgetTypeOK
<1> QED BY <1>1, InFlightCounts DEF Owing, Granted

LEMMA ApprovalOwes ==
    ASSUME BudgetTypeOK, NEW r \in Reviews, NEW x \in Extensions, ApproveExtension(r, x)
    PROVE  Owing' = Owing + Amount /\ Granted' = Granted + Amount
<1>1. Stored' = Stored \cup {r} /\ r \notin Stored
  BY DEF ApproveExtension, BudgetTypeOK, Stored
<1>2. InFlight' = InFlight + 1
  BY <1>1, InFlightCounts, FS_AddElement
<1>3. approvals' = approvals + 1
  BY DEF ApproveExtension
<1>4. \A a, n \in Nat : a * (n + 1) = a * n + a
  OBVIOUS
<1>5. Amount \in Nat /\ approvals \in Nat
  BY BudgetAssumption DEF BudgetTypeOK
<1> QED BY <1>2, <1>3, <1>4, <1>5, InFlightCounts DEF Owing, Granted

LEMMA RaisingPays ==
    ASSUME BudgetTypeOK, NEW r \in Reviews, RaiseBudget(r)
    PROVE  Owing = Owing' + Amount /\ Granted' = Granted
<1>1. Stored' = Stored \ {r} /\ r \in Stored
  BY DEF RaiseBudget, BudgetTypeOK, Stored
<1>2. Stored = Stored' \cup {r} /\ r \notin Stored'
  BY <1>1
<1>3. InFlight = InFlight' + 1
  BY <1>2, InFlightCounts, FS_AddElement
<1>4. \A a, n \in Nat : a * (n + 1) = a * n + a
  OBVIOUS
<1>5. Amount \in Nat /\ Granted' = Granted
  BY BudgetAssumption DEF RaiseBudget, Granted
<1> QED BY <1>3, <1>4, <1>5, InFlightCounts DEF Owing

LEMMA NothingOwed ==
    ASSUME \A r \in Reviews : reviews'[r] = {}
    PROVE  Owing' = 0
<1>1. Stored' = {}
  BY DEF Stored
<1>2. InFlight' = 0
  BY <1>1, InFlightCounts, FS_EmptySet
<1>3. Amount \in Nat
  BY BudgetAssumption
<1> QED BY <1>2, <1>3 DEF Owing

---------------------------------------------------------------------------

Accounted ==
    /\ \A i \in Copies : budget[i] + Owing <= FirstBudget + Granted
    /\ ~disturbed => budget["gateway"] + Owing = FirstBudget + Granted

LEMMA BudgetNextKeepsTypes ==
    ASSUME BudgetTypeOK, [BudgetNext]_budgetVars
    PROVE  BudgetTypeOK'
<1> USE BudgetAssumption
<1>1. \A i \in Copies : budget[i] \in Nat
  BY DEF BudgetTypeOK
<1>2. ASSUME NEW x \in Extensions, RequestExtension(x) \/ RejectExtension(x)
      PROVE  BudgetTypeOK'
  BY <1>2 DEF RequestExtension, RejectExtension, Created, Rejected, BudgetTypeOK
<1>3. ASSUME NEW r \in Reviews, NEW x \in Extensions, ApproveExtension(r, x)
      PROVE  BudgetTypeOK'
  <2>1. approvals' \in 0..MaxApprovals
    BY <1>3 DEF ApproveExtension, BudgetTypeOK
  <2> QED BY <1>3, <2>1 DEF ApproveExtension, BudgetTypeOK
<1>4. ASSUME NEW r \in Reviews, RaiseBudget(r)
      PROVE  BudgetTypeOK'
  <2>1. budget["gateway"] + Amount \in Nat
    BY <1>1 DEF Copies
  <2>2. budget' \in [Copies -> Nat]
    BY <1>4, <2>1 DEF RaiseBudget, BudgetTypeOK
  <2> QED BY <1>4, <2>2 DEF RaiseBudget, BudgetTypeOK
<1>5. CASE ToolServerSaves
  BY <1>1, <1>5 DEF ToolServerSaves, BudgetTypeOK, Copies
<1>6. ASSUME NEW p \in {"gateway", "tools"}, BudgetRestart(p)
      PROVE  BudgetTypeOK'
  <2>1. reviews' \in [Reviews -> SUBSET Extensions]
    BY <1>6 DEF BudgetRestart, BudgetTypeOK
  <2>2. budget' \in [Copies -> Nat]
    BY <1>1, <1>6 DEF BudgetRestart, BudgetTypeOK, Copies
  <2> QED BY <1>6, <2>1, <2>2 DEF BudgetRestart, BudgetTypeOK
<1>7. CASE ResetExtensions
  BY <1>1, <1>7 DEF ResetExtensions, BudgetTypeOK, Copies
<1>8. CASE UNCHANGED budgetVars
  BY <1>8 DEF budgetVars, BudgetTypeOK
<1> QED BY <1>2, <1>3, <1>4, <1>5, <1>6, <1>7, <1>8 DEF BudgetNext

LEMMA BudgetNextKeepsAccount ==
    ASSUME BudgetTypeOK, Accounted, [BudgetNext]_budgetVars
    PROVE  Accounted'
<1> USE BudgetAssumption
<1>1. /\ \A i \in Copies : budget[i] \in Nat
      /\ "gateway" \in Copies /\ "tools" \in Copies /\ "disk" \in Copies
  BY DEF BudgetTypeOK, Copies
<1>2. Owing \in Nat /\ Owing' \in Nat /\ Granted \in Nat
  BY OwingType
<1>3. UNCHANGED <<reviews, approvals>> => Owing' = Owing /\ Granted' = Granted
  BY DEF Owing, Granted, InFlight
<1>4. CASE UNCHANGED <<budget, reviews, approvals, disturbed>>
  BY <1>3, <1>4 DEF Accounted
<1>5. ASSUME NEW r \in Reviews, NEW x \in Extensions, ApproveExtension(r, x)
      PROVE  Accounted'
  <2>1. Owing' = Owing + Amount /\ Granted' = Granted + Amount /\ UNCHANGED <<budget, disturbed>>
    BY <1>5, ApprovalOwes DEF ApproveExtension
  <2> QED BY <1>1, <1>2, <2>1 DEF Accounted
<1>6. ASSUME NEW r \in Reviews, RaiseBudget(r)
      PROVE  Accounted'
  <2>1. Owing = Owing' + Amount /\ Granted' = Granted /\ disturbed' = disturbed
    BY <1>6, RaisingPays DEF RaiseBudget
  <2>2. \A i \in Copies : budget'[i] = IF i = "tools" THEN budget[i] ELSE budget["gateway"] + Amount
    BY <1>6 DEF RaiseBudget, BudgetTypeOK, Copies
  <2> QED BY <1>1, <1>2, <2>1, <2>2 DEF Accounted
<1>7. ASSUME NEW i \in Copies, NEW j \in Copies, budget' = [budget EXCEPT ![i] = budget[j]],
             Owing' <= Owing, Granted' = Granted,
             disturbed'
      PROVE  Accounted'
  <2>1. \A k \in Copies : budget'[k] = IF k = i THEN budget[j] ELSE budget[k]
    BY <1>7 DEF BudgetTypeOK
  <2>2. \A k \in Copies : budget'[k] + Owing' <= FirstBudget + Granted'
    BY <1>1, <1>2, <1>7, <2>1 DEF Accounted
  <2> QED BY <1>7, <2>2 DEF Accounted
<1>8. CASE ToolServerSaves
  <2>1. /\ budget' = [budget EXCEPT !["disk"] = budget["tools"]] /\ disturbed'
        /\ UNCHANGED <<reviews, approvals>>
    BY <1>8 DEF ToolServerSaves
  <2>2. Owing' <= Owing /\ Granted' = Granted
    BY <1>2, <1>3, <2>1
  <2> QED BY <1>1, <1>7, <2>1, <2>2
<1>9. ASSUME NEW p \in {"gateway", "tools"}, BudgetRestart(p)
      PROVE  Accounted'
  <2>1. Owing' <= Owing
    <3>1. CASE p = "gateway"
      <4>1. \A r \in Reviews : reviews'[r] = {}
        BY <1>9, <3>1 DEF BudgetRestart
      <4> QED BY <4>1, <1>2, NothingOwed
    <3>2. CASE p = "tools"
      BY <1>2, <1>3, <1>9, <3>2 DEF BudgetRestart
    <3> QED BY <3>1, <3>2
  <2>2. Granted' = Granted
    BY <1>9 DEF BudgetRestart, Granted
  <2> QED BY <1>1, <1>7, <1>9, <2>1, <2>2 DEF BudgetRestart
<1>10. CASE ResetExtensions
  <2>1. /\ budget' = [budget EXCEPT !["disk"] = budget["gateway"]]
        /\ UNCHANGED <<reviews, approvals>>
    BY <1>10 DEF ResetExtensions
  <2>2. disturbed' = disturbed
    BY <1>10 DEF ResetExtensions
  <2>3. Owing' <= Owing /\ Granted' = Granted /\ Owing' = Owing
    BY <1>2, <1>3, <2>1
  <2>4. \A k \in Copies : budget'[k] = IF k = "disk" THEN budget["gateway"] ELSE budget[k]
    BY <2>1 DEF BudgetTypeOK
  <2>5. \A k \in Copies : budget'[k] + Owing' <= FirstBudget + Granted'
    BY <1>1, <2>3, <2>4 DEF Accounted
  <2>6. ~disturbed => budget'["gateway"] + Owing' = FirstBudget + Granted'
    BY <1>1, <2>3, <2>4 DEF Accounted
  <2> QED BY <2>2, <2>5, <2>6 DEF Accounted
<1> QED
  BY <1>4, <1>5, <1>6, <1>8, <1>9, <1>10 DEF BudgetNext, RequestExtension, RejectExtension, budgetVars

LEMMA BudgetInvHolds == BudgetSpec => [](BudgetTypeOK /\ Accounted)
<1>1. ASSUME BudgetInit PROVE BudgetTypeOK /\ Accounted
  <2>1. BudgetTypeOK
    <3>1. budget \in [Copies -> Nat] /\ 0 \in 0..MaxApprovals
      BY <1>1, BudgetAssumption DEF BudgetInit
    <3> QED BY <1>1, <3>1 DEF BudgetInit, BudgetTypeOK
  <2>2. Cardinality(Stored) = 0
    <3>1. Stored = {}
      BY <1>1 DEF BudgetInit, Stored
    <3> QED BY <3>1, FS_EmptySet
  <2>3. Owing = 0 /\ Granted = 0
    BY <1>1, <2>2, InFlightCounts, BudgetAssumption DEF BudgetInit, Owing, Granted
  <2> QED BY <1>1, <2>1, <2>3, BudgetAssumption DEF BudgetInit, Accounted, Copies
<1> QED BY <1>1, BudgetNextKeepsTypes, BudgetNextKeepsAccount, PTL DEF BudgetSpec

\* Requests, budgets and reviews keep their types.
THEOREM BudgetTypesHold == BudgetSpec => []BudgetTypeOK
BY BudgetInvHolds, PTL

\* The budget is never above what the approvals stored account for, in any copy,
\* and exactly that until a restart or a stale save.
THEOREM BudgetIsAccounted == BudgetSpec => []BudgetAccounted
<1>1. Accounted => BudgetAccounted
  BY DEF Accounted, BudgetAccounted, Owing, Granted
<1> QED BY <1>1, BudgetInvHolds, PTL

=============================================================================
