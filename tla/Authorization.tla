--------------------------- MODULE Authorization ---------------------------
(***************************************************************************)
(* One decision of the gateway (evaluateCedarPolicy of index.ts) or of the *)
(* stdio tool server (mcp-server.ts): the quarantine record is read, the   *)
(* Cedar daemon is asked, the local evaluator stands in when the operator  *)
(* allowed it, and the outcome moves the principal's denial counter, which *)
(* puts the principal in quarantine, unless the quarantine file fails it.  *)
(* Meanwhile the policy file is edited, caught half written, applied and   *)
(* reloaded, and administrators quarantine and release.                    *)
(*                                                                         *)
(* The daemon reads the policy file for each request; the gateway swaps    *)
(* its evaluator on a file event, a reload or an apply, the tool server    *)
(* keeps the one it started with.  Each process counts denials by itself;  *)
(* the quarantine file is shared.  The gateway runs in the directory of    *)
(* the policy file.  The trackers behind the other context entries are     *)
(* another component: here they are open.                                  *)
(***************************************************************************)
EXTENDS CedarPolicy

CONSTANTS
    Agents,       \* principals under test
    Calls,        \* calls in flight
    Policies,     \* rule sets an administrator may install
    Cuts,         \* where a reader may find the file cut: <<n, w>> is a file that
                  \* ends after n rules, and w says that it ends between two rules
    Requested,    \* the requests agents make
    DenialLimit,  \* consecutive denials that quarantine (3 in the code)
    FailingUpTo   \* bound: the quarantine file fails no count above this one

ASSUME AuthorizationAssumption ==
    /\ Agents # {}
    /\ Policies \subseteq SUBSET FullPolicy
    /\ Cuts \subseteq Nat \X BOOLEAN
    /\ Requested \subseteq Request /\ Requested # {}
    /\ DenialLimit \in Nat \ {0}
    /\ FailingUpTo \in Nat

Instances == Callers

\* A file a reader may find: its complete rules, and whether nothing else is in
\* it.  CedarEvaluator.parse skips what is incomplete, the daemon refuses it.
File(rules, whole) == [rules |-> rules, whole |-> whole]

Installed == {File(p, TRUE) : p \in Policies}
Truncated == {File(p \cap Prefix(cut[1]), cut[2]) : p \in Policies, cut \in Cuts}
Files == Installed \cup Truncated
Loadable == {f.rules : f \in Files}

VARIABLES
    file,       \* the policy on disk
    loaded,     \* the evaluator of each process
    notified,   \* a file event the gateway has still to handle
    fallback,   \* FIDUSGATE_ALLOW_TS_EVALUATOR_FALLBACK, outside production
    records,    \* the quarantine file
    denials,    \* principalViolationCounts of each process
    failed,     \* history: the quarantine file failed this full count
    calls

policyVars == <<file, loaded, notified, fallback>>
countVars == <<denials, failed>>
authVars == <<file, loaded, notified, fallback, records, denials, failed, calls>>

AnyAgent == CHOOSE a \in Agents : TRUE
AnyRequest == CHOOSE r \in Requested : TRUE

\* The last four fields are history, of the time since the call began: a whole
\* policy that permits the request as submitted was on disk; one that permits
\* it resolved was loaded by its process; in the gateway, the complete rules on
\* disk permit it resolved, or an event was on its way to tell of others; and
\* the principal was in quarantine throughout, under guarded policies.
Call == [pc : {"idle", "daemon", "quarantine", "forget"},
         at : Instances, agent : Agents, request : Requested,
         quarantined : BOOLEAN,  \* the record read before the daemon was asked
         existing : BOOLEAN,     \* the record read by recordPrincipalViolation
         decision : Decisions,   \* of the last call, once idle again
         onDisk : BOOLEAN, inProcess : BOOLEAN, timely : BOOLEAN, confined : BOOLEAN]

AuthTypeOK ==
    /\ file \in Files
    /\ loaded \in [Instances -> Loadable]
    /\ notified \in BOOLEAN
    /\ fallback \in BOOLEAN
    /\ records \in [Agents -> {"none", "active", "released"}]
    /\ denials \in [Instances -> [Agents -> Nat]]
    /\ failed \in [Instances -> [Agents -> BOOLEAN]]
    /\ calls \in [Calls -> Call]

NoCall == [pc |-> "idle", at |-> "gateway", agent |-> AnyAgent, request |-> AnyRequest,
           quarantined |-> FALSE, existing |-> FALSE, decision |-> "deny",
           onDisk |-> FALSE, inProcess |-> FALSE, timely |-> FALSE, confined |-> FALSE]

AuthInit ==
    /\ file \in Installed
    /\ loaded = [i \in Instances |-> file.rules]
    /\ notified = FALSE
    /\ fallback \in BOOLEAN
    /\ records = [a \in Agents |-> "none"]
    /\ denials = [i \in Instances |-> [a \in Agents |-> 0]]
    /\ failed = [i \in Instances |-> [a \in Agents |-> FALSE]]
    /\ calls = [c \in Calls |-> NoCall]

---------------------------------------------------------------------------
(* A call *)

ContextOf(call) ==
    [quarantined |-> call.quarantined, pipeline |-> TRUE, audited |-> TRUE, ham |-> TRUE,
     synthesized |-> TRUE, exhausted |-> FALSE, subagent |-> "absent", requirement |-> "set",
     tests |-> TRUE, drift |-> FALSE, driftVerified |-> TRUE, version |-> TRUE,
     changelog |-> TRUE, feedback |-> FALSE, aligned |-> TRUE]

\* What rules say of the request of a call: as submitted, and resolved.
Permits(rules, call) == Authorized(rules, call.request, ContextOf(call))
PermitsResolved(rules, call) == Authorized(rules, Resolved(call.request), ContextOf(call))

\* Rules that let nothing through, or keep tier 0: it comes first in
\* policy.cedar, so whatever is cut off that file, this is so.
Guarded(rules) == rules = {} \/ "quarantine" \in rules

\* The history of a call when the world has come to f, l, n and q.
Seen(call, f, l, n, q) ==
    [call EXCEPT !.onDisk = @ \/ (f.whole /\ Permits(f.rules, call)),
                 !.inProcess = @ \/ PermitsResolved(l[call.at], call),
                 !.timely = @ \/ (call.at = "gateway" /\ (n \/ PermitsResolved(f.rules, call))),
                 !.confined = /\ @
                              /\ q[call.agent] = "active"
                              /\ Guarded(f.rules) /\ Guarded(l[call.at])]

Witnessed(f, l, n, q) ==
    calls' = [c \in Calls |-> IF calls[c].pc = "daemon" THEN Seen(calls[c], f, l, n, q)
                                                       ELSE calls[c]]

\* getQuarantineRecord
InQuarantine(a) == records[a] = "active"

\* Mutant of Begin: the tool server does not look the record up.
BeginUnhydrated(c, i, a, r) ==
    /\ calls[c].pc = "idle"
    /\ calls' = [calls EXCEPT ![c] =
            Seen([NoCall EXCEPT !.pc = "daemon", !.at = i, !.agent = a, !.request = r,
                                !.quarantined = i = "gateway" /\ InQuarantine(a),
                                !.confined = TRUE],
                 file, loaded, notified, records)]
    /\ UNCHANGED <<policyVars, records, countVars>>

\* The record is read first; it enters the context after the await.
Begin(c, i, a, r) ==
    /\ calls[c].pc = "idle"
    /\ calls' = [calls EXCEPT ![c] =
            Seen([NoCall EXCEPT !.pc = "daemon", !.at = i, !.agent = a, !.request = r,
                                !.quarantined = InQuarantine(a), !.confined = TRUE],
                 file, loaded, notified, records)]
    /\ UNCHANGED <<policyVars, records, countVars>>

\* The tool server ignores the denials of searches and listings, and a read
\* that is allowed clears no counter there.
CountsDenial(call) == call.at = "gateway" \/ call.request.tool \notin {"search_code", "list_directory"}
ClearsOnAllow(call) == call.at = "gateway" \/ call.request.tool \notin Reading

Finish(c, decision) == calls' = [calls EXCEPT ![c] = [NoCall EXCEPT !.decision = decision]]

\* Mutant of Denied: the counter is checked before it is raised.
DeniedLate(c) ==
    LET call == calls[c]
        count == denials[call.at][call.agent] IN
    /\ denials' = [denials EXCEPT ![call.at][call.agent] = count + 1]
    /\ IF count >= DenialLimit
       THEN calls' = [calls EXCEPT ![c] =
                  [NoCall EXCEPT !.pc = "quarantine", !.at = call.at, !.agent = call.agent,
                                 !.existing = InQuarantine(call.agent)]]
       ELSE Finish(c, "deny")
    /\ UNCHANGED failed

\* recordPrincipalViolation up to its first await.
Denied(c) ==
    LET call == calls[c]
        count == denials[call.at][call.agent] + 1 IN
    /\ denials' = [denials EXCEPT ![call.at][call.agent] = count]
    /\ IF count >= DenialLimit
       THEN calls' = [calls EXCEPT ![c] =
                  [NoCall EXCEPT !.pc = "quarantine", !.at = call.at, !.agent = call.agent,
                                 !.existing = InQuarantine(call.agent)]]
       ELSE Finish(c, "deny")
    /\ UNCHANGED failed

\* resetPrincipalViolations
Cleared(c) ==
    /\ denials' = [denials EXCEPT ![calls[c].at][calls[c].agent] = 0]
    /\ failed' = [failed EXCEPT ![calls[c].at][calls[c].agent] = FALSE]

Decide(c, decision) ==
    /\ IF decision = "allow"
       THEN /\ IF ClearsOnAllow(calls[c]) THEN Cleared(c) ELSE UNCHANGED countVars
            /\ Finish(c, "allow")
       ELSE IF CountsDenial(calls[c]) THEN Denied(c)
            ELSE Finish(c, "deny") /\ UNCHANGED countVars
    /\ UNCHANGED <<policyVars, records>>

\* Mutant of DaemonDecides: the daemon keeps the policy it started with.
DaemonDecidesCached(c) ==
    /\ calls[c].pc = "daemon"
    /\ Decide(c, EvaluateDaemon(loaded["mcp"], calls[c].request, ContextOf(calls[c])))

\* The daemon reads the file, all of which parses, and answers within the timeout.
DaemonDecides(c) ==
    /\ calls[c].pc = "daemon"
    /\ file.whole
    /\ Decide(c, EvaluateDaemon(file.rules, calls[c].request, ContextOf(calls[c])))

\* It is down, too late, or cannot read the policy.
DaemonFails(c) ==
    /\ calls[c].pc = "daemon"
    /\ Decide(c, Resolve(FALSE, "deny", fallback,
                         EvaluateTS(calls[c].at, loaded[calls[c].at], calls[c].request, ContextOf(calls[c]))))

\* The rest of recordPrincipalViolation: a record that existed ends it, else
\* the record is upserted, whatever it has become since it was read.
Quarantine(c) ==
    LET call == calls[c] IN
    /\ call.pc = "quarantine"
    /\ IF call.existing
       THEN Cleared(c) /\ Finish(c, "deny") /\ UNCHANGED records
       ELSE /\ records' = [records EXCEPT ![call.agent] = "active"]
            /\ calls' = [calls EXCEPT ![c].pc = "forget"]
            /\ UNCHANGED countVars
    /\ UNCHANGED policyVars

\* The file cannot be locked, read or written: the rejection ends the call, an
\* error in place of its denial, and the count stays for the next one to find.
QuarantineFails(c) ==
    LET call == calls[c] IN
    /\ call.pc = "quarantine"
    /\ denials[call.at][call.agent] <= FailingUpTo
    /\ failed' = [failed EXCEPT ![call.at][call.agent] =
                     @ \/ denials[call.at][call.agent] >= DenialLimit]
    /\ Finish(c, "deny")
    /\ UNCHANGED <<policyVars, records, denials>>

Forget(c) ==
    /\ calls[c].pc = "forget"
    /\ Cleared(c)
    /\ Finish(c, "deny")
    /\ UNCHANGED <<policyVars, records>>

---------------------------------------------------------------------------
(* Administrators and the operator *)

SetRecord(a, status) ==
    LET q == [records EXCEPT ![a] = status] IN
    /\ records' = q
    /\ Witnessed(file, loaded, notified, q)
    /\ UNCHANGED <<policyVars, countVars>>

QuarantineByHand(a) == SetRecord(a, "active")

\* releaseQuarantine marks whichever record it finds.
Release(a) == records[a] # "none" /\ SetRecord(a, "released")

\* clearDatabase empties the quarantine file; the counters stay.
ResetRecords ==
    LET q == [a \in Agents |-> "none"] IN
    /\ records' = q
    /\ Witnessed(file, loaded, notified, q)
    /\ UNCHANGED <<policyVars, countVars>>

\* An editor or a checkout writes the file, possibly through a truncated one.
EditPolicy(f) ==
    /\ f # file
    /\ file' = f
    /\ notified' = TRUE
    /\ Witnessed(f, loaded, TRUE, records)
    /\ UNCHANGED <<loaded, fallback, records, countVars>>

\* POST /api/policy/apply: temp file, rename, new evaluator, with no await.
ApplyPolicy(f) ==
    LET l == [loaded EXCEPT !["gateway"] = f.rules] IN
    /\ f \in Installed
    /\ f # file
    /\ file' = f
    /\ loaded' = l
    /\ notified' = TRUE
    /\ Witnessed(f, l, TRUE, records)
    /\ UNCHANGED <<fallback, records, countVars>>

\* Mutant of Reload: a file with no rule that is not loaded already is not loaded.
ReloadUnlessShorter ==
    LET l == [loaded EXCEPT !["gateway"] = IF file.rules \subseteq @ THEN @ ELSE file.rules] IN
    /\ loaded' = l
    /\ Witnessed(file, l, notified', records)
    /\ UNCHANGED <<file, fallback, records, countVars>>

\* A new evaluator over the file's complete rules; getRulesCount() >= 0 always
\* holds, so a file with none is loaded too.
Reload ==
    LET l == [loaded EXCEPT !["gateway"] = file.rules] IN
    /\ loaded' = l
    /\ Witnessed(file, l, notified', records)
    /\ UNCHANGED <<file, fallback, records, countVars>>

\* fs.watch, and POST /api/policy/reload.
Watch == notified /\ notified' = FALSE /\ Reload
ReloadByHand == loaded["gateway"] # file.rules /\ UNCHANGED notified /\ Reload

\* A process dies and is started again: its calls are lost.
RestartProcess(i) ==
    /\ loaded' = [loaded EXCEPT ![i] = file.rules]
    /\ denials' = [denials EXCEPT ![i] = [a \in Agents |-> 0]]
    /\ failed' = [failed EXCEPT ![i] = [a \in Agents |-> FALSE]]
    /\ calls' = [c \in Calls |-> IF calls[c].at = i THEN NoCall ELSE calls[c]]
    /\ notified' = IF i = "gateway" THEN FALSE ELSE notified
    /\ UNCHANGED <<file, fallback, records>>

CallStep(c) ==
    \/ \E i \in Instances, a \in Agents, r \in Requested : Begin(c, i, a, r)
    \/ DaemonDecides(c)
    \/ DaemonFails(c)
    \/ Quarantine(c)
    \/ QuarantineFails(c)
    \/ Forget(c)

AdminStep ==
    \/ \E a \in Agents : QuarantineByHand(a) \/ Release(a)
    \/ ResetRecords
    \/ \E f \in Files : EditPolicy(f) \/ ApplyPolicy(f)
    \/ Watch
    \/ ReloadByHand
    \/ \E i \in Instances : RestartProcess(i)

AuthNext == (\E c \in Calls : CallStep(c)) \/ AdminStep

AuthSpec == AuthInit /\ [][AuthNext]_authVars /\ WF_authVars(Watch)

---------------------------------------------------------------------------
(* Properties *)

Acts(call) == call.request.tool \notin Reading

\* The step that lets call c through.
Lets(c) == calls[c].pc = "daemon" /\ calls'[c].pc = "idle" /\ calls'[c].decision = "allow"

\* A principal in quarantine from before a call began until it was decided
\* does nothing but read, if every policy in force meanwhile was guarded.
QuarantineConfines ==
    [][\A c \in Calls : Lets(c) /\ calls[c].confined => ~Acts(calls[c])]_authVars

\* A call is let through by the daemon only under a whole policy that was on
\* disk while it ran, and without it, where the operator allows that, by what
\* its process had loaded meanwhile.  In the gateway that is what was on disk,
\* complete or not, or an event was on its way to tell it otherwise: edits,
\* applies, reloads and restarts leave it no older policy to decide by.
DecidedByPolicyInForce ==
    [][\A c \in Calls : Lets(c) =>
          \/ calls[c].onDisk
          \/ /\ fallback
             /\ calls[c].inProcess
             /\ calls[c].at = "gateway" => calls[c].timely]_authVars

\* A counter at the limit belongs to a call that is about to quarantine its
\* principal, whatever other calls and processes do to the record meanwhile;
\* or the quarantine file failed such a call, and the count has not been
\* cleared since: the next denial tries again.
FullCountIsHandled ==
    \A i \in Instances, a \in Agents :
        denials[i][a] >= DenialLimit =>
            \/ failed[i][a]
            \/ \E c \in Calls : /\ calls[c].pc \in {"quarantine", "forget"}
                               /\ calls[c].at = i
                               /\ calls[c].agent = a

\* Without an event to handle, the gateway's evaluator is the file's.
NoEventNoDrift == ~notified => loaded["gateway"] = file.rules

\* Whatever is edited, the gateway comes back to the policy on disk.
HotReloadConverges == []<>(loaded["gateway"] = file.rules)

\* The tool server, which loads the policy once, decides by what the gateway
\* has loaded since.
ProcessesAgree == ~notified => loaded["mcp"] = loaded["gateway"]

\* A file cut short lets through nothing but what some policy permits whole.
CutsLetNothingMore ==
    [][\A c \in Calls : Lets(c) =>
          \E p \in Policies : PermitsResolved(p, calls[c])]_authVars

\* A full counter always leads to quarantine: a call is about to do it.
FullCountQuarantines ==
    \A i \in Instances, a \in Agents :
        denials[i][a] >= DenialLimit =>
            \E c \in Calls : /\ calls[c].pc \in {"quarantine", "forget"}
                             /\ calls[c].at = i
                             /\ calls[c].agent = a

=============================================================================
