------------------------ MODULE AuthorizationProofs ------------------------
(***************************************************************************)
(* Safety of Authorization, for any number of principals and calls and any *)
(* policies.  While a call waits for its daemon, its history covers what   *)
(* is on disk and loaded now (WaitsInv).  And what the rules come to in    *)
(* PolicyVerdicts, for every request and context.                          *)
(***************************************************************************)
EXTENDS Authorization, PolicyVerdicts, TLAPS

Waiting(call) == call.pc = "daemon"

\* The history of a call covers the world f, l and n.
Covers(call, f, l, n) ==
    /\ f.whole /\ Permits(f.rules, call) => call.onDisk
    /\ PermitsResolved(l[call.at], call) => call.inProcess
    /\ call.at = "gateway" /\ (n \/ PermitsResolved(f.rules, call)) => call.timely
    /\ call.confined => call.quarantined /\ Guarded(f.rules) /\ Guarded(l[call.at])

WaitsInv == \A c \in Calls : Waiting(calls[c]) => Covers(calls[c], file, loaded, notified)

AuthInv == AuthTypeOK /\ WaitsInv /\ FullCountIsHandled /\ NoEventNoDrift

Handles(call, i, a) == call.pc \in {"quarantine", "forget"} /\ call.at = i /\ call.agent = a

\* A call is the same as before but for its history.
Alike(x, y) ==
    /\ x.pc = y.pc /\ x.at = y.at /\ x.agent = y.agent /\ x.request = y.request
    /\ x.quarantined = y.quarantined

LEMMA SomeCall == NoCall \in Call /\ NoCall.pc = "idle" /\ NoCall.decision = "deny"
BY AuthorizationAssumption DEF NoCall, Call, Instances, Callers, AnyAgent, AnyRequest, Decisions

LEMMA AlikePermits ==
    ASSUME NEW rules, NEW x, NEW y, Alike(x, y)
    PROVE  /\ Permits(rules, x) <=> Permits(rules, y)
           /\ PermitsResolved(rules, x) <=> PermitsResolved(rules, y)
BY DEF Alike, Permits, PermitsResolved, ContextOf

LEMMA SeenFields ==
    ASSUME NEW call \in Call, NEW f, NEW l, NEW n, NEW q
    PROVE  LET s == Seen(call, f, l, n, q) IN
           /\ s \in Call
           /\ Alike(s, call)
           /\ s.existing = call.existing /\ s.decision = call.decision
           /\ s.onDisk <=> call.onDisk \/ (f.whole /\ Permits(f.rules, call))
           /\ s.inProcess <=> call.inProcess \/ PermitsResolved(l[call.at], call)
           /\ s.timely <=> \/ call.timely
                           \/ call.at = "gateway" /\ (n \/ PermitsResolved(f.rules, call))
           /\ s.confined <=> /\ call.confined
                             /\ q[call.agent] = "active"
                             /\ Guarded(f.rules) /\ Guarded(l[call.at])
<1> DEFINE onDisk == call.onDisk \/ (f.whole /\ Permits(f.rules, call))
           inProcess == call.inProcess \/ PermitsResolved(l[call.at], call)
           timely == call.timely \/ (call.at = "gateway" /\ (n \/ PermitsResolved(f.rules, call)))
           confined == /\ call.confined
                       /\ q[call.agent] = "active"
                       /\ Guarded(f.rules) /\ Guarded(l[call.at])
<1>1. onDisk \in BOOLEAN /\ inProcess \in BOOLEAN /\ timely \in BOOLEAN /\ confined \in BOOLEAN
  OBVIOUS
<1>2. Seen(call, f, l, n, q) = [call EXCEPT !.onDisk = onDisk, !.inProcess = inProcess,
                                            !.timely = timely, !.confined = confined]
  BY DEF Seen
<1> HIDE DEF onDisk, inProcess, timely, confined
<1>3. /\ Seen(call, f, l, n, q) \in Call
      /\ Alike(Seen(call, f, l, n, q), call)
      /\ Seen(call, f, l, n, q).existing = call.existing
      /\ Seen(call, f, l, n, q).decision = call.decision
      /\ Seen(call, f, l, n, q).onDisk = onDisk
      /\ Seen(call, f, l, n, q).inProcess = inProcess
      /\ Seen(call, f, l, n, q).timely = timely
      /\ Seen(call, f, l, n, q).confined = confined
  BY <1>1, <1>2 DEF Call, Alike
<1> QED BY <1>3 DEF onDisk, inProcess, timely, confined

\* What has just been seen is covered, if a confined call read its record so.
LEMMA SeenCovers ==
    ASSUME NEW call \in Call, NEW f, NEW l, NEW n, NEW q,
           call.confined /\ q[call.agent] = "active" => call.quarantined
    PROVE  Covers(Seen(call, f, l, n, q), f, l, n)
<1> DEFINE s == Seen(call, f, l, n, q)
<1>1. s.at = call.at /\ s.quarantined = call.quarantined
  BY SeenFields DEF Alike
<1>2. \A rules : /\ Permits(rules, s) <=> Permits(rules, call)
                 /\ PermitsResolved(rules, s) <=> PermitsResolved(rules, call)
  BY SeenFields, AlikePermits
<1>3. /\ s.onDisk <=> call.onDisk \/ (f.whole /\ Permits(f.rules, call))
      /\ s.inProcess <=> call.inProcess \/ PermitsResolved(l[call.at], call)
      /\ s.timely <=> \/ call.timely
                      \/ call.at = "gateway" /\ (n \/ PermitsResolved(f.rules, call))
      /\ s.confined <=> /\ call.confined
                        /\ q[call.agent] = "active"
                        /\ Guarded(f.rules) /\ Guarded(l[call.at])
  BY SeenFields
<1> HIDE DEF s
<1>4. Covers(s, f, l, n)
  BY <1>1, <1>2, <1>3 DEF Covers
<1> QED BY <1>4 DEF s

LEMMA CoversNext ==
    ASSUME \A c \in Calls : Waiting(calls'[c]) => Covers(calls'[c], file', loaded', notified')
    PROVE  WaitsInv'
BY DEF WaitsInv, Waiting, Covers, Permits, PermitsResolved, Guarded, Authorized, ContextOf, Resolved

\* What the waiting calls see keeps the invariant of the calls.
LEMMA WitnessedKeeps ==
    ASSUME AuthInv, NEW f, NEW l, NEW n, NEW q, Witnessed(f, l, n, q),
           file' = f, loaded' = l, notified' = n
    PROVE  /\ calls' \in [Calls -> Call]
           /\ WaitsInv'
           /\ \A c \in Calls : Alike(calls'[c], calls[c])
<1>1. \A c \in Calls : calls[c] \in Call
  BY DEF AuthInv, AuthTypeOK
<1>2. \A c \in Calls : calls'[c] = IF Waiting(calls[c]) THEN Seen(calls[c], f, l, n, q) ELSE calls[c]
  BY DEF Witnessed, Waiting
<1>3. calls' \in [Calls -> Call]
  <2>1. \A c \in Calls : Seen(calls[c], f, l, n, q) \in Call
    BY <1>1, SeenFields
  <2> QED BY <1>1, <2>1 DEF Witnessed
<1>4. \A c \in Calls : Alike(calls'[c], calls[c])
  BY <1>1, <1>2, SeenFields DEF Alike
<1>5. ASSUME NEW c \in Calls, Waiting(calls'[c])
      PROVE  Covers(calls'[c], file', loaded', notified')
  <2>1. Waiting(calls[c]) /\ calls'[c] = Seen(calls[c], f, l, n, q)
    BY <1>2, <1>4, <1>5 DEF Alike, Waiting
  <2>2. calls[c].confined => calls[c].quarantined
    BY <2>1 DEF AuthInv, WaitsInv, Covers
  <2> QED BY <1>1, <2>1, <2>2, SeenCovers
<1>6. WaitsInv'
  BY <1>5, CoversNext
<1> QED BY <1>3, <1>4, <1>6

\* Who is about to handle a full counter goes on to be.
LEMMA AlikeHandles ==
    ASSUME AuthInv, UNCHANGED countVars, \A c \in Calls : Alike(calls'[c], calls[c])
    PROVE  FullCountIsHandled'
BY DEF AuthInv, FullCountIsHandled, Alike, countVars

\* One call becomes one that is not waiting; the policies stay.
LEMMA LeavesKeeps ==
    ASSUME AuthInv, UNCHANGED policyVars, NEW c \in Calls, NEW call \in Call,
           calls' = [calls EXCEPT ![c] = call], call.pc # "daemon"
    PROVE  calls' \in [Calls -> Call] /\ WaitsInv' /\ NoEventNoDrift'
<1>1. calls' \in [Calls -> Call]
  BY DEF AuthInv, AuthTypeOK
<1>2. \A d \in Calls : calls'[d] = IF d = c THEN call ELSE calls[d]
  BY DEF AuthInv, AuthTypeOK
<1>3. WaitsInv'
  <2>1. UNCHANGED <<file, loaded, notified>>
    BY DEF policyVars
  <2>2. \A d \in Calls : Waiting(calls'[d]) => calls'[d] = calls[d]
    BY <1>2 DEF Waiting
  <2> QED BY <2>1, <2>2, CoversNext DEF AuthInv, WaitsInv
<1>4. NoEventNoDrift'
  BY DEF AuthInv, NoEventNoDrift, policyVars
<1> QED BY <1>1, <1>3, <1>4

LEMMA BeginKeepsInv ==
    ASSUME AuthInv, NEW c \in Calls, NEW i \in Instances, NEW a \in Agents, NEW r \in Requested,
           Begin(c, i, a, r)
    PROVE  AuthInv'
<1> DEFINE fresh == [NoCall EXCEPT !.pc = "daemon", !.at = i, !.agent = a, !.request = r,
                                   !.quarantined = InQuarantine(a), !.confined = TRUE]
           new == Seen(fresh, file, loaded, notified, records)
<1>1. InQuarantine(a) \in BOOLEAN /\ (InQuarantine(a) <=> records[a] = "active")
  BY DEF InQuarantine
<1>2. /\ fresh \in Call /\ fresh.pc = "daemon" /\ fresh.at = i /\ fresh.agent = a
      /\ fresh.quarantined = InQuarantine(a) /\ fresh.confined
  BY <1>1, SomeCall DEF Call
<1>3. calls' = [calls EXCEPT ![c] = new] /\ calls[c].pc = "idle"
      /\ UNCHANGED <<policyVars, records, countVars>>
  BY DEF Begin
<1> HIDE DEF fresh
<1>4. new \in Call /\ Alike(new, fresh)
  BY <1>2, SeenFields
<1>5. Covers(new, file, loaded, notified)
  BY <1>1, <1>2, SeenCovers
<1> HIDE DEF new
<1>6. \A d \in Calls : calls'[d] = IF d = c THEN new ELSE calls[d]
  BY <1>3 DEF AuthInv, AuthTypeOK
<1>7. AuthTypeOK'
  BY <1>3, <1>4 DEF AuthInv, AuthTypeOK, policyVars, countVars
<1>8. WaitsInv'
  <2>1. UNCHANGED <<file, loaded, notified>>
    BY <1>3 DEF policyVars
  <2>2. \A d \in Calls : Waiting(calls'[d]) => Covers(calls'[d], file, loaded, notified)
    BY <1>5, <1>6 DEF AuthInv, WaitsInv
  <2> QED BY <2>1, <2>2, CoversNext
<1>9. FullCountIsHandled'
  BY <1>2, <1>3, <1>4, <1>6 DEF AuthInv, FullCountIsHandled, Alike, countVars
<1> QED BY <1>3, <1>7, <1>8, <1>9 DEF AuthInv, NoEventNoDrift, policyVars

\* A call that ends with its principal's counter cleared, or below the limit.
LEMMA FinishKeepsInv ==
    ASSUME AuthInv, NEW c \in Calls, NEW decision \in Decisions, Finish(c, decision),
           UNCHANGED <<policyVars, records>>,
           denials' \in [Instances -> [Agents -> Nat]],
           failed' \in [Instances -> [Agents -> BOOLEAN]],
           \A i \in Instances, a \in Agents : denials'[i][a] >= DenialLimit =>
               \/ failed'[i][a]
               \/ /\ denials[i][a] >= DenialLimit /\ ~failed[i][a]
                  /\ calls[c].pc = "daemon" \/ ~Handles(calls[c], i, a)
    PROVE  AuthInv'
<1> DEFINE call == [NoCall EXCEPT !.decision = decision]
<1>1. call \in Call /\ call.pc = "idle"
  BY SomeCall DEF Call
<1>2. calls' = [calls EXCEPT ![c] = call]
  BY DEF Finish
<1> HIDE DEF call
<1>3. calls' \in [Calls -> Call] /\ WaitsInv' /\ NoEventNoDrift'
  BY <1>1, <1>2, LeavesKeeps
<1>4. \A d \in Calls : d # c => calls'[d] = calls[d]
  BY <1>2 DEF AuthInv, AuthTypeOK
<1>5. FullCountIsHandled'
  <2> SUFFICES ASSUME NEW i \in Instances, NEW a \in Agents, denials'[i][a] >= DenialLimit,
                      ~failed'[i][a]
               PROVE  \E d \in Calls : Handles(calls'[d], i, a)
    BY DEF FullCountIsHandled, Handles
  <2>1. PICK d \in Calls : Handles(calls[d], i, a)
    BY DEF AuthInv, FullCountIsHandled, Handles
  <2>2. d # c
    BY <2>1 DEF Handles
  <2> QED BY <1>4, <2>1, <2>2
<1>6. AuthTypeOK'
  BY <1>3 DEF AuthInv, AuthTypeOK, policyVars
<1> QED BY <1>3, <1>5, <1>6 DEF AuthInv

LEMMA ClearedCounters ==
    ASSUME AuthInv, NEW c \in Calls, Cleared(c)
    PROVE  /\ denials' \in [Instances -> [Agents -> Nat]]
           /\ failed' \in [Instances -> [Agents -> BOOLEAN]]
           /\ \A i \in Instances, a \in Agents :
                 IF i = calls[c].at /\ a = calls[c].agent
                 THEN denials'[i][a] = 0
                 ELSE denials'[i][a] = denials[i][a] /\ failed'[i][a] = failed[i][a]
<1>1. calls[c].at \in Instances /\ calls[c].agent \in Agents
  BY DEF AuthInv, AuthTypeOK, Call
<1>2. denials \in [Instances -> [Agents -> Nat]] /\ failed \in [Instances -> [Agents -> BOOLEAN]]
  BY DEF AuthInv, AuthTypeOK
<1> QED BY <1>1, <1>2 DEF Cleared

LEMMA DeniedKeepsInv ==
    ASSUME AuthInv, NEW c \in Calls, calls[c].pc = "daemon", Denied(c),
           UNCHANGED <<policyVars, records>>
    PROVE  AuthInv'
<1> USE AuthorizationAssumption
<1> DEFINE count == denials[calls[c].at][calls[c].agent] + 1
<1>1. calls[c] \in Call /\ calls[c].at \in Instances /\ calls[c].agent \in Agents
  BY DEF AuthInv, AuthTypeOK, Call
<1>2. denials \in [Instances -> [Agents -> Nat]] /\ count \in Nat
  BY <1>1 DEF AuthInv, AuthTypeOK
<1>3. denials' = [denials EXCEPT ![calls[c].at][calls[c].agent] = count]
  BY DEF Denied
<1>4. denials' \in [Instances -> [Agents -> Nat]]
  BY <1>1, <1>2, <1>3
<1>5. /\ \A i \in Instances, a \in Agents :
            denials'[i][a] = IF i = calls[c].at /\ a = calls[c].agent THEN count ELSE denials[i][a]
      /\ UNCHANGED failed /\ failed \in [Instances -> [Agents -> BOOLEAN]]
  BY <1>1, <1>2, <1>3 DEF Denied, AuthInv, AuthTypeOK
<1>6. CASE count < DenialLimit
  <2>1. Finish(c, "deny")
    BY <1>2, <1>6 DEF Denied
  <2>2. \A i \in Instances, a \in Agents :
           denials'[i][a] >= DenialLimit => denials[i][a] >= DenialLimit
    BY <1>2, <1>4, <1>5, <1>6
  <2> QED BY <1>4, <1>5, <2>1, <2>2, FinishKeepsInv DEF Decisions
<1>7. CASE count >= DenialLimit
  <2> DEFINE existing == InQuarantine(calls[c].agent)
             call == [NoCall EXCEPT !.pc = "quarantine", !.at = calls[c].at, !.agent = calls[c].agent,
                                    !.existing = existing]
  <2>1. existing \in BOOLEAN
    BY DEF InQuarantine
  <2>2. calls' = [calls EXCEPT ![c] = call]
    BY <1>7 DEF Denied
  <2> HIDE DEF existing
  <2>3. /\ call \in Call /\ call.pc = "quarantine"
        /\ call.at = calls[c].at /\ call.agent = calls[c].agent
    BY <1>1, <2>1, SomeCall DEF Call
  <2> HIDE DEF call
  <2>4. calls' \in [Calls -> Call] /\ WaitsInv' /\ NoEventNoDrift'
    BY <2>2, <2>3, LeavesKeeps
  <2>5. \A d \in Calls : calls'[d] = IF d = c THEN call ELSE calls[d]
    BY <2>2 DEF AuthInv, AuthTypeOK
  <2>6. FullCountIsHandled'
    <3> SUFFICES ASSUME NEW i \in Instances, NEW a \in Agents, denials'[i][a] >= DenialLimit,
                        ~failed'[i][a]
                 PROVE  \E d \in Calls : Handles(calls'[d], i, a)
      BY DEF FullCountIsHandled, Handles
    <3>1. CASE i = calls[c].at /\ a = calls[c].agent
      BY <2>3, <2>5, <3>1 DEF Handles
    <3>2. CASE ~(i = calls[c].at /\ a = calls[c].agent)
      <4>1. denials[i][a] >= DenialLimit /\ ~failed[i][a]
        BY <1>5, <3>2
      <4>2. PICK d \in Calls : Handles(calls[d], i, a)
        BY <4>1 DEF AuthInv, FullCountIsHandled, Handles
      <4> QED BY <2>5, <4>2 DEF Handles
    <3> QED BY <3>1, <3>2
  <2>7. AuthTypeOK'
    BY <1>4, <1>5, <2>4 DEF AuthInv, AuthTypeOK, policyVars
  <2> QED BY <2>4, <2>6, <2>7 DEF AuthInv
<1> QED BY <1>2, <1>6, <1>7

LEMMA DecideKeepsInv ==
    ASSUME AuthInv, NEW c \in Calls, calls[c].pc = "daemon", NEW decision, Decide(c, decision)
    PROVE  AuthInv'
<1>1. /\ denials \in [Instances -> [Agents -> Nat]] /\ failed \in [Instances -> [Agents -> BOOLEAN]]
      /\ UNCHANGED <<policyVars, records>>
  BY DEF AuthInv, AuthTypeOK, Decide
<1>2. "allow" \in Decisions /\ "deny" \in Decisions /\ DenialLimit \in Nat \ {0}
  BY AuthorizationAssumption DEF Decisions
<1>3. ASSUME Cleared(c), Finish(c, "allow") PROVE AuthInv'
  <2>1. \A i \in Instances, a \in Agents : denials'[i][a] >= DenialLimit =>
            denials[i][a] >= DenialLimit /\ failed'[i][a] = failed[i][a]
    BY <1>2, <1>3, ClearedCounters
  <2> QED BY <1>1, <1>2, <1>3, <2>1, ClearedCounters, FinishKeepsInv
<1>4. ASSUME UNCHANGED countVars, NEW d \in Decisions, Finish(c, d) PROVE AuthInv'
  BY <1>1, <1>4, FinishKeepsInv DEF countVars
<1>5. ASSUME Denied(c) PROVE AuthInv'
  BY <1>1, <1>5, DeniedKeepsInv
<1> QED BY <1>2, <1>3, <1>4, <1>5 DEF Decide

LEMMA QuarantineKeepsInv ==
    ASSUME AuthInv, NEW c \in Calls, Quarantine(c) \/ QuarantineFails(c) \/ Forget(c)
    PROVE  AuthInv'
<1>1. calls[c] \in Call /\ "deny" \in Decisions /\ DenialLimit \in Nat \ {0}
  BY AuthorizationAssumption DEF AuthInv, AuthTypeOK, Decisions
<1>2. ASSUME Cleared(c), Finish(c, "deny"), UNCHANGED <<policyVars, records>>
      PROVE  AuthInv'
  <2>1. \A i \in Instances, a \in Agents : denials'[i][a] >= DenialLimit =>
            /\ denials[i][a] >= DenialLimit /\ failed'[i][a] = failed[i][a]
            /\ ~Handles(calls[c], i, a)
    BY <1>1, <1>2, ClearedCounters DEF Handles
  <2>2. failed \in [Instances -> [Agents -> BOOLEAN]]
    BY DEF AuthInv, AuthTypeOK
  <2> QED BY <1>1, <1>2, <2>1, <2>2, ClearedCounters, FinishKeepsInv
<1>3. ASSUME calls[c].pc = "quarantine", UNCHANGED <<policyVars, countVars>>,
             records' = [records EXCEPT ![calls[c].agent] = "active"],
             calls' = [calls EXCEPT ![c].pc = "forget"]
      PROVE  AuthInv'
  <2> DEFINE call == [calls[c] EXCEPT !.pc = "forget"]
  <2>1. call \in Call /\ call.pc = "forget" /\ call.at = calls[c].at /\ call.agent = calls[c].agent
    BY <1>1 DEF Call
  <2>2. calls' = [calls EXCEPT ![c] = call]
    BY <1>3
  <2> HIDE DEF call
  <2>3. calls' \in [Calls -> Call] /\ WaitsInv' /\ NoEventNoDrift'
    BY <1>3, <2>1, <2>2, LeavesKeeps
  <2>4. \A d \in Calls : calls'[d] = IF d = c THEN call ELSE calls[d]
    BY <2>2 DEF AuthInv, AuthTypeOK
  <2>5. FullCountIsHandled'
    BY <1>3, <2>1, <2>4 DEF AuthInv, FullCountIsHandled, countVars
  <2>6. AuthTypeOK'
    BY <1>3, <2>3 DEF AuthInv, AuthTypeOK, policyVars, countVars
  <2> QED BY <2>3, <2>5, <2>6 DEF AuthInv
<1>4. CASE QuarantineFails(c)
  <2> DEFINE settled == \/ failed[calls[c].at][calls[c].agent]
                        \/ denials[calls[c].at][calls[c].agent] >= DenialLimit
  <2>1. /\ calls[c].at \in Instances /\ calls[c].agent \in Agents
        /\ denials \in [Instances -> [Agents -> Nat]]
        /\ failed \in [Instances -> [Agents -> BOOLEAN]]
    BY <1>1 DEF AuthInv, AuthTypeOK, Call
  <2>2. failed' = [failed EXCEPT ![calls[c].at][calls[c].agent] = settled] /\ settled \in BOOLEAN
    BY <1>4, <2>1 DEF QuarantineFails
  <2>3. /\ Finish(c, "deny") /\ UNCHANGED <<policyVars, records, denials>>
    BY <1>4 DEF QuarantineFails
  <2> HIDE DEF settled
  <2>4. /\ failed' \in [Instances -> [Agents -> BOOLEAN]]
        /\ \A i \in Instances, a \in Agents :
              failed'[i][a] = IF i = calls[c].at /\ a = calls[c].agent THEN settled ELSE failed[i][a]
    BY <2>1, <2>2
  <2>5. \A i \in Instances, a \in Agents : denials'[i][a] >= DenialLimit =>
            \/ failed'[i][a]
            \/ denials[i][a] >= DenialLimit /\ ~failed[i][a] /\ ~Handles(calls[c], i, a)
    BY <2>1, <2>3, <2>4 DEF Handles, settled
  <2> QED BY <1>1, <2>1, <2>3, <2>4, <2>5, FinishKeepsInv
<1> QED BY <1>2, <1>3, <1>4 DEF Quarantine, Forget

LEMMA WorldKeepsInv ==
    ASSUME AuthInv, NEW f \in Files, NEW l \in [Instances -> Loadable], NEW n \in BOOLEAN,
           NEW q \in [Agents -> {"none", "active", "released"}],
           Witnessed(f, l, n, q), file' = f, loaded' = l, notified' = n, records' = q,
           NoEventNoDrift', UNCHANGED <<fallback, countVars>>
    PROVE  AuthInv'
<1>1. calls' \in [Calls -> Call] /\ WaitsInv' /\ \A c \in Calls : Alike(calls'[c], calls[c])
  BY WitnessedKeeps
<1>2. FullCountIsHandled'
  BY <1>1, AlikeHandles
<1>3. AuthTypeOK'
  BY <1>1 DEF AuthInv, AuthTypeOK, countVars
<1> QED BY <1>1, <1>2, <1>3 DEF AuthInv

LEMMA AdminKeepsInv ==
    ASSUME AuthInv, AdminStep
    PROVE  AuthInv'
<1>1. /\ file \in Files /\ loaded \in [Instances -> Loadable] /\ notified \in BOOLEAN
      /\ records \in [Agents -> {"none", "active", "released"}] /\ "gateway" \in Instances
      /\ denials \in [Instances -> [Agents -> Nat]]
      /\ failed \in [Instances -> [Agents -> BOOLEAN]] /\ calls \in [Calls -> Call]
      /\ NoEventNoDrift /\ file.rules \in Loadable
  BY DEF AuthInv, AuthTypeOK, Instances, Callers, Loadable
<1>2. ASSUME NEW a \in Agents, NEW status \in {"active", "released"}, SetRecord(a, status)
      PROVE  AuthInv'
  <2> DEFINE q == [records EXCEPT ![a] = status]
  <2>1. q \in [Agents -> {"none", "active", "released"}]
    BY <1>1
  <2>2. /\ Witnessed(file, loaded, notified, q) /\ records' = q
        /\ UNCHANGED <<file, loaded, notified, fallback, countVars>>
    BY <1>2 DEF SetRecord, policyVars
  <2>3. NoEventNoDrift'
    BY <1>1, <2>2 DEF NoEventNoDrift
  <2> HIDE DEF q
  <2> QED BY <1>1, <2>1, <2>2, <2>3, WorldKeepsInv
<1>3. CASE ResetRecords
  <2> DEFINE q == [a \in Agents |-> "none"]
  <2>1. q \in [Agents -> {"none", "active", "released"}]
    OBVIOUS
  <2>2. /\ Witnessed(file, loaded, notified, q) /\ records' = q
        /\ UNCHANGED <<file, loaded, notified, fallback, countVars>>
    BY <1>3 DEF ResetRecords, policyVars
  <2>3. NoEventNoDrift'
    BY <1>1, <2>2 DEF NoEventNoDrift
  <2> HIDE DEF q
  <2> QED BY <1>1, <2>1, <2>2, <2>3, WorldKeepsInv
<1>4. ASSUME NEW f \in Files, EditPolicy(f)
      PROVE  AuthInv'
  <2>1. /\ Witnessed(f, loaded, TRUE, records) /\ file' = f /\ notified' = TRUE
        /\ UNCHANGED <<loaded, fallback, records, countVars>>
    BY <1>4 DEF EditPolicy
  <2>2. NoEventNoDrift'
    BY <2>1 DEF NoEventNoDrift
  <2> QED BY <1>1, <2>1, <2>2, WorldKeepsInv
<1>5. ASSUME NEW f \in Files, ApplyPolicy(f)
      PROVE  AuthInv'
  <2> DEFINE l == [loaded EXCEPT !["gateway"] = f.rules]
  <2>1. l \in [Instances -> Loadable]
    BY <1>1 DEF Loadable
  <2>2. /\ Witnessed(f, l, TRUE, records) /\ file' = f /\ loaded' = l /\ notified' = TRUE
        /\ UNCHANGED <<fallback, records, countVars>>
    BY <1>5 DEF ApplyPolicy
  <2>3. NoEventNoDrift'
    BY <2>2 DEF NoEventNoDrift
  <2> HIDE DEF l
  <2> QED BY <1>1, <2>1, <2>2, <2>3, WorldKeepsInv
<1>6. ASSUME Reload, notified' \in BOOLEAN
      PROVE  AuthInv'
  <2> DEFINE l == [loaded EXCEPT !["gateway"] = file.rules]
  <2>1. l \in [Instances -> Loadable] /\ l["gateway"] = file.rules
    BY <1>1
  <2>2. /\ Witnessed(file, l, notified', records) /\ loaded' = l
        /\ UNCHANGED <<file, fallback, records, countVars>>
    BY <1>6 DEF Reload
  <2>3. NoEventNoDrift'
    BY <2>1, <2>2 DEF NoEventNoDrift
  <2> HIDE DEF l
  <2> QED BY <1>1, <1>6, <2>1, <2>2, <2>3, WorldKeepsInv
<1>7. CASE Watch \/ ReloadByHand
  BY <1>1, <1>6, <1>7 DEF Watch, ReloadByHand
<1>8. ASSUME NEW i \in Instances, RestartProcess(i)
      PROVE  AuthInv'
  <2>1. \A c \in Calls : calls'[c] = IF calls[c].at = i THEN NoCall ELSE calls[c]
    BY <1>8 DEF RestartProcess
  <2>2. calls' \in [Calls -> Call]
    BY <1>1, <1>8, SomeCall DEF RestartProcess
  <2>3. /\ file' = file /\ \A j \in Instances : loaded'[j] = IF j = i THEN file.rules ELSE loaded[j]
    BY <1>1, <1>8 DEF RestartProcess
  <2>4. WaitsInv'
    <3> SUFFICES ASSUME NEW c \in Calls, Waiting(calls'[c])
                 PROVE  Covers(calls'[c], file', loaded', notified')
      BY CoversNext
    <3>1. calls'[c] = calls[c] /\ calls[c].at # i /\ Waiting(calls[c]) /\ calls[c].at \in Instances
      BY <1>1, <2>1, SomeCall DEF Waiting, Call
    <3>2. loaded'[calls[c].at] = loaded[calls[c].at]
      BY <2>3, <3>1
    <3>3. calls[c].at = "gateway" => notified' = notified
      BY <1>8, <3>1 DEF RestartProcess
    <3> QED BY <2>3, <3>1, <3>2, <3>3 DEF AuthInv, WaitsInv, Covers
  <2>5. \A j \in Instances : /\ denials'[j] = IF j = i THEN [a \in Agents |-> 0] ELSE denials[j]
                             /\ j # i => failed'[j] = failed[j]
    BY <1>1, <1>8 DEF RestartProcess
  <2>6. FullCountIsHandled'
    <3> SUFFICES ASSUME NEW j \in Instances, NEW a \in Agents, denials'[j][a] >= DenialLimit,
                        ~failed'[j][a]
                 PROVE  \E c \in Calls : Handles(calls'[c], j, a)
      BY DEF FullCountIsHandled, Handles
    <3>1. j # i /\ denials[j][a] >= DenialLimit /\ ~failed[j][a]
      BY <2>5, AuthorizationAssumption
    <3>2. PICK c \in Calls : Handles(calls[c], j, a)
      BY <3>1 DEF AuthInv, FullCountIsHandled, Handles
    <3> QED BY <2>1, <3>1, <3>2 DEF Handles
  <2>7. NoEventNoDrift'
    BY <1>1, <1>8, <2>3 DEF RestartProcess, NoEventNoDrift
  <2>8. AuthTypeOK'
    <3>1. /\ loaded' \in [Instances -> Loadable] /\ denials' \in [Instances -> [Agents -> Nat]]
          /\ failed' \in [Instances -> [Agents -> BOOLEAN]]
      BY <1>1, <1>8 DEF RestartProcess
    <3>2. notified' \in BOOLEAN
      BY <1>1, <1>8 DEF RestartProcess
    <3> QED BY <1>8, <2>2, <3>1, <3>2 DEF RestartProcess, AuthInv, AuthTypeOK
  <2> QED BY <2>4, <2>6, <2>7, <2>8 DEF AuthInv
<1> QED BY <1>2, <1>3, <1>4, <1>5, <1>7, <1>8 DEF AdminStep, QuarantineByHand, Release

LEMMA AuthNextKeepsInv ==
    ASSUME AuthInv, [AuthNext]_authVars
    PROVE  AuthInv'
<1>1. ASSUME NEW c \in Calls, CallStep(c)
      PROVE  AuthInv'
  BY <1>1, BeginKeepsInv, DecideKeepsInv, QuarantineKeepsInv DEF CallStep, DaemonDecides, DaemonFails
<1>2. CASE UNCHANGED authVars
  <2>1. UNCHANGED <<file, loaded, notified, calls>>
    BY <1>2 DEF authVars
  <2>2. WaitsInv'
    BY <2>1, CoversNext DEF AuthInv, WaitsInv
  <2> QED BY <1>2, <2>2 DEF authVars, AuthInv, AuthTypeOK, FullCountIsHandled, NoEventNoDrift
<1> QED BY <1>1, <1>2, AdminKeepsInv DEF AuthNext

LEMMA AuthInvHolds == AuthSpec => []AuthInv
<1>1. ASSUME AuthInit PROVE AuthInv
  <2>1. calls \in [Calls -> Call] /\ \A c \in Calls : calls[c].pc = "idle"
    BY <1>1, SomeCall DEF AuthInit
  <2>2. /\ denials \in [Instances -> [Agents -> Nat]] /\ failed \in [Instances -> [Agents -> BOOLEAN]]
        /\ \A i \in Instances, a \in Agents : denials[i][a] = 0
    BY <1>1 DEF AuthInit
  <2>3. loaded \in [Instances -> Loadable] /\ loaded["gateway"] = file.rules /\ file \in Files
    BY <1>1 DEF AuthInit, Files, Loadable, Instances, Callers
  <2>4. records \in [Agents -> {"none", "active", "released"}]
    BY <1>1 DEF AuthInit
  <2>5. AuthTypeOK
    BY <1>1, <2>1, <2>2, <2>3, <2>4 DEF AuthInit, AuthTypeOK
  <2> QED BY <2>1, <2>2, <2>3, <2>5, AuthorizationAssumption
          DEF AuthInv, WaitsInv, Waiting, FullCountIsHandled, NoEventNoDrift
<1> QED BY <1>1, AuthNextKeepsInv, PTL DEF AuthSpec

---------------------------------------------------------------------------

\* Policies, records, counters and calls keep their types.
THEOREM AuthTypesHold == AuthSpec => []AuthTypeOK
<1>1. AuthInv => AuthTypeOK
  BY DEF AuthInv
<1> QED BY <1>1, AuthInvHolds, PTL

\* A full counter is always somebody's to handle, whatever calls of both
\* processes, restarts and administrators do to records and counters.
THEOREM FullCountsHandled == AuthSpec => []FullCountIsHandled
<1>1. AuthInv => FullCountIsHandled
  BY DEF AuthInv
<1> QED BY <1>1, AuthInvHolds, PTL

\* The gateway's evaluator is the file's unless an event waits to be handled.
THEOREM NoDrift == AuthSpec => []NoEventNoDrift
<1>1. AuthInv => NoEventNoDrift
  BY DEF AuthInv
<1> QED BY <1>1, AuthInvHolds, PTL

\* The two kinds of rules are told apart, so each holds by its own condition.
LEMMA RulesApart ==
    ASSUME NEW rule, NEW r, NEW ctx
    PROVE  /\ rule \in PermitRules => (Holds(rule, r, ctx) <=> PermitHolds(rule, r))
           /\ rule \in ForbidRules => (Holds(rule, r, ctx) <=> ForbidHolds(rule, r, ctx))
<1>1. rule \in ForbidRules => rule \notin PermitRules
  BY DEF ForbidRules, PermitRules, Owner
<1> QED BY <1>1 DEF Holds

\* The daemon sees the same context: no call of this module has a subagent entry.
LEMMA SameToDaemon ==
    ASSUME NEW f, NEW r, NEW call
    PROVE  Authorized(f, r, DaemonContext(ContextOf(call))) <=> Authorized(f, r, ContextOf(call))
<1> DEFINE here == ContextOf(call)
           there == DaemonContext(ContextOf(call))
<1>1. /\ there.quarantined = here.quarantined /\ there.pipeline = here.pipeline
      /\ there.audited = here.audited /\ there.ham = here.ham
      /\ there.synthesized = here.synthesized /\ there.exhausted = here.exhausted
      /\ there.subagent = here.subagent /\ there.requirement = here.requirement
      /\ there.tests = here.tests /\ there.drift = here.drift
      /\ there.driftVerified = here.driftVerified /\ there.version = here.version
      /\ there.changelog = here.changelog /\ there.feedback = here.feedback
      /\ there.aligned = here.aligned
  BY DEF DaemonContext, ContextOf
<1> HIDE DEF here, there
<1>2. \A rule : Holds(rule, r, there) <=> Holds(rule, r, here)
  BY <1>1 DEF Holds, ForbidHolds, GateForbids, RequirementMissing
<1>3. Authorized(f, r, there) <=> Authorized(f, r, here)
  BY <1>2 DEF Authorized
<1> QED BY <1>3 DEF here, there

\* What lets a call through: the daemon, which found a whole policy, or the
\* evaluator that stands in for it; both over the context the call began with.
LEMMA LetsBy ==
    ASSUME AuthInv, NEW c \in Calls, [AuthNext]_authVars, Lets(c)
    PROVE  \/ file.whole /\ Permits(file.rules, calls[c])
           \/ fallback /\ PermitsResolved(loaded[calls[c].at], calls[c])
<1>1. calls \in [Calls -> Call] /\ calls[c].pc = "daemon" /\ calls'[c].pc = "idle"
      /\ calls'[c].decision = "allow"
  BY DEF AuthInv, AuthTypeOK, Lets
<1>2. ASSUME NEW call, NEW d \in Calls, calls' = [calls EXCEPT ![d] = call], d # c
      PROVE  FALSE
  BY <1>1, <1>2
<1>3. ASSUME NEW f, NEW l, NEW n, NEW q, Witnessed(f, l, n, q),
             file' = f, loaded' = l, notified' = n
      PROVE  FALSE
  <2>1. Alike(calls'[c], calls[c])
    BY <1>3, WitnessedKeeps
  <2> QED BY <1>1, <2>1 DEF Alike
<1>4. ASSUME AdminStep PROVE FALSE
  <2>1. ASSUME NEW i \in Instances, RestartProcess(i) PROVE FALSE
    BY <1>1, <2>1, SomeCall DEF RestartProcess
  <2>2. ASSUME NEW a \in Agents, QuarantineByHand(a) \/ Release(a) PROVE FALSE
    BY <1>3, <2>2 DEF QuarantineByHand, Release, SetRecord, policyVars
  <2>3. ASSUME ResetRecords PROVE FALSE
    BY <1>3, <2>3 DEF ResetRecords, policyVars
  <2>4. ASSUME NEW f \in Files, EditPolicy(f) \/ ApplyPolicy(f) PROVE FALSE
    BY <1>3, <2>4 DEF EditPolicy, ApplyPolicy
  <2>5. ASSUME Watch \/ ReloadByHand PROVE FALSE
    BY <1>3, <2>5 DEF Watch, ReloadByHand, Reload
  <2> QED BY <1>4, <2>1, <2>2, <2>3, <2>4, <2>5 DEF AdminStep
<1>5. PICK d \in Calls : CallStep(d)
  BY <1>1, <1>4 DEF AuthNext, authVars
<1>6. ASSUME NEW e, Decide(d, e) PROVE d = c /\ e = "allow"
  <2>1. d = c
    <3>1. CASE \E x : Finish(d, x)
      BY <1>2, <3>1 DEF Finish
    <3>2. CASE Denied(d)
      <4>1. d # c => calls'[c] = calls[c]
        BY <1>1, <3>2 DEF Denied, Finish
      <4> QED BY <1>1, <4>1
    <3> QED BY <1>6, <3>1, <3>2 DEF Decide
  <2>2. CASE e # "allow"
    <3>1. ASSUME Finish(c, "deny") PROVE FALSE
      BY <1>1, <3>1, SomeCall DEF Finish, Call
    <3>2. ASSUME Denied(c) PROVE FALSE
      <4>1. calls[c] \in Call
        BY <1>1
      <4>2. calls'[c].pc = "quarantine"
        BY <1>1, <3>1, <3>2, <4>1, SomeCall DEF Denied, NoCall
      <4> QED BY <1>1, <4>2
    <3> QED BY <1>6, <2>1, <2>2, <3>1, <3>2 DEF Decide
  <2> QED BY <2>1, <2>2
<1>7. CASE DaemonDecides(d)
  <2>1. d = c /\ file.whole /\ EvaluateDaemon(file.rules, calls[d].request, ContextOf(calls[d])) = "allow"
    BY <1>6, <1>7 DEF DaemonDecides
  <2>2. Authorized(file.rules, calls[c].request, DaemonContext(ContextOf(calls[c])))
    BY <2>1 DEF EvaluateDaemon
  <2> QED BY <2>1, <2>2, SameToDaemon DEF Permits
<1>8. CASE DaemonFails(d)
  <2>1. d = c /\ Resolve(FALSE, "deny", fallback,
                         EvaluateTS(calls[d].at, loaded[calls[d].at], calls[d].request,
                                    ContextOf(calls[d]))) = "allow"
    BY <1>6, <1>8 DEF DaemonFails
  <2> QED BY <2>1 DEF Resolve, EvaluateTS, PermitsResolved
<1>9. ASSUME Begin(d, calls[d].at, calls[d].agent, calls[d].request)
             \/ (\E i \in Instances, a \in Agents, r \in Requested : Begin(d, i, a, r))
      PROVE  FALSE
  <2>1. d # c
    BY <1>1, <1>9 DEF Begin
  <2> QED BY <1>1, <1>9, <2>1 DEF Begin
<1>10. ASSUME Quarantine(d) \/ QuarantineFails(d) \/ Forget(d) PROVE FALSE
  <2>1. d # c
    BY <1>1, <1>10 DEF Quarantine, QuarantineFails, Forget
  <2> QED BY <1>1, <1>10, <2>1 DEF Quarantine, QuarantineFails, Forget, Finish
<1> QED BY <1>5, <1>7, <1>8, <1>9, <1>10 DEF CallStep

\* A call passes only by a policy that was in force while it ran.
THEOREM DecidedInForce == AuthSpec => DecidedByPolicyInForce
<1>1. ASSUME AuthInv, [AuthNext]_authVars
      PROVE  [\A c \in Calls : Lets(c) =>
                 \/ calls[c].onDisk
                 \/ /\ fallback
                    /\ calls[c].inProcess
                    /\ calls[c].at = "gateway" => calls[c].timely]_authVars
  <2> SUFFICES ASSUME NEW c \in Calls, Lets(c)
               PROVE  \/ calls[c].onDisk
                      \/ /\ fallback
                         /\ calls[c].inProcess
                         /\ calls[c].at = "gateway" => calls[c].timely
    OBVIOUS
  <2>1. Covers(calls[c], file, loaded, notified)
    BY <1>1 DEF Lets, Waiting, AuthInv, WaitsInv
  <2>2. CASE file.whole /\ Permits(file.rules, calls[c])
    BY <2>1, <2>2 DEF Covers
  <2>3. CASE fallback /\ PermitsResolved(loaded[calls[c].at], calls[c])
    <3>1. calls[c].at = "gateway" => notified \/ PermitsResolved(file.rules, calls[c])
      BY <1>1, <2>3 DEF AuthInv, AuthTypeOK, NoEventNoDrift
    <3> QED BY <2>1, <2>3, <3>1 DEF Covers
  <2> QED BY <1>1, <2>2, <2>3, LetsBy
<1> QED BY <1>1, AuthInvHolds, PTL DEF AuthSpec, DecidedByPolicyInForce

\* A principal in quarantine throughout a call does nothing but read.
THEOREM QuarantineHolds == AuthSpec => QuarantineConfines
<1>1. ASSUME AuthInv, [AuthNext]_authVars
      PROVE  [\A c \in Calls : Lets(c) /\ calls[c].confined => ~Acts(calls[c])]_authVars
  <2> SUFFICES ASSUME NEW c \in Calls, Lets(c), calls[c].confined
               PROVE  ~Acts(calls[c])
    OBVIOUS
  <2>1. calls[c].quarantined /\ Guarded(file.rules) /\ Guarded(loaded[calls[c].at])
    BY <1>1 DEF Lets, Waiting, AuthInv, WaitsInv, Covers
  <2>2. ASSUME NEW rules, NEW r, Guarded(rules), Authorized(rules, r, ContextOf(calls[c]))
        PROVE  r.tool \in Reading
    <3>1. "quarantine" \in ForbidRules
      BY DEF ForbidRules
    <3>2. "quarantine" \in rules
      BY <2>2 DEF Guarded, Authorized
    <3>3. ContextOf(calls[c]).quarantined
      BY <2>1 DEF ContextOf
    <3> QED BY <2>2, <3>1, <3>2, <3>3, RulesApart DEF Authorized, ForbidHolds, GateForbids
  <2>3. Resolved(calls[c].request).tool = calls[c].request.tool
    <3>1. calls[c].request \in Request
      BY <1>1, AuthorizationAssumption DEF AuthInv, AuthTypeOK, Call
    <3> QED BY <3>1 DEF Resolved, Request
  <2>4. \/ Authorized(file.rules, calls[c].request, ContextOf(calls[c]))
        \/ Authorized(loaded[calls[c].at], Resolved(calls[c].request), ContextOf(calls[c]))
    BY <1>1, LetsBy DEF Permits, PermitsResolved
  <2> QED BY <2>1, <2>2, <2>3, <2>4 DEF Acts
<1> QED BY <1>1, AuthInvHolds, PTL DEF AuthSpec, QuarantineConfines

---------------------------------------------------------------------------
(* The verdicts of the evaluators *)

Judgement ==
    [gateway |-> EvaluateTS("gateway", FullPolicy, request, context),
     mcp |-> EvaluateTS("mcp", FullPolicy, request, context),
     daemon |-> IF DaemonAnswers(context)
                THEN EvaluateDaemon(FullPolicy, request, context)
                ELSE "failed",
     simulator |-> Simulated]

VerdictInv ==
    /\ request \in Request /\ context \in Context
    /\ verdicts \in {Unjudged, Judgement}

LEMMA VerdictInvHolds == VerdictSpec => []VerdictInv
<1>1. VerdictInit => VerdictInv
  BY VerdictAssumption DEF VerdictInit, VerdictInv
<1>2. VerdictInv /\ [Judge]_verdictVars => VerdictInv'
  BY DEF VerdictInv, Judge, Judgement, Simulated, verdictVars
<1> QED BY <1>1, <1>2, PTL DEF VerdictSpec

\* The daemon's context differs from the gateway's in the subagent alone.
LEMMA SentContext ==
    ASSUME NEW ctx \in Context
    PROVE  LET sent == DaemonContext(ctx) IN
           /\ sent.quarantined = ctx.quarantined
           /\ sent.pipeline = ctx.pipeline /\ sent.audited = ctx.audited /\ sent.ham = ctx.ham
           /\ sent.synthesized = ctx.synthesized /\ sent.tests = ctx.tests
           /\ sent.drift = ctx.drift /\ sent.driftVerified = ctx.driftVerified
           /\ sent.version = ctx.version /\ sent.changelog = ctx.changelog
           /\ sent.feedback = ctx.feedback /\ sent.aligned = ctx.aligned
           /\ ctx.subagent = "absent" => sent = ctx
BY DEF DaemonContext, Context

\* What the policy authorizes, none of its forbids holds of.
LEMMA NothingForbids ==
    ASSUME NEW r, NEW ctx, Authorized(FullPolicy, r, ctx), NEW rule \in ForbidRules
    PROVE  ~GateForbids(rule, r, ctx) /\ ~OwnerForbids(rule, r)
BY RulesApart DEF Authorized, FullPolicy, ForbidHolds

\* A resolved request is the same but for its path.
LEMMA ResolvedFields ==
    ASSUME NEW r \in Request
    PROVE  LET s == Resolved(r) IN
           /\ s.path = r.canonical /\ s.tool = r.tool /\ s.who = r.who /\ s.command = r.command
           /\ Writes(s) <=> Writes(r)
           /\ Releases(s) <=> Releases(r)
           /\ Publishes(s) <=> Publishes(r)
           /\ r.path = r.canonical => s = r
BY DEF Resolved, Request, Writes, Executes, Releases, Publishes

\* What an evaluator allows, the policy authorizes in the form it looks at.
LEMMA AllowedBy ==
    ASSUME VerdictInv
    PROVE  /\ LocallyAllowed => Authorized(FullPolicy, Resolved(request), context)
           /\ verdicts.daemon = "allow" => Authorized(FullPolicy, request, DaemonContext(context))
BY DEF VerdictInv, LocallyAllowed, Unjudged, Judgement, EvaluateTS, EvaluateDaemon

\* The gates of one context, for a request it authorizes.
LEMMA GatesOfContext ==
    ASSUME NEW r, NEW ctx, Authorized(FullPolicy, r, ctx)
    PROVE  /\ ctx.quarantined => r.tool \in Reading
           /\ Releases(r) => /\ ctx.pipeline /\ ctx.audited /\ ctx.ham /\ ctx.synthesized
                             /\ ctx.tests
                             /\ ctx.drift => ctx.driftVerified
                             /\ ctx.feedback => ctx.aligned
           /\ Publishes(r) => ctx.version /\ ctx.changelog
<1>1. {"quarantine", "pipeline", "audit", "ham", "synthesis", "tests", "drift", "release", "feedback"}
         \subseteq ForbidRules
  BY DEF ForbidRules
<1> QED BY <1>1, NothingForbids DEF GateForbids

\* A quarantine confines and a closed gate holds, for every request and context
\* and on every evaluator: no permit outweighs a forbid.
THEOREM VerdictsRespectGates == VerdictSpec => []GatesHold
<1>1. ASSUME VerdictInv, Allowed
      PROVE  /\ context.quarantined => request.tool \in Reading
             /\ Releases(request) => AllGatesOpen
             /\ Publishes(request) => context.version /\ context.changelog
  <2>1. context \in Context /\ request \in Request
    BY <1>1 DEF VerdictInv
  <2>2. CASE LocallyAllowed
    BY <1>1, <2>1, <2>2, AllowedBy, GatesOfContext, ResolvedFields DEF AllGatesOpen
  <2>3. CASE verdicts.daemon = "allow"
    BY <1>1, <2>1, <2>3, AllowedBy, GatesOfContext, SentContext DEF AllGatesOpen
  <2> QED BY <1>1, <2>2, <2>3 DEF Allowed
<1>2. VerdictInv => GatesHold
  BY <1>1 DEF GatesHold
<1> QED BY <1>2, VerdictInvHolds, PTL

\* Every file with an owner is written by its owner alone: the file the path
\* resolves to where the TS engine decides, the path as submitted where the
\* daemon does.
THEOREM VerdictsRespectOwners == VerdictSpec => []OwnersWrite
<1>1. ASSUME NEW r, NEW ctx, Authorized(FullPolicy, r, ctx), Writes(r), NEW x \in r.path \cap DOMAIN Owner
      PROVE  r.who = Owner[x]
  <2>1. x \in ForbidRules
    BY DEF ForbidRules
  <2>2. ~OwnerForbids(x, r)
    BY <1>1, <2>1, NothingForbids
  <2>3. Touches(r, {x})
    BY <1>1 DEF Touches
  <2> QED BY <2>2, <2>3 DEF OwnerForbids
<1>2. ASSUME VerdictInv, Writes(request), LocallyAllowed, NEW x \in request.canonical \cap DOMAIN Owner
      PROVE  request.who = Owner[x]
  <2>1. request \in Request
    BY <1>2 DEF VerdictInv
  <2> QED BY <1>1, <1>2, <2>1, AllowedBy, ResolvedFields
<1>3. ASSUME VerdictInv, Writes(request), verdicts.daemon = "allow",
             NEW x \in request.path \cap DOMAIN Owner
      PROVE  request.who = Owner[x]
  BY <1>1, <1>3, AllowedBy
<1>4. VerdictInv => OwnersWrite
  BY <1>2, <1>3 DEF OwnersWrite
<1> QED BY <1>4, VerdictInvHolds, PTL

\* The subagent rule aside, the policy says the same over the daemon's context;
\* and that rule only forbids.
LEMMA DaemonPermitsMore ==
    ASSUME NEW r, NEW ctx \in Context
    PROVE  /\ Authorized(FullPolicy, r, ctx) => Authorized(FullPolicy, r, DaemonContext(ctx))
           /\ ctx.subagent # "overspent" /\ Authorized(FullPolicy, r, DaemonContext(ctx))
                  => Authorized(FullPolicy, r, ctx)
<1> DEFINE sent == DaemonContext(ctx)
<1>1. /\ sent.quarantined = ctx.quarantined
      /\ sent.pipeline = ctx.pipeline /\ sent.audited = ctx.audited /\ sent.ham = ctx.ham
      /\ sent.synthesized = ctx.synthesized /\ sent.exhausted = ctx.exhausted
      /\ sent.requirement = ctx.requirement /\ sent.tests = ctx.tests
      /\ sent.drift = ctx.drift /\ sent.driftVerified = ctx.driftVerified
      /\ sent.version = ctx.version /\ sent.changelog = ctx.changelog
      /\ sent.feedback = ctx.feedback /\ sent.aligned = ctx.aligned
      /\ sent.subagent = "absent"
  BY DEF DaemonContext, Context
<1> HIDE DEF sent
<1>2. \A rule \in PermitRules : Holds(rule, r, sent) <=> Holds(rule, r, ctx)
  BY RulesApart
<1>3. \A rule : ForbidHolds(rule, r, sent) => ForbidHolds(rule, r, ctx)
  BY <1>1 DEF ForbidHolds, GateForbids, RequirementMissing
<1>4. ctx.subagent # "overspent" => \A rule : ForbidHolds(rule, r, ctx) => ForbidHolds(rule, r, sent)
  BY <1>1 DEF ForbidHolds, GateForbids, RequirementMissing
<1>5. /\ \A rule \in ForbidRules : Holds(rule, r, sent) => Holds(rule, r, ctx)
      /\ ctx.subagent # "overspent"
            => \A rule \in ForbidRules : Holds(rule, r, ctx) => Holds(rule, r, sent)
  BY <1>3, <1>4, RulesApart
<1>6. /\ Authorized(FullPolicy, r, ctx) => Authorized(FullPolicy, r, sent)
      /\ ctx.subagent # "overspent" /\ Authorized(FullPolicy, r, sent)
            => Authorized(FullPolicy, r, ctx)
  BY <1>2, <1>5 DEF Authorized
<1> QED BY <1>6 DEF sent

\* Where the daemon is given the path the engine works out, failing over loses
\* what does not resolve and what an overspent sub-agent asks, and gains nothing.
THEOREM FailoverGainsNothing == VerdictSpec => []FailoverIsStricter
<1>1. ASSUME VerdictInv, verdicts.daemon \in Decisions, request.path = request.canonical,
             NEW at \in Callers, verdicts[at] # verdicts.daemon
      PROVE  /\ verdicts[at] = "deny"
             /\ Unresolved(at, request) \/ context.subagent = "overspent"
  <2>1. request \in Request /\ context \in Context /\ Resolved(request) = request
    BY <1>1, ResolvedFields DEF VerdictInv
  <2>2. /\ verdicts[at] = EvaluateTS(at, FullPolicy, request, context)
        /\ verdicts.daemon = EvaluateDaemon(FullPolicy, request, context)
    <3>1. verdicts = Judgement
      BY <1>1 DEF VerdictInv, Unjudged, Decisions
    <3>2. verdicts.daemon # "failed"
      BY <1>1 DEF Decisions
    <3> QED BY <3>1, <3>2 DEF Judgement, Callers
  <2>3. CASE Authorized(FullPolicy, request, DaemonContext(context))
    BY <1>1, <2>1, <2>2, <2>3, DaemonPermitsMore DEF EvaluateTS, EvaluateDaemon
  <2>4. CASE ~Authorized(FullPolicy, request, DaemonContext(context))
    BY <1>1, <2>1, <2>2, <2>4, DaemonPermitsMore DEF EvaluateTS, EvaluateDaemon
  <2> QED BY <2>3, <2>4
<1>2. VerdictInv => FailoverIsStricter
  BY <1>1 DEF FailoverIsStricter
<1> QED BY <1>2, VerdictInvHolds, PTL

\* The simulator's verdict is the engine's.
THEOREM SimulatorAgrees == VerdictSpec => []SimulatorForetells
<1>1. Simulated = IF ~request.escapes /\ Authorized(FullPolicy, Resolved(request), context)
                  THEN "allow" ELSE "deny"
  <2> DEFINE matching == {rule \in FullPolicy : Holds(rule, Resolved(request), context)}
  <2>1. /\ matching \cap PermitRules # {}
              <=> \E rule \in FullPolicy \cap PermitRules : Holds(rule, Resolved(request), context)
        /\ matching \cap ForbidRules = {}
              <=> ~\E rule \in FullPolicy \cap ForbidRules : Holds(rule, Resolved(request), context)
    OBVIOUS
  <2> QED BY <2>1 DEF Simulated, EvaluateSimulator, Authorized
<1>2. /\ Simulated = EvaluateTS("mcp", FullPolicy, request, context)
      /\ request.given => Simulated = EvaluateTS("gateway", FullPolicy, request, context)
  BY <1>1 DEF EvaluateTS, Unresolved
<1>3. VerdictInv => SimulatorForetells
  BY <1>2 DEF VerdictInv, Unjudged, Judgement, SimulatorForetells
<1> QED BY <1>3, VerdictInvHolds, PTL

=============================================================================
