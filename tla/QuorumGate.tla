----------------------------- MODULE QuorumGate -----------------------------
(***************************************************************************)
(* What the consensus gate promises, with no handlers, snapshots, timers   *)
(* or storage: a suspended request is granted at the very moment enough    *)
(* distinct voters, none of them its owner, stand behind it; a request     *)
(* that was closed is never granted; and nothing runs without its votes.   *)
(***************************************************************************)
EXTENDS Naturals, FiniteSets

CONSTANTS Requests, \* identities of the requests
          Voters,   \* [email, role] pairs
          Owners    \* who may make a request

VARIABLES phase,    \* "none", "open", "granted" or "closed"
          owner,
          need,     \* votes the request asks for
          votes,
          ran       \* requests that have been run

gateVars == <<phase, owner, need, votes, ran>>

Phases == {"none", "open", "granted", "closed"}

GateTypeOK ==
    /\ phase \in [Requests -> Phases]
    /\ owner \in [Requests -> Owners]
    /\ need \in [Requests -> {2, 3}]
    /\ votes \in [Requests -> SUBSET Voters]
    /\ ran \subseteq Requests

GateInit ==
    /\ phase = [r \in Requests |-> "none"]
    /\ owner \in [Requests -> Owners]
    /\ need \in [Requests -> {2, 3}]
    /\ votes = [r \in Requests |-> {}]
    /\ ran = {}

HasVotes(r, vs) == Cardinality(vs) >= need[r]

Open(r, e, n) ==
    /\ phase[r] = "none"
    /\ votes[r] = {}
    /\ phase' = [phase EXCEPT ![r] = "open"]
    /\ owner' = [owner EXCEPT ![r] = e]
    /\ need' = [need EXCEPT ![r] = n]
    /\ UNCHANGED <<votes, ran>>

\* A late vote, on a request already granted or closed, changes nothing else.
Vote(r, v) ==
    /\ phase[r] # "none"
    /\ v.email # owner[r]
    /\ \A w \in votes[r] : w.role # v.role /\ w.email # v.email
    /\ votes' = [votes EXCEPT ![r] = @ \cup {v}]
    /\ phase' = IF phase[r] = "open" /\ HasVotes(r, votes[r] \cup {v})
                THEN [phase EXCEPT ![r] = "granted"]
                ELSE phase
    /\ UNCHANGED <<owner, need, ran>>

Close(r) ==
    /\ phase[r] \in {"open", "granted"}
    /\ phase' = [phase EXCEPT ![r] = "closed"]
    /\ UNCHANGED <<owner, need, votes, ran>>

Discard ==
    /\ phase' = [r \in Requests |-> "none"]
    /\ UNCHANGED <<owner, need, votes, ran>>

Run(r) ==
    /\ HasVotes(r, votes[r])
    /\ ran' = ran \cup {r}
    /\ UNCHANGED <<phase, owner, need, votes>>

GateNext ==
    \/ \E r \in Requests, e \in Owners, n \in {2, 3} : Open(r, e, n)
    \/ \E r \in Requests, v \in Voters : Vote(r, v)
    \/ \E r \in Requests : Close(r) \/ Run(r)
    \/ Discard

GateSpec == GateInit /\ [][GateNext]_gateVars

=============================================================================
