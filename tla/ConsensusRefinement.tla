------------------------ MODULE ConsensusRefinement ------------------------
(***************************************************************************)
(* The JSON store's consensus implements QuorumGate.  A row's status gives *)
(* its phase, the set of its approvals its votes, and a request has run    *)
(* once any route has run it.                                              *)
(***************************************************************************)
EXTENDS Consensus

PhaseOf(status) ==
    CASE status = "none"     -> "none"
      [] status = "pending"  -> "open"
      [] status = "approved" -> "granted"
      [] OTHER               -> "closed"

VotesOf(i) == {actions[i].approvals[k] : k \in DOMAIN actions[i].approvals}

HasRun == {i \in ActionIds : \E c \in Channels : runs[i][c] > 0}

Gate == INSTANCE QuorumGate WITH
    Requests <- ActionIds,
    Voters   <- Sessions,
    Owners   <- Emails,
    phase    <- [i \in ActionIds |-> PhaseOf(actions[i].status)],
    owner    <- [i \in ActionIds |-> actions[i].initiator],
    need     <- [i \in ActionIds |-> RequiredVotes(i)],
    votes    <- [i \in ActionIds |-> VotesOf(i)],
    ran      <- HasRun

\* Whatever the handlers, the expiry worker, the background timers, resets and
\* restarts do, they do no more than the gate promises.
ImplementsQuorumGate == Gate!GateSpec

=============================================================================
