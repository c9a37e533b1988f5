---------------------------- MODULE MCConsensus ----------------------------
(***************************************************************************)
(* Instances of Consensus for TLC: two administrators, one developer and   *)
(* one auditor, so that a dangerous command queued by one administrator    *)
(* can still gather three roles, and an identity that holds two roles.     *)
(***************************************************************************)
EXTENDS ConsensusRefinement, TLC

CONSTANTS alice, bob, dana, otto,  \* identities
          build, wipe, wasm,       \* commands
          h1, h2

As(e, r) == [email |-> e, role |-> r]

\* Three voters for a command anyone but the developer queued.
FourSessions == {As(alice, "admin"), As(bob, "admin"),
                 As(dana, "developer"), As(otto, "auditor")}

\* The same person signed in under two roles.
TwoHats == {As(alice, "admin"), As(dana, "developer"),
            As(dana, "auditor"), As(otto, "auditor")}

\* Nobody can reset or override: two developers and an auditor.
NoAdmin == {As(dana, "developer"), As(bob, "developer"), As(otto, "auditor")}

\* One person per role.
ThreeSessions == {As(alice, "admin"), As(dana, "developer"), As(otto, "auditor")}

HandlerSymmetry == Permutations(Handlers)

=============================================================================
