----------------------------- MODULE MCConsole -----------------------------
(***************************************************************************)
(* Instances of SandboxPatch, WorkspaceDrift and AutoThrottle for TLC: one *)
(* run checks the three, focus, chosen at the start, says which one moves. *)
(***************************************************************************)
EXTENDS SandboxPatch, WorkspaceDrift, AutoThrottle

CONSTANTS r1, r2, e1, tracked, new, main, sub, x1, x2, c1, c2

VARIABLE focus

mcVars == <<focus, sandboxVars, driftVars, throttleVars>>

SomeChanges == {{}, {tracked, new}}

MCInit ==
    /\ focus \in {"patch", "drift", "throttle"}
    /\ SandboxInit /\ (focus = "patch" \/ ~fallback)
    /\ DriftInit /\ (focus = "drift" \/ ~async)
    /\ ThrottleInit

MCNext ==
    /\ \/ focus = "patch" /\ SandboxNext /\ UNCHANGED <<driftVars, throttleVars>>
       \/ focus = "drift" /\ DriftNext /\ UNCHANGED <<sandboxVars, throttleVars>>
       \/ focus = "throttle" /\ ThrottleNext /\ UNCHANGED <<sandboxVars, driftVars>>
    /\ UNCHANGED focus

\* The fairness of the components, in the instance that moves.
ScriptsGoOn(r) ==
    focus = "patch" /\ ScriptGoesOn(r) /\ UNCHANGED <<focus, driftVars, throttleVars>>
TimePasses ==
    focus = "throttle" /\ Tick /\ UNCHANGED <<focus, sandboxVars, driftVars>>

MCSpec ==
    /\ MCInit
    /\ [][MCNext]_mcVars
    /\ \A r \in Runs : WF_mcVars(ScriptsGoOn(r))
    /\ WF_mcVars(TimePasses)

=============================================================================
