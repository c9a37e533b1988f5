---------------------------- MODULE AutoThrottle ----------------------------
(***************************************************************************)
(* The auto-throttle of the gateway: a window of the last execution times, *)
(* whose average decays while nothing finishes, is forgotten after half a  *)
(* minute, and shuts the console while it is above a threshold.            *)
(*                                                                         *)
(* Time goes in steps of five seconds: idle is how many have passed since  *)
(* the last execution ended (six is more than the thirty seconds).         *)
(***************************************************************************)
EXTENDS Naturals, SequencesExt

CONSTANTS
    Callers,   \* handlers of POST /api/sandbox/execute
    Durations,    \* of an execution, in seconds
    Window,       \* MAX_LATENCY_HISTORY (10 in the code)
    Threshold     \* AUTO_THROTTLE_THRESHOLD_MS, in seconds (8 in the code)

ASSUME ThrottleAssumption ==
    Durations \subseteq Nat /\ Window \in Nat \ {0} /\ Threshold \in Nat

Forgotten == 6

VARIABLES
    latencies,  \* recentExecutionLatencies
    idle,       \* since lastExecutionTimestamp
    running,    \* requests past the middleware
    logging,    \* those whose sandboxed command has succeeded and is being logged
    quiet,      \* history: steps during which nothing ran, up to Forgotten
    recent      \* history: the last Window durations since the last quiet spell

throttleVars == <<latencies, idle, running, logging, quiet, recent>>

ThrottleTypeOK ==
    /\ latencies \in BoundedSeq(Durations, Window)
    /\ idle \in 0..Forgotten
    /\ running \subseteq Callers
    /\ logging \subseteq running
    /\ quiet \in 0..Forgotten
    /\ recent \in BoundedSeq(Durations, Window)

ThrottleInit ==
    /\ latencies = <<>>
    /\ idle = 0
    /\ running = {}
    /\ logging = {}
    /\ quiet = 0
    /\ recent = <<>>

---------------------------------------------------------------------------

\* addExecutionLatency
Push(window, duration) ==
    IF Len(window) = Window THEN Append(Tail(window), duration) ELSE Append(window, duration)

\* The average less 20% for every step, against the threshold: in whole numbers.
Above(window, steps) ==
    FoldSeq(+, 0, window) * 4 ^ steps > Threshold * Len(window) * 5 ^ steps

\* isAutoThrottleActive
Throttled == idle < Forgotten /\ latencies # <<>> /\ Above(latencies, idle)

\* What getMovingAverageLatency leaves of the window.
Remembered == IF idle = Forgotten THEN <<>> ELSE latencies

\* Any request through the middleware, and the metrics.
Read ==
    /\ latencies' = Remembered
    /\ UNCHANGED <<idle, running, logging, quiet, recent>>

\* Mutant of Enter: executions are not throttled.
EnterAnyway(x) ==
    /\ x \notin running
    /\ latencies' = Remembered
    /\ running' = running \cup {x}
    /\ quiet' = 0
    /\ recent' = IF quiet = Forgotten THEN <<>> ELSE recent
    /\ UNCHANGED <<idle, logging>>

\* POST /api/sandbox/execute passes the middleware.
Enter(x) ==
    /\ x \notin running
    /\ ~Throttled
    /\ latencies' = Remembered
    /\ running' = running \cup {x}
    /\ quiet' = 0
    /\ recent' = IF quiet = Forgotten THEN <<>> ELSE recent
    /\ UNCHANGED <<idle, logging>>

\* Refused on its way (lockout, allowlist, consensus): nothing is measured.
Leave(x) ==
    /\ x \in running \ logging
    /\ running' = running \ {x}
    /\ UNCHANGED <<latencies, idle, logging, quiet, recent>>

Measured(duration) ==
    /\ latencies' = Push(latencies, duration)
    /\ recent' = Push(recent, duration)
    /\ idle' = 0
    /\ UNCHANGED quiet

\* The command ends under WASI, or fails in the sandbox.
Finish(x, duration) ==
    /\ x \in running \ logging
    /\ Measured(duration)
    /\ running' = running \ {x}
    /\ UNCHANGED logging

\* It succeeds in the sandbox: the log and the drift detection are awaited.
Succeed(x, duration) ==
    /\ x \in running \ logging
    /\ Measured(duration)
    /\ logging' = logging \cup {x}
    /\ UNCHANGED running

Logged(x) ==
    /\ x \in logging
    /\ logging' = logging \ {x}
    /\ running' = running \ {x}
    /\ UNCHANGED <<latencies, idle, quiet, recent>>

\* One of them fails: the catch of the command measures it again.
MeasuredAgain(x, duration) ==
    /\ x \in logging
    /\ Measured(duration)
    /\ logging' = logging \ {x}
    /\ running' = running \ {x}

\* POST /api/reset
ClearLatencies ==
    /\ latencies' = <<>> /\ recent' = <<>>
    /\ idle' = 0
    /\ UNCHANGED <<running, logging, quiet>>

Tick ==
    /\ idle' = IF idle = Forgotten THEN idle ELSE idle + 1
    /\ quiet' = IF running # {} THEN 0 ELSE IF quiet = Forgotten THEN quiet ELSE quiet + 1
    /\ UNCHANGED <<latencies, running, logging, recent>>

ThrottleNext ==
    \/ Read
    \/ \E x \in Callers : Enter(x) \/ Leave(x) \/ Logged(x)
    \/ \E x \in Callers, d \in Durations : Finish(x, d) \/ Succeed(x, d) \/ MeasuredAgain(x, d)
    \/ ClearLatencies
    \/ Tick

\* Time passes.
ThrottleFairness == WF_throttleVars(Tick)

ThrottleSpec == ThrottleInit /\ [][ThrottleNext]_throttleVars /\ ThrottleFairness

---------------------------------------------------------------------------
(* Properties *)

\* The window is only cleared when somebody reads the average.  All the same,
\* after half a minute in which nothing ran, no execution is judged by the times
\* from before it: what decides is the last executions since, and no more.
OldTimesAreForgotten ==
    Throttled => quiet < Forgotten /\ IsSuffix(latencies, recent)

\* A throttled console opens again without a restart or a reset, whoever polls
\* it and whatever is still running.
ThrottleLifts == Throttled ~> ~Throttled

=============================================================================
