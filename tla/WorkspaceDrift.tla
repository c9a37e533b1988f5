--------------------------- MODULE WorkspaceDrift ---------------------------
(***************************************************************************)
(* What the gateway knows of the workspace: detectFilesystemDrift, which   *)
(* follows every execution and records each file that differs from the     *)
(* commit; and reconcile and restore, which take the files back and then   *)
(* mark the records.  The files change under it: containers' patches, the  *)
(* tool server, editors.                                                   *)
(*                                                                         *)
(* Where the store is a file, the gateway does not return to its event     *)
(* loop between these steps; on Postgres it does at every record.          *)
(***************************************************************************)
EXTENDS Naturals, FiniteSets

CONSTANTS
    Paths,
    New,         \* of them, those the commit does not have
    Executions   \* handlers of POST /api/sandbox/execute

ASSUME DriftAssumption == New \subseteq Paths

VARIABLES
    drifted,     \* files that differ from the commit
    handlers,
    drifts,      \* drift records; those of a file in one state are one
    reconciling, \* the reconcile or restore in progress
    async,       \* the store is Postgres
    known        \* history: files recorded and not restored since

driftVars == <<drifted, handlers, drifts, reconciling, async, known>>

Handler == [pc : {"idle", "log", "detect", "answered"},
            succeeded : BOOLEAN,   \* the script exited with 0
            found : SUBSET Paths]  \* listed by git status, not yet recorded

Drift == [file : Paths, reconciled : BOOLEAN]

DriftTypeOK ==
    /\ drifted \subseteq Paths
    /\ handlers \in [Executions -> Handler]
    /\ drifts \subseteq Drift
    /\ reconciling \in {"no", "clean", "mark"}
    /\ async \in BOOLEAN
    /\ known \subseteq Paths

DriftInit ==
    /\ drifted = {}
    /\ handlers = [x \in Executions |-> [pc |-> "idle", succeeded |-> FALSE, found |-> {}]]
    /\ drifts = {}
    /\ reconciling = "no"
    /\ async \in BOOLEAN
    /\ known = {}

---------------------------------------------------------------------------

\* The gateway is between two steps that nothing of its own can come between.
Busy ==
    \/ reconciling = "clean"
    \/ ~async /\ (reconciling = "mark" \/ \E x \in Executions : handlers[x].pc \in {"log", "detect"})

Disturb(f) ==
    /\ drifted' = drifted \cup {f}
    /\ drifted' # drifted
    /\ UNCHANGED <<handlers, drifts, reconciling, async, known>>

---------------------------------------------------------------------------
(* POST /api/sandbox/execute, from the exit of the script *)

Handle(x, pc, handler) ==
    /\ handlers[x].pc = pc
    /\ handlers' = [handlers EXCEPT ![x] = handler]
    /\ UNCHANGED <<drifted, reconciling, async>>

ScriptExits(x, succeeded) ==
    /\ ~Busy
    /\ Handle(x, "idle", [pc |-> "log", succeeded |-> succeeded, found |-> {}])
    /\ UNCHANGED <<drifts, known>>

\* The command is logged, and git status run.
Detect(x) ==
    /\ Handle(x, "log", [handlers[x] EXCEPT !.pc = "detect", !.found = drifted])
    /\ UNCHANGED <<drifts, known>>

\* addCommandLog throws: tried again as a failed command, then given up, and
\* the detection with it.
LogFails(x) ==
    /\ Handle(x, "log", IF handlers[x].succeeded THEN [handlers[x] EXCEPT !.succeeded = FALSE]
                                                 ELSE [handlers[x] EXCEPT !.pc = "answered"])
    /\ UNCHANGED <<drifts, known>>

Opened(f) == [file |-> f, reconciled |-> FALSE]

AddDrift(x, f) ==
    /\ f \in handlers[x].found
    /\ Handle(x, "detect", [handlers[x] EXCEPT !.found = @ \ {f}])
    /\ drifts' = drifts \cup {Opened(f)}
    /\ known' = known \cup {f}

\* addDrift throws: the rest of the list is dropped.
AddDriftFails(x) ==
    /\ handlers[x].found # {}
    /\ Handle(x, "detect", [handlers[x] EXCEPT !.found = {}])
    /\ UNCHANGED <<drifts, known>>

Answer(x) ==
    /\ handlers[x].found = {}
    /\ Handle(x, "detect", [handlers[x] EXCEPT !.pc = "answered"])
    /\ UNCHANGED <<drifts, known>>

---------------------------------------------------------------------------
(* POST /api/sandbox/reconcile and /api/sandbox/restore *)

Step(now, next, restored) ==
    /\ reconciling = now
    /\ reconciling' = next
    /\ drifted' = drifted \ restored
    /\ known' = known \ restored
    /\ UNCHANGED <<handlers, async>>

\* git restore .
GitRestore == ~Busy /\ Step("no", "clean", Paths \ New) /\ UNCHANGED drifts

\* && git clean -fd
GitClean == Step("clean", "mark", New) /\ UNCHANGED drifts

\* Mutant of GitCleanFails: its failure goes unnoticed.
GitCleanFailsUnnoticed ==
    \E cleaned \in SUBSET New : Step("clean", "mark", cleaned) /\ UNCHANGED drifts

\* It fails with some of the files removed: nothing is marked.
GitCleanFails ==
    \E cleaned \in SUBSET New : Step("clean", "no", cleaned) /\ UNCHANGED drifts

\* reconcileDrifts
MarkReconciled ==
    /\ Step("mark", "no", {})
    /\ drifts' = {[d EXCEPT !.reconciled = TRUE] : d \in drifts}

MarkFails == Step("mark", "no", {}) /\ UNCHANGED drifts

---------------------------------------------------------------------------

\* clearDatabase
ClearDrifts ==
    /\ ~Busy
    /\ drifts # {}
    /\ drifts' = {} /\ known' = {}
    /\ UNCHANGED <<drifted, handlers, reconciling, async>>

\* The gateway dies with what it was doing.
GatewayDies ==
    /\ \/ reconciling # "no"
       \/ \E x \in Executions : handlers[x].pc \in {"log", "detect"}
    /\ reconciling' = "no"
    /\ handlers' = [x \in Executions |->
                      IF handlers[x].pc = "idle" THEN handlers[x]
                      ELSE [handlers[x] EXCEPT !.pc = "answered", !.found = {}]]
    /\ UNCHANGED <<drifted, drifts, async, known>>

HandlerStep(x) ==
    \/ \E succeeded \in BOOLEAN : ScriptExits(x, succeeded)
    \/ Detect(x) \/ LogFails(x)
    \/ \E f \in Paths : AddDrift(x, f)
    \/ AddDriftFails(x) \/ Answer(x)

ReconcileStep == GitRestore \/ GitClean \/ GitCleanFails \/ MarkReconciled \/ MarkFails

DriftNext ==
    \/ \E f \in Paths : Disturb(f)
    \/ \E x \in Executions : HandlerStep(x)
    \/ ReconcileStep
    \/ ClearDrifts
    \/ GatewayDies

DriftSpec == DriftInit /\ [][DriftNext]_driftVars

---------------------------------------------------------------------------
(* Properties *)

Open == {d.file : d \in {e \in drifts : ~e.reconciled}}

\* A file recorded as drifted stays on the open list until it is restored,
\* whichever half of a reconcile or of a detection fails, and whoever dies in
\* between: where the store is a file.
KnownDriftIsOpen == ~async => known \subseteq Open

\* On Postgres: a file that has drifted since it was restored is recorded between
\* the restore and its mark, and is off the list although nothing restored it.
KnownDriftIsOpenOnPostgres == async => known \cap drifted \subseteq Open

=============================================================================
