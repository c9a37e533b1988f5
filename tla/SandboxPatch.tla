---------------------------- MODULE SandboxPatch ----------------------------
(***************************************************************************)
(* The patch of a sandboxed command.  sandbox-execute.sh runs a command in *)
(* a container over a copy of the workspace and leaves what it changed as  *)
(* the pending patch of a slot; POST /api/sandbox/apply and apply-patch.sh *)
(* merge it.                                                               *)
(*                                                                         *)
(* The gateway and the tool server each run the script to its end without  *)
(* answering anyone else (execFileSync); they share the workspace with     *)
(* each other and with editors.  A file is one hunk of a patch, and every  *)
(* content is named by who wrote it.                                       *)
(***************************************************************************)
EXTENDS Naturals, Sequences, FiniteSets

CONSTANTS
    Files,
    Untracked,   \* of them, those the commit does not have
    Slots,       \* sub-agents
    Main,        \* the slot of a run without a sub-agent
    Runs,        \* executions; each happens once
    Changes,     \* what a command may change: sets of files
    Edits,       \* edits by the tool server's tools or by hand; each happens once
    Committed,   \* what the commit has (of an untracked file: nothing)
    NoPatch

ASSUME SandboxAssumption ==
    /\ Main \in Slots /\ Untracked \subseteq Files /\ Changes \subseteq SUBSET Files
    /\ Runs \cap Edits = {} /\ Committed \notin Runs \cup Edits

Content == {Committed} \cup Runs \cup Edits
Tree == [Files -> Content]
Patch == [run : Runs, touched : SUBSET Files, from : Tree, to : Tree]

Script == {"copy", "command", "diff", "end"}

VARIABLES
    tree,        \* the workspace
    pending,     \* per slot: .memory/.../pending-sandbox.patch
    tmp,         \* /tmp/agent-diff-*.patch, the newest last
    runs,
    fallback,    \* FIDUSGATE_ALLOW_HOST_FALLBACK
    diffed,      \* history: per edit made, the runs whose diff had been taken before it
    overwritten  \* history: pairs of an edit and a run whose merge replaced it

sandboxVars == <<tree, pending, tmp, runs, fallback, diffed, overwritten>>

\* by is the process that waits for the script.  before is history: the runs
\* that had ended when this one started.
Run == [pc : {"idle", "ended"} \cup Script,
        by : {"gateway", "server", "nobody"},
        slot : Slots,
        app : Tree,
        exit : {"none", "0", "failed", "124", "127"},
        host : BOOLEAN,
        before : SUBSET Runs]

SandboxTypeOK ==
    /\ tree \in Tree
    /\ pending \in [Slots -> Patch \cup {NoPatch}]
    /\ tmp \in Seq(Patch)
    /\ runs \in [Runs -> Run]
    /\ fallback \in BOOLEAN
    /\ \E made \in SUBSET Edits : diffed \in [made -> SUBSET Runs]
    /\ overwritten \subseteq Edits \X Runs

Clean == [f \in Files |-> Committed]

NoRun == [pc |-> "idle", by |-> "nobody", slot |-> Main, app |-> Clean, exit |-> "none",
          host |-> FALSE, before |-> {}]

SandboxInit ==
    /\ tree = Clean
    /\ pending = [s \in Slots |-> NoPatch]
    /\ tmp = <<>>
    /\ runs = [r \in Runs |-> NoRun]
    /\ fallback \in BOOLEAN
    /\ diffed = <<>>
    /\ overwritten = {}

---------------------------------------------------------------------------
(* sandbox-execute.sh *)

Become(r, run) == runs' = [runs EXCEPT ![r] = run]
Aside == UNCHANGED <<fallback, diffed, overwritten>>

Free(process) == \A r \in Runs : ~(runs[r].by = process /\ runs[r].pc \in Script)

Begin(r, process, slot) ==
    /\ runs[r].pc = "idle"
    /\ Free(process)
    /\ process = "server" => slot = Main

Started(r, process, slot) ==
    [NoRun EXCEPT !.pc = "copy", !.by = process, !.slot = slot,
                  !.before = {q \in Runs : runs[q].pc = "ended"}]

\* The script returns; the container's copy is gone.
Exit(run, code) == [run EXCEPT !.exit = code, !.pc = "ended", !.app = Clean]

\* Mutant of Start: the patch of an earlier run is left where it is.
StartKeepingPatch(r, process, slot) ==
    /\ Begin(r, process, slot)
    /\ Become(r, Started(r, process, slot))
    /\ UNCHANGED <<tree, pending, tmp>> /\ Aside

\* The pending patch is removed and the container started.
Start(r, process, slot) ==
    /\ Begin(r, process, slot)
    /\ Become(r, Started(r, process, slot))
    /\ pending' = [pending EXCEPT ![slot] = NoPatch]
    /\ UNCHANGED <<tree, tmp>> /\ Aside

\* No container runtime: refused, or run on the host itself.
RefuseWithoutDocker(r, process, slot) ==
    /\ Begin(r, process, slot)
    /\ ~fallback
    /\ Become(r, Exit(Started(r, process, slot), "127"))
    /\ UNCHANGED <<tree, pending, tmp>> /\ Aside

RunOnHost(r, process, slot, changed, code) ==
    /\ Begin(r, process, slot)
    /\ fallback
    /\ Become(r, Exit([Started(r, process, slot) EXCEPT !.host = TRUE], code))
    /\ tree' = [f \in Files |-> IF f \in changed THEN r ELSE tree[f]]
    /\ UNCHANGED <<pending, tmp>> /\ Aside

InContainer(r, pc, run) ==
    /\ runs[r].pc = pc
    /\ Become(r, run)
    /\ UNCHANGED tree /\ Aside

Copy(r) ==
    /\ InContainer(r, "copy", [runs[r] EXCEPT !.pc = "command", !.app = tree])
    /\ UNCHANGED <<pending, tmp>>

Changed(r, changed) == [f \in Files |-> IF f \in changed THEN r ELSE runs[r].app[f]]

CommandSucceeds(r, changed) ==
    /\ InContainer(r, "command", [runs[r] EXCEPT !.pc = "diff", !.app = Changed(r, changed)])
    /\ UNCHANGED <<pending, tmp>>

\* The copy against the workspace as it is now.
PatchOf(r, touched) ==
    LET only(content) == [f \in Files |-> IF f \in touched THEN content[f] ELSE Committed] IN
    [run |-> r, touched |-> touched, from |-> only(tree), to |-> only(runs[r].app)]

DiffOf(r) == PatchOf(r, {f \in Files : tree[f] # runs[r].app[f]})

\* Mutant of CommandFails: the diff is taken whatever the exit value.
CommandFailsWithDiff(r) ==
    \E changed \in Changes :
        /\ runs[r].pc \in {"copy", "command"}
        /\ InContainer(r, runs[r].pc, Exit(runs[r], "failed"))
        /\ pending' = [pending EXCEPT ![runs[r].slot] =
                          [run |-> r, touched |-> changed, from |-> tree, to |-> Changed(r, changed)]]
        /\ UNCHANGED tmp

\* Nor is one taken when the container does not start, its name for instance
\* being that of another run of the same second, or the copy fails.
CommandFails(r) ==
    /\ runs[r].pc \in {"copy", "command"}
    /\ InContainer(r, runs[r].pc, Exit(runs[r], "failed"))
    /\ UNCHANGED <<pending, tmp>>

Diff(r) ==
    /\ InContainer(r, "diff", [runs[r] EXCEPT !.pc = "end"])
    /\ pending' = [pending EXCEPT ![runs[r].slot] = DiffOf(r)]
    /\ UNCHANGED tmp

Nonempty(patch) == patch # NoPatch /\ patch.touched # {}

\* The copy in /tmp is named by the second its run began in: it is one more, or
\* takes the place of the newest.
Copied(patch) ==
    \E n \in {Len(tmp), Len(tmp) + 1} \ {0} : tmp' = Append(SubSeq(tmp, 1, n - 1), patch)

\* An empty patch is removed, another is copied to /tmp.
End(r) ==
    LET slot == runs[r].slot IN
    /\ InContainer(r, "end", Exit(runs[r], "0"))
    /\ IF Nonempty(pending[slot])
       THEN Copied(pending[slot]) /\ UNCHANGED pending
       ELSE pending' = [pending EXCEPT ![slot] = NoPatch] /\ UNCHANGED tmp

\* What a killed container may leave of the diff it was writing: whole files of
\* it, or nothing that can be applied.
LeftBehind(r) ==
    {pending[runs[r].slot]} \cup
    {PatchOf(r, part) : part \in IF runs[r].pc = "diff" THEN SUBSET DiffOf(r).touched ELSE {}}

Killed(r) ==
    /\ InContainer(r, runs[r].pc, Exit(runs[r], "124"))
    /\ \E left \in LeftBehind(r) : pending' = [pending EXCEPT ![runs[r].slot] = left]
    /\ UNCHANGED tmp

\* After SANDBOX_TIMEOUT the container is killed and removed, its patch is not.
TimeOut(r) == runs[r].pc \in {"copy", "command", "diff"} /\ Killed(r)

---------------------------------------------------------------------------
(* Merging a patch *)

\* Mutant of Applies: what is there now does not matter.
AppliesAnyway(patch) == Nonempty(patch)

\* git apply: every hunk must find its context; all of the patch or nothing.
Applies(patch) == Nonempty(patch) /\ \A f \in patch.touched : tree[f] = patch.from[f]

Merge(patch) ==
    /\ Applies(patch)
    /\ tree' = [f \in Files |-> IF f \in patch.touched THEN patch.to[f] ELSE tree[f]]
    /\ overwritten' = overwritten \cup
          {<<tree[f], patch.run>> : f \in {g \in patch.touched : tree[g] \in Edits}}
    /\ UNCHANGED <<runs, fallback, diffed>>

\* POST /api/sandbox/apply; the process may die before the file is removed.
Apply(slot) ==
    /\ Free("gateway")
    /\ Merge(pending[slot])
    /\ pending' \in {pending, [pending EXCEPT ![slot] = NoPatch]}
    /\ UNCHANGED tmp

\* apply-patch.sh takes the newest patch of /tmp, else the pending one of Main.
ApplyByScript ==
    /\ Merge(IF tmp # <<>> THEN tmp[Len(tmp)] ELSE pending[Main])
    /\ IF tmp # <<>>
       THEN tmp' = SubSeq(tmp, 1, Len(tmp) - 1) /\ UNCHANGED pending
       ELSE pending' = [pending EXCEPT ![Main] = NoPatch] /\ UNCHANGED tmp

---------------------------------------------------------------------------
(* The workspace *)

\* write_file, patch_file, an editor.
Edit(e, f) ==
    /\ e \notin DOMAIN diffed
    /\ tree' = [tree EXCEPT ![f] = e]
    /\ diffed' = [d \in DOMAIN diffed \cup {e} |->
                     IF d = e THEN {r \in Runs : runs[r].pc \in {"end", "ended"}} ELSE diffed[d]]
    /\ UNCHANGED <<pending, tmp, runs, fallback, overwritten>>

\* reconcile and restore: git restore, and git clean unless it failed; the
\* latter may remove some of the files and fail.
Revert(cleaned) ==
    /\ Free("gateway")
    /\ tree' = [f \in Files |-> IF f \in Untracked \ cleaned THEN tree[f] ELSE Committed]
    /\ tree' # tree
    /\ UNCHANGED <<pending, tmp, runs, fallback, diffed, overwritten>>

\* The gateway dies; its scripts go on without it.
Crash ==
    /\ ~Free("gateway")
    /\ runs' = [r \in Runs |-> IF runs[r].by = "gateway" /\ runs[r].pc \in Script
                               THEN [runs[r] EXCEPT !.by = "nobody"] ELSE runs[r]]
    /\ UNCHANGED <<tree, pending, tmp, fallback, diffed, overwritten>>

---------------------------------------------------------------------------

RunStarts(r, process, slot) ==
    \/ Start(r, process, slot)
    \/ RefuseWithoutDocker(r, process, slot)
    \/ \E changed \in Changes, code \in {"0", "failed"} :
          RunOnHost(r, process, slot, changed, code)

ScriptGoesOn(r) == Copy(r) \/ Diff(r) \/ End(r) \/ TimeOut(r)

SandboxNext ==
    \/ \E r \in Runs :
          \/ \E process \in {"gateway", "server"}, slot \in Slots : RunStarts(r, process, slot)
          \/ \E changed \in Changes : CommandSucceeds(r, changed)
          \/ CommandFails(r)
          \/ ScriptGoesOn(r)
    \/ \E slot \in Slots : Apply(slot)
    \/ ApplyByScript
    \/ \E e \in Edits, f \in Files : Edit(e, f)
    \/ \E cleaned \in SUBSET Untracked : Revert(cleaned)
    \/ Crash

\* The script's own steps end and timeout fires; nothing makes a command end.
SandboxFairness == \A r \in Runs : WF_sandboxVars(ScriptGoesOn(r))

SandboxSpec == SandboxInit /\ [][SandboxNext]_sandboxVars /\ SandboxFairness

---------------------------------------------------------------------------
(* Properties *)

\* What a command that failed in its container did never reaches the
\* workspace: not as its own patch, nor through the slot it shares with others.
FailedCommandsDiscarded ==
    \A f \in Files : tree[f] \in Runs =>
        LET run == runs[tree[f]] IN run.exit = "failed" => run.host

\* The patch on offer in a slot is of the last run there, or of one that was
\* still running when the last one started: never of an earlier one, although
\* runs of two processes, timeouts and crashes meet in the slot.
OffersAreCurrent ==
    \A s \in Slots, r \in Runs :
        /\ pending[s] # NoPatch
        /\ runs[r].pc # "idle" /\ runs[r].slot = s
        /\ runs[r].exit # "127" /\ ~runs[r].host
        => pending[s].run \notin runs[r].before

\* An edit made after a diff was taken is never lost to its merge, whatever was
\* merged, reverted or run in between and however often a merge is retried.
EditsAfterDiffSurvive ==
    \A e \in DOMAIN diffed, r \in Runs : <<e, r>> \in overwritten => r \notin diffed[e]

\* No command holds its run, and with it the process that waits, for ever.
RunsEnd == \A r \in Runs : runs[r].pc # "idle" ~> runs[r].pc = "ended"

\* A merge replaces no edit at all, one made while the command ran included.
EditsSurviveMerges == overwritten = {}

\* A command that timed out leaves nothing to merge.
TimedOutDiscarded ==
    \A f \in Files : tree[f] \in Runs => runs[tree[f]].exit # "124"

=============================================================================
