---------------------------- MODULE ConsoleProofs ----------------------------
(***************************************************************************)
(* The patch of a sandboxed command, for any number of runs, slots, files  *)
(* and edits; workspace drift, for any number of files and executions; and *)
(* the auto-throttle, for every window, threshold and set of durations.    *)
(*                                                                         *)
(* What a merge does was decided when its patch was taken, possibly many   *)
(* steps earlier, so SandboxInv says of every patch and every copy what it *)
(* may hold: contents of runs that can no longer fail (Settled), and, as   *)
(* what is replaced, no edit made after the diff (PatchFine).              *)
(***************************************************************************)
EXTENDS SandboxPatch, WorkspaceDrift, AutoThrottle, TLAPS

---------------------------------------------------------------------------
(* The fields of a run and of a patch *)

LEMMA CleanTree == Clean \in Tree
BY DEF Clean, Tree, Content

LEMMA ExitFields ==
    ASSUME NEW run \in Run, NEW code \in {"0", "failed", "124", "127"}
    PROVE  /\ Exit(run, code) \in Run /\ Exit(run, code).pc = "ended"
           /\ Exit(run, code).exit = code /\ Exit(run, code).app = Clean
           /\ Exit(run, code).slot = run.slot /\ Exit(run, code).host = run.host
           /\ Exit(run, code).before = run.before
<1> HIDE DEF Clean, Tree
<1> QED BY CleanTree DEF Exit, Run

\* What a step of the script changes of its run, short of its end.
Moved(run, pc, app) == [run EXCEPT !.pc = pc, !.app = app]

LEMMA MovedFields ==
    ASSUME NEW run \in Run, NEW pc \in Script, NEW app \in Tree
    PROVE  /\ Moved(run, pc, app) \in Run /\ Moved(run, pc, app).pc = pc
           /\ Moved(run, pc, app).exit = run.exit /\ Moved(run, pc, app).app = app
           /\ Moved(run, pc, app).slot = run.slot /\ Moved(run, pc, app).host = run.host
           /\ Moved(run, pc, app).before = run.before
BY DEF Moved, Run

OnHost(run) == [run EXCEPT !.host = TRUE]

EndedRuns == {q \in Runs : runs[q].pc = "ended"}

LEMMA StartedFields ==
    ASSUME NEW r \in Runs, NEW process \in {"gateway", "server"}, NEW slot \in Slots
    PROVE  /\ Started(r, process, slot) \in Run /\ Started(r, process, slot).pc = "copy"
           /\ Started(r, process, slot).app = Clean /\ Started(r, process, slot).slot = slot
           /\ Started(r, process, slot).before = EndedRuns
           /\ Started(r, process, slot).exit = "none" /\ ~Started(r, process, slot).host
<1> DEFINE before == EndedRuns
           run == [NoRun EXCEPT !.pc = "copy", !.by = process, !.slot = slot, !.before = before]
<1>1. Clean \in Tree /\ before \in SUBSET Runs
  BY CleanTree DEF EndedRuns
<1> HIDE DEF before
<1>2. NoRun = [pc |-> "idle", by |-> "nobody", slot |-> Main, app |-> Clean, exit |-> "none",
               host |-> FALSE, before |-> {}]
  BY DEF NoRun
<1>3. /\ run \in Run /\ run.pc = "copy" /\ run.app = Clean
      /\ run.slot = slot /\ run.before = before /\ run.exit = "none" /\ ~run.host
  BY <1>1, <1>2, SandboxAssumption DEF Run, Script
<1>4. Started(r, process, slot) = run
  BY DEF Started, before, EndedRuns
<1> HIDE DEF run
<1> QED BY <1>3, <1>4 DEF before

LEMMA HostFields ==
    ASSUME NEW run \in Run
    PROVE  /\ OnHost(run) \in Run /\ OnHost(run).host = TRUE
           /\ OnHost(run).before = run.before
BY DEF OnHost, Run

LEMMA PatchFields ==
    ASSUME tree \in Tree, NEW r \in Runs, runs[r].app \in Tree, NEW touched \in SUBSET Files
    PROVE  LET patch == PatchOf(r, touched) IN
           /\ patch \in Patch /\ patch.run = r /\ patch.touched = touched
           /\ \A f \in Files : /\ patch.from[f] \in {tree[f], Committed}
                               /\ patch.to[f] \in {runs[r].app[f], Committed}
<1> DEFINE from == [f \in Files |-> IF f \in touched THEN tree[f] ELSE Committed]
           to == [f \in Files |-> IF f \in touched THEN runs[r].app[f] ELSE Committed]
<1>1. from \in Tree /\ to \in Tree
  BY DEF Tree, Content
<1>2. \A f \in Files : from[f] \in {tree[f], Committed} /\ to[f] \in {runs[r].app[f], Committed}
  OBVIOUS
<1>3. PatchOf(r, touched) = [run |-> r, touched |-> touched, from |-> from, to |-> to]
  BY DEF PatchOf
<1> HIDE DEF from, to
<1> QED BY <1>1, <1>2, <1>3 DEF Patch

---------------------------------------------------------------------------
(* The inductive invariant of SandboxPatch *)

SandboxTypes ==
    /\ tree \in Tree
    /\ pending \in [Slots -> Patch \cup {NoPatch}]
    /\ tmp \in Seq(Patch)
    /\ runs \in [Runs -> Run]
    /\ fallback \in BOOLEAN
    /\ diffed \in [DOMAIN diffed -> SUBSET Runs] /\ DOMAIN diffed \subseteq Edits
    /\ overwritten \subseteq Edits \X Runs

\* A run whose content may be outside its container did not fail there, and can
\* no longer.
Settled(run) ==
    /\ run.pc \in {"diff", "end", "ended"}
    /\ run.exit = "failed" => run.host

\* A content in the workspace, a copy or a patch: of an edit that was made, or of
\* a settled run.
Fine(content, rs, made) ==
    /\ content \in Edits => content \in made
    /\ content \in Runs => Settled(rs[content])

\* No patch has, as what it replaces, an edit made after its diff.
PatchFine(patch, rs, df) ==
    /\ \A f \in Files : Fine(patch.from[f], rs, DOMAIN df) /\ Fine(patch.to[f], rs, DOMAIN df)
    /\ \A e \in DOMAIN df : patch.run \in df[e] => \A f \in patch.touched : patch.from[f] # e

ContentsFine ==
    \A f \in Files :
        /\ Fine(tree[f], runs, DOMAIN diffed)
        /\ \A r \in Runs : Fine(runs[r].app[f], runs, DOMAIN diffed)

PatchesFine ==
    /\ \A s \in Slots : pending[s] # NoPatch => PatchFine(pending[s], runs, diffed)
    /\ \A i \in DOMAIN tmp : PatchFine(tmp[i], runs, diffed)

RunsFine ==
    /\ \A r \in Runs : runs[r].pc # "ended" => runs[r].exit = "none" /\ ~runs[r].host
    /\ \A r \in Runs : \A q \in runs[r].before : runs[q].pc = "ended"
    /\ \A e \in DOMAIN diffed : \A r \in diffed[e] : runs[r].pc \in {"end", "ended"}

OverwrittenMade == \A e \in Edits, r \in Runs : <<e, r>> \in overwritten => e \in DOMAIN diffed

SandboxInv ==
    /\ SandboxTypes /\ ContentsFine /\ PatchesFine /\ RunsFine /\ OverwrittenMade
    /\ OffersAreCurrent /\ EditsAfterDiffSurvive

\* Settled runs stay so and edits stay made: what was fine is.
LEMMA FineGrows ==
    ASSUME NEW rs, NEW rs2, NEW df, NEW df2,
           \A q \in Runs : Settled(rs[q]) => Settled(rs2[q]),
           DOMAIN df \subseteq DOMAIN df2
    PROVE  /\ \A c : Fine(c, rs, DOMAIN df) => Fine(c, rs2, DOMAIN df2)
           /\ \A patch : df2 = df /\ PatchFine(patch, rs, df) => PatchFine(patch, rs2, df2)
<1>1. \A c : Fine(c, rs, DOMAIN df) => Fine(c, rs2, DOMAIN df2)
  BY DEF Fine
<1> QED BY <1>1 DEF PatchFine

LEMMA CommittedFine ==
    ASSUME NEW rs, NEW made
    PROVE  Fine(Committed, rs, made)
BY SandboxAssumption DEF Fine

\* A patch copied to /tmp is one of those there, which are otherwise unchanged.
LEMMA CopiedPatches ==
    ASSUME tmp \in Seq(Patch), NEW patch \in Patch, Copied(patch)
    PROVE  /\ tmp' \in Seq(Patch)
           /\ \A i \in DOMAIN tmp' : tmp'[i] = patch \/ (i \in DOMAIN tmp /\ tmp'[i] = tmp[i])
<1>1. PICK n \in {Len(tmp), Len(tmp) + 1} \ {0} : tmp' = Append(SubSeq(tmp, 1, n - 1), patch)
  BY DEF Copied
<1> DEFINE front == SubSeq(tmp, 1, n - 1)
<1>2. /\ n \in Nat /\ Len(tmp) \in Nat /\ n - 1 <= Len(tmp) /\ n >= 1
  BY <1>1
<1>3. /\ front \in Seq(Patch) /\ Len(front) = n - 1
      /\ \A i \in 1..(n - 1) : front[i] = tmp[i]
  BY <1>2
<1>4. tmp' = Append(front, patch)
  BY <1>1
<1> HIDE DEF front
<1>5. tmp' \in Seq(Patch) /\ Len(tmp') = n
  BY <1>2, <1>3, <1>4
<1>6. ASSUME NEW i \in DOMAIN tmp'
      PROVE  tmp'[i] = patch \/ (i \in DOMAIN tmp /\ tmp'[i] = tmp[i])
  <2>1. i \in 1..n
    BY <1>5
  <2>2. CASE i = n
    BY <1>2, <1>3, <1>4, <2>2
  <2>3. CASE i \in 1..(n - 1)
    <3>1. tmp'[i] = front[i] /\ front[i] = tmp[i]
      BY <1>2, <1>3, <1>4, <2>3
    <3>2. i \in DOMAIN tmp
      BY <1>2, <2>3
    <3> QED BY <3>1, <3>2
  <2> QED BY <1>2, <2>1, <2>2, <2>3
<1> QED BY <1>5, <1>6

\* A step of one run.  What it puts into its copy or the workspace is its own, and
\* the patch it offers is the one of its diff.
LEMMA RunMoves ==
    ASSUME SandboxInv, NEW r \in Runs, NEW new \in Run, runs' = [runs EXCEPT ![r] = new], Aside,
           runs[r].pc # "ended", runs[r].pc = "end" => new.pc = "ended",
           new.pc # "ended" => new.exit = "none" /\ ~new.host,
           Settled(runs[r]) => Settled(new),
           \A f \in Files : \/ new.app[f] = r /\ Settled(new)
                            \/ Fine(new.app[f], runs, DOMAIN diffed),
           \A q \in new.before : runs[q].pc = "ended",
           tree' \in Tree,
           \A f \in Files : tree'[f] = tree[f] \/ (tree'[f] = r /\ Settled(new)),
           pending' \in [Slots -> Patch \cup {NoPatch}],
           \A s \in Slots :
               \/ pending'[s] \in {NoPatch, pending[s]}
               \/ /\ runs[r].pc = "diff"
                  /\ \E touched \in SUBSET Files : pending'[s] = PatchOf(r, touched),
           tmp' = tmp \/ \E s \in Slots : pending[s] # NoPatch /\ Copied(pending[s]),
           \/ new.exit = "127" \/ new.host
           \/ /\ runs[r].pc # "idle"
              /\ new.slot = runs[r].slot /\ new.before = runs[r].before
           \/ pending'[new.slot] = NoPatch
    PROVE  SandboxInv'
<1>0. /\ tree \in Tree /\ runs \in [Runs -> Run] /\ tmp \in Seq(Patch)
      /\ diffed' = diffed /\ overwritten' = overwritten /\ fallback' = fallback
      /\ runs'[r] = new /\ \A q \in Runs \ {r} : runs'[q] = runs[q]
      /\ pending \in [Slots -> Patch \cup {NoPatch}]
  BY DEF SandboxInv, SandboxTypes, Aside
<1>1. \A q \in Runs : Settled(runs[q]) => Settled(runs'[q])
  BY <1>0
<1>2. /\ \A c : Fine(c, runs, DOMAIN diffed) => Fine(c, runs', DOMAIN diffed')
      /\ \A patch : PatchFine(patch, runs, diffed) => PatchFine(patch, runs', diffed')
  BY <1>0, <1>1, FineGrows
<1>3. Settled(new) => Fine(r, runs', DOMAIN diffed')
  BY <1>0, SandboxAssumption DEF Fine
<1>4. \A q \in Runs : runs[q].pc = "ended" => runs'[q].pc = "ended"
  BY <1>0
<1>5. SandboxTypes'
  <2>1. tmp' \in Seq(Patch)
    BY <1>0, CopiedPatches
  <2> QED BY <1>0, <2>1 DEF SandboxInv, SandboxTypes
<1>6. ContentsFine'
  <2>1. ASSUME NEW f \in Files PROVE Fine(tree'[f], runs', DOMAIN diffed')
    BY <1>2, <1>3 DEF SandboxInv, ContentsFine
  <2>2. ASSUME NEW f \in Files, NEW q \in Runs PROVE Fine(runs'[q].app[f], runs', DOMAIN diffed')
    <3>1. CASE q = r
      BY <1>0, <1>2, <1>3, <3>1
    <3>2. CASE q # r
      BY <1>0, <1>2, <3>2 DEF SandboxInv, ContentsFine
    <3> QED BY <3>1, <3>2
  <2> QED BY <2>1, <2>2 DEF ContentsFine
<1>7. ASSUME NEW touched \in SUBSET Files, runs[r].pc = "diff"
      PROVE  PatchFine(PatchOf(r, touched), runs', diffed')
  <2> DEFINE patch == PatchOf(r, touched)
  <2>1. /\ patch.run = r
        /\ \A f \in Files : /\ patch.from[f] \in {tree[f], Committed}
                            /\ patch.to[f] \in {runs[r].app[f], Committed}
    BY <1>0, PatchFields DEF Run
  <2>2. \A e \in DOMAIN diffed : r \notin diffed[e]
    BY <1>7 DEF SandboxInv, RunsFine
  <2>3. \A f \in Files : Fine(tree[f], runs, DOMAIN diffed) /\ Fine(runs[r].app[f], runs, DOMAIN diffed)
    BY DEF SandboxInv, ContentsFine
  <2> HIDE DEF patch
  <2>4. PatchFine(patch, runs, diffed)
    BY <2>1, <2>2, <2>3, CommittedFine DEF PatchFine
  <2> QED BY <1>2, <2>4 DEF patch
<1>8. PatchesFine'
  <2>1. ASSUME NEW s \in Slots, pending'[s] # NoPatch PROVE PatchFine(pending'[s], runs', diffed')
    <3>1. CASE pending'[s] = pending[s]
      BY <1>2, <2>1, <3>1 DEF SandboxInv, PatchesFine
    <3>2. CASE runs[r].pc = "diff" /\ \E touched \in SUBSET Files : pending'[s] = PatchOf(r, touched)
      BY <1>7, <3>2
    <3> QED BY <2>1, <3>1, <3>2
  <2>2. ASSUME NEW i \in DOMAIN tmp' PROVE PatchFine(tmp'[i], runs', diffed')
    <3>1. CASE tmp' = tmp
      BY <1>2, <2>2, <3>1 DEF SandboxInv, PatchesFine
    <3>2. ASSUME NEW s \in Slots, pending[s] # NoPatch, Copied(pending[s])
          PROVE  PatchFine(tmp'[i], runs', diffed')
      <4>1. pending[s] \in Patch
        BY <1>0, <3>2
      <4>2. tmp'[i] = pending[s] \/ (i \in DOMAIN tmp /\ tmp'[i] = tmp[i])
        BY <1>0, <2>2, <3>2, <4>1, CopiedPatches
      <4> QED BY <1>2, <3>2, <4>2 DEF SandboxInv, PatchesFine
    <3> QED BY <3>1, <3>2
  <2> QED BY <2>1, <2>2 DEF PatchesFine
<1>9. RunsFine'
  <2>1. ASSUME NEW p \in Runs, NEW q \in runs'[p].before PROVE runs'[q].pc = "ended"
    <3>1. q \in Runs
      BY <1>0, <2>1 DEF Run
    <3>2. runs[q].pc = "ended"
      BY <1>0, <2>1 DEF SandboxInv, RunsFine
    <3> QED BY <1>4, <3>1, <3>2
  <2>2. ASSUME NEW e \in DOMAIN diffed', NEW q \in diffed'[e] PROVE runs'[q].pc \in {"end", "ended"}
    <3>1. q \in Runs /\ runs[q].pc \in {"end", "ended"}
      BY <1>0, <2>2 DEF SandboxInv, SandboxTypes, RunsFine
    <3> QED BY <1>0, <3>1
  <2>3. \A q \in Runs : runs'[q].pc # "ended" => runs'[q].exit = "none" /\ ~runs'[q].host
    BY <1>0 DEF SandboxInv, RunsFine
  <2> QED BY <2>1, <2>2, <2>3 DEF RunsFine
<1>10. OffersAreCurrent'
  <2> SUFFICES ASSUME NEW s \in Slots, NEW q \in Runs,
                      pending'[s] # NoPatch, runs'[q].pc # "idle", runs'[q].slot = s,
                      runs'[q].exit # "127", ~runs'[q].host
               PROVE  pending'[s].run \notin runs'[q].before
    BY DEF OffersAreCurrent
  <2>0. runs[r].exit = "none" /\ ~runs[r].host
    BY DEF SandboxInv, RunsFine
  <2>1. /\ runs[q].pc # "idle" /\ runs[q].slot = s /\ runs[q].exit # "127" /\ ~runs[q].host
        /\ runs'[q].before = runs[q].before
    BY <1>0, <2>0
  <2>2. CASE pending'[s] = pending[s]
    BY <2>1, <2>2 DEF SandboxInv, OffersAreCurrent
  <2>3. CASE runs[r].pc = "diff" /\ \E touched \in SUBSET Files : pending'[s] = PatchOf(r, touched)
    <3>1. pending'[s].run = r
      BY <2>3 DEF PatchOf
    <3>2. r \notin runs[q].before
      BY <2>3 DEF SandboxInv, RunsFine
    <3> QED BY <2>1, <3>1, <3>2
  <2> QED BY <2>2, <2>3
<1>11. OverwrittenMade' /\ EditsAfterDiffSurvive'
  BY <1>0 DEF SandboxInv, OverwrittenMade, EditsAfterDiffSurvive
<1> QED BY <1>5, <1>6, <1>8, <1>9, <1>10, <1>11 DEF SandboxInv

\* Every step of sandbox-execute.sh.
LEMMA RunKeepsInv ==
    ASSUME SandboxInv, NEW r \in Runs,
           \/ \E process \in {"gateway", "server"}, slot \in Slots : RunStarts(r, process, slot)
           \/ \E changed \in Changes : CommandSucceeds(r, changed)
           \/ CommandFails(r)
           \/ ScriptGoesOn(r)
    PROVE  SandboxInv'
<1>1. /\ tree \in Tree /\ runs \in [Runs -> Run] /\ runs[r] \in Run /\ runs[r].slot \in Slots
      /\ runs[r].app \in Tree /\ runs[r].before \subseteq Runs
      /\ pending \in [Slots -> Patch \cup {NoPatch}]
      /\ \A f \in Files : Fine(Clean[f], runs, DOMAIN diffed)
      /\ \A f \in Files : Fine(tree[f], runs, DOMAIN diffed)
      /\ \A f \in Files : Fine(runs[r].app[f], runs, DOMAIN diffed)
      /\ \A q \in runs[r].before : runs[q].pc = "ended"
      /\ \A q \in EndedRuns : runs[q].pc = "ended"
      /\ runs[r].pc # "ended" => runs[r].exit = "none" /\ ~runs[r].host
      /\ {"copy", "command", "diff", "end"} \subseteq Script
  BY CommittedFine DEF EndedRuns, Script, SandboxInv, SandboxTypes, ContentsFine, RunsFine, Run, Clean
<1>2. ASSUME NEW process \in {"gateway", "server"}, NEW slot \in Slots, Start(r, process, slot)
      PROVE  SandboxInv'
  <2> DEFINE new == Started(r, process, slot)
  <2>1. /\ new \in Run /\ new.pc = "copy" /\ new.app = Clean /\ new.slot = slot
        /\ new.before = EndedRuns /\ new.exit = "none" /\ ~new.host
    BY StartedFields
  <2>2. /\ runs' = [runs EXCEPT ![r] = new] /\ Aside /\ runs[r].pc = "idle"
        /\ tree' = tree /\ tmp' = tmp /\ pending' = [pending EXCEPT ![slot] = NoPatch]
    BY <1>2 DEF Start, Begin, Become
  <2> HIDE DEF new
  <2>3. /\ pending' \in [Slots -> Patch \cup {NoPatch}] /\ pending'[new.slot] = NoPatch
        /\ \A s \in Slots : pending'[s] \in {NoPatch, pending[s]}
    BY <1>1, <2>1, <2>2
  <2>4. ~Settled(runs[r])
    BY <2>2 DEF Settled
  <2> QED BY <1>1, <2>1, <2>2, <2>3, <2>4, RunMoves
<1>3. ASSUME NEW process \in {"gateway", "server"}, NEW slot \in Slots,
             RefuseWithoutDocker(r, process, slot)
      PROVE  SandboxInv'
  <2> DEFINE started == Started(r, process, slot)
             new == Exit(started, "127")
  <2>1. /\ started \in Run /\ started.before = EndedRuns
    BY StartedFields
  <2>2. /\ runs' = [runs EXCEPT ![r] = new] /\ Aside /\ runs[r].pc = "idle"
        /\ tree' = tree /\ tmp' = tmp /\ pending' = pending
    BY <1>3 DEF RefuseWithoutDocker, Begin, Become
  <2> HIDE DEF started
  <2>3. /\ new \in Run /\ new.pc = "ended" /\ new.app = Clean /\ new.exit = "127"
        /\ new.before = EndedRuns
    BY <2>1, ExitFields
  <2> HIDE DEF new
  <2>4. ~Settled(runs[r])
    BY <2>2 DEF Settled
  <2> QED BY <1>1, <2>2, <2>3, <2>4, RunMoves
<1>4. ASSUME NEW process \in {"gateway", "server"}, NEW slot \in Slots,
             NEW changed \in Changes, NEW code \in {"0", "failed"},
             RunOnHost(r, process, slot, changed, code)
      PROVE  SandboxInv'
  <2> DEFINE started == OnHost(Started(r, process, slot))
             new == Exit(started, code)
  <2>1. /\ started \in Run /\ started.host = TRUE
        /\ started.before = EndedRuns
    <3>1. Started(r, process, slot) \in Run /\ Started(r, process, slot).before = EndedRuns
      BY StartedFields
    <3> QED BY <3>1, HostFields
  <2>2. /\ runs' = [runs EXCEPT ![r] = new] /\ Aside /\ runs[r].pc = "idle"
        /\ tree' = [f \in Files |-> IF f \in changed THEN r ELSE tree[f]]
        /\ tmp' = tmp /\ pending' = pending
    BY <1>4 DEF RunOnHost, OnHost, Begin, Become
  <2> HIDE DEF started
  <2>3. /\ new \in Run /\ new.pc = "ended" /\ new.app = Clean /\ new.host = TRUE
        /\ new.before = EndedRuns
    <3> code \in {"0", "failed", "124", "127"}
      OBVIOUS
    <3> QED BY <2>1, ExitFields
  <2> HIDE DEF new
  <2>4. ~Settled(runs[r]) /\ Settled(new)
    BY <2>2, <2>3 DEF Settled
  <2>5. /\ tree' \in Tree /\ \A f \in Files : tree'[f] = tree[f] \/ tree'[f] = r
    BY <1>1, <2>2 DEF Tree, Content
  <2> QED BY <1>1, <2>2, <2>3, <2>4, <2>5, RunMoves
<1>5. CASE Copy(r)
  <2> DEFINE new == Moved(runs[r], "command", tree)
  <2>1. /\ new \in Run /\ new.pc = "command" /\ new.exit = runs[r].exit /\ new.app = tree
        /\ new.slot = runs[r].slot /\ new.host = runs[r].host /\ new.before = runs[r].before
    BY <1>1, MovedFields
  <2>2. /\ runs' = [runs EXCEPT ![r] = new] /\ Aside /\ runs[r].pc = "copy"
        /\ tree' = tree /\ tmp' = tmp /\ pending' = pending
    BY <1>5 DEF Copy, Moved, InContainer, Become
  <2> HIDE DEF new
  <2>3. ~Settled(runs[r])
    BY <2>2 DEF Settled
  <2> QED BY <1>1, <2>1, <2>2, <2>3, RunMoves
<1>6. ASSUME NEW changed \in Changes, CommandSucceeds(r, changed)
      PROVE  SandboxInv'
  <2> DEFINE app == Changed(r, changed)
             new == Moved(runs[r], "diff", app)
  <2>1. app \in Tree /\ \A f \in Files : app[f] = r \/ app[f] = runs[r].app[f]
    BY <1>1 DEF Changed, Tree, Content
  <2>2. /\ runs' = [runs EXCEPT ![r] = new] /\ Aside /\ runs[r].pc = "command"
        /\ tree' = tree /\ tmp' = tmp /\ pending' = pending
    BY <1>6 DEF CommandSucceeds, Moved, InContainer, Become
  <2> HIDE DEF app
  <2>3. /\ new \in Run /\ new.pc = "diff" /\ new.exit = runs[r].exit /\ new.app = app
        /\ new.slot = runs[r].slot /\ new.host = runs[r].host /\ new.before = runs[r].before
    BY <1>1, <2>1, MovedFields
  <2> HIDE DEF new
  <2>4. Settled(new)
    BY <1>1, <2>2, <2>3 DEF Settled
  <2>5. \A f \in Files : \/ new.app[f] = r /\ Settled(new)
                         \/ Fine(new.app[f], runs, DOMAIN diffed)
    BY <1>1, <2>1, <2>3, <2>4
  <2>6. new.exit = "none" /\ ~new.host
    BY <1>1, <2>2, <2>3
  <2> QED BY <1>1, <2>2, <2>3, <2>4, <2>5, <2>6, RunMoves
<1>7. CASE CommandFails(r)
  <2> DEFINE new == Exit(runs[r], "failed")
  <2>1. /\ new \in Run /\ new.pc = "ended" /\ new.exit = "failed" /\ new.app = Clean
        /\ new.slot = runs[r].slot /\ new.host = runs[r].host /\ new.before = runs[r].before
    BY <1>1, ExitFields
  <2>2. /\ runs' = [runs EXCEPT ![r] = new] /\ Aside /\ runs[r].pc \in {"copy", "command"}
        /\ tree' = tree /\ tmp' = tmp /\ pending' = pending
    BY <1>7 DEF CommandFails, InContainer, Become
  <2> HIDE DEF new
  <2>3. ~Settled(runs[r])
    BY <2>2 DEF Settled
  <2> QED BY <1>1, <2>1, <2>2, <2>3, RunMoves
<1>8. CASE Diff(r)
  <2> DEFINE app == runs[r].app
             new == Moved(runs[r], "end", app)
             touched == {f \in Files : tree[f] # runs[r].app[f]}
  <2>1. /\ new \in Run /\ new.pc = "end" /\ new.exit = runs[r].exit /\ new.app = runs[r].app
        /\ new.slot = runs[r].slot /\ new.host = runs[r].host /\ new.before = runs[r].before
    <3>1. runs[r] \in Run /\ app \in Tree /\ app = runs[r].app /\ "end" \in Script
      BY <1>1
    <3> HIDE DEF app
    <3> QED BY <3>1, MovedFields
  <2>2. [runs[r] EXCEPT !.pc = "end"] = new
    BY <1>1 DEF Moved, Run
  <2>3. /\ runs' = [runs EXCEPT ![r] = new] /\ Aside /\ runs[r].pc = "diff"
        /\ tree' = tree /\ tmp' = tmp
        /\ pending' = [pending EXCEPT ![runs[r].slot] = PatchOf(r, touched)]
    BY <1>8, <2>2 DEF Diff, DiffOf, InContainer, Become
  <2>4. touched \in SUBSET Files
    OBVIOUS
  <2> HIDE DEF new, touched
  <2>5. /\ pending' \in [Slots -> Patch \cup {NoPatch}]
        /\ \A s \in Slots : pending'[s] \in {pending[s], PatchOf(r, touched)}
    BY <1>1, <2>3, <2>4, PatchFields
  <2>6. Settled(runs[r]) => Settled(new)
    BY <2>1 DEF Settled
  <2> QED BY <1>1, <2>1, <2>3, <2>4, <2>5, <2>6, RunMoves
<1>9. CASE End(r)
  <2> DEFINE new == Exit(runs[r], "0")
             slot == runs[r].slot
  <2>1. /\ new \in Run /\ new.pc = "ended" /\ new.exit = "0" /\ new.app = Clean
        /\ new.slot = runs[r].slot /\ new.host = runs[r].host /\ new.before = runs[r].before
    BY <1>1, ExitFields
  <2>2. /\ runs' = [runs EXCEPT ![r] = new] /\ Aside /\ runs[r].pc = "end" /\ tree' = tree
        /\ \/ /\ Copied(pending[slot]) /\ pending' = pending
              /\ pending[slot] # NoPatch
           \/ tmp' = tmp /\ pending' = [pending EXCEPT ![slot] = NoPatch]
    BY <1>9 DEF End, Nonempty, InContainer, Become
  <2> HIDE DEF new
  <2>3. /\ pending' \in [Slots -> Patch \cup {NoPatch}]
        /\ \A s \in Slots : pending'[s] \in {NoPatch, pending[s]}
        /\ tmp' = tmp \/ \E s \in Slots : pending[s] # NoPatch /\ Copied(pending[s])
    BY <1>1, <2>2
  <2>4. Settled(new)
    BY <2>1 DEF Settled
  <2> QED BY <1>1, <2>1, <2>2, <2>3, <2>4, RunMoves
<1>10. CASE TimeOut(r)
  <2> DEFINE new == Exit(runs[r], "124")
             slot == runs[r].slot
  <2>1. /\ new \in Run /\ new.pc = "ended" /\ new.exit = "124" /\ new.app = Clean
        /\ new.slot = runs[r].slot /\ new.host = runs[r].host /\ new.before = runs[r].before
    BY <1>1, ExitFields
  <2>2. /\ runs' = [runs EXCEPT ![r] = new] /\ Aside /\ runs[r].pc \in {"copy", "command", "diff"}
        /\ tree' = tree /\ tmp' = tmp
    BY <1>10 DEF TimeOut, Killed, InContainer, Become
  <2>3. PICK left : /\ pending' = [pending EXCEPT ![slot] = left]
                    /\ \/ left = pending[slot]
                       \/ /\ runs[r].pc = "diff"
                          /\ \E touched \in SUBSET Files : left = PatchOf(r, touched)
    <3>1. PICK left \in LeftBehind(r) : pending' = [pending EXCEPT ![slot] = left]
      BY <1>10 DEF TimeOut, Killed
    <3>2. DiffOf(r).touched \subseteq Files
      BY DEF DiffOf, PatchOf
    <3>3. \/ left = pending[slot]
          \/ /\ runs[r].pc = "diff"
             /\ \E touched \in SUBSET Files : left = PatchOf(r, touched)
      BY <3>1, <3>2 DEF LeftBehind
    <3> QED BY <3>1, <3>3
  <2> HIDE DEF new
  <2>4. left \in Patch \cup {NoPatch}
    BY <1>1, <2>3, PatchFields
  <2>5. /\ pending' \in [Slots -> Patch \cup {NoPatch}]
        /\ \A s \in Slots :
               \/ pending'[s] \in {NoPatch, pending[s]}
               \/ /\ runs[r].pc = "diff"
                  /\ \E touched \in SUBSET Files : pending'[s] = PatchOf(r, touched)
    BY <1>1, <2>3, <2>4
  <2>6. Settled(new)
    BY <2>1 DEF Settled
  <2> QED BY <1>1, <2>1, <2>2, <2>5, <2>6, RunMoves
<1> QED BY <1>2, <1>3, <1>4, <1>5, <1>6, <1>7, <1>8, <1>9, <1>10 DEF RunStarts, ScriptGoesOn

\* A merge, of a patch in a slot or in /tmp.
LEMMA MergeKeepsInv ==
    ASSUME SandboxInv, NEW patch \in Patch, PatchFine(patch, runs, diffed), Merge(patch),
           pending' \in [Slots -> Patch \cup {NoPatch}],
           \A s \in Slots : pending'[s] \in {NoPatch, pending[s]},
           tmp' \in Seq(Patch), \A i \in DOMAIN tmp' : i \in DOMAIN tmp /\ tmp'[i] = tmp[i]
    PROVE  SandboxInv'
<1>1. /\ tree' = [f \in Files |-> IF f \in patch.touched THEN patch.to[f] ELSE tree[f]]
      /\ UNCHANGED <<runs, fallback, diffed>>
      /\ overwritten' = overwritten \cup
             {<<tree[f], patch.run>> : f \in {g \in patch.touched : tree[g] \in Edits}}
      /\ \A f \in patch.touched : tree[f] = patch.from[f]
      /\ tree \in Tree /\ patch.to \in Tree /\ patch.touched \subseteq Files /\ patch.run \in Runs
  BY DEF Merge, Applies, Patch, SandboxInv, SandboxTypes
<1>2. ContentsFine'
  BY <1>1 DEF ContentsFine, PatchFine, SandboxInv
<1>3. PatchesFine'
  BY <1>1 DEF PatchesFine, SandboxInv
<1>4. RunsFine' /\ OffersAreCurrent'
  BY <1>1 DEF RunsFine, OffersAreCurrent, SandboxInv
<1>5. ASSUME NEW e \in Edits, NEW r \in Runs, <<e, r>> \in overwritten'
      PROVE  e \in DOMAIN diffed /\ r \notin diffed[e]
  <2>1. CASE <<e, r>> \in overwritten
    BY <2>1 DEF SandboxInv, OverwrittenMade, EditsAfterDiffSurvive
  <2>2. ASSUME NEW f \in patch.touched, tree[f] = e, patch.run = r
        PROVE  e \in DOMAIN diffed /\ r \notin diffed[e]
    <3>1. e \in DOMAIN diffed
      BY <1>1, <2>2 DEF SandboxInv, ContentsFine, Fine
    <3> QED BY <1>1, <2>2, <3>1 DEF PatchFine
  <2> QED BY <1>1, <1>5, <2>1, <2>2
<1>6. OverwrittenMade' /\ EditsAfterDiffSurvive'
  <2>1. DOMAIN diffed \subseteq Edits /\ diffed' = diffed
    BY <1>1 DEF SandboxInv, SandboxTypes
  <2> QED BY <1>5, <2>1 DEF OverwrittenMade, EditsAfterDiffSurvive
<1>7. SandboxTypes'
  <2>1. tree' \in Tree
    BY <1>1 DEF Tree
  <2>2. overwritten' \subseteq Edits \X Runs
    BY <1>1 DEF SandboxInv, SandboxTypes
  <2> QED BY <1>1, <2>1, <2>2 DEF SandboxInv, SandboxTypes
<1> QED BY <1>2, <1>3, <1>4, <1>6, <1>7 DEF SandboxInv

LEMMA MergesKeepInv ==
    ASSUME SandboxInv, (\E slot \in Slots : Apply(slot)) \/ ApplyByScript
    PROVE  SandboxInv'
<1>1. /\ pending \in [Slots -> Patch \cup {NoPatch}] /\ tmp \in Seq(Patch) /\ Main \in Slots
      /\ \A s \in Slots : pending[s] # NoPatch
            => pending[s] \in Patch /\ PatchFine(pending[s], runs, diffed)
  BY SandboxAssumption DEF SandboxInv, SandboxTypes, PatchesFine
<1>2. ASSUME NEW slot \in Slots, Apply(slot)
      PROVE  SandboxInv'
  <2>1. /\ Merge(pending[slot]) /\ pending[slot] # NoPatch /\ tmp' = tmp
        /\ pending' \in {pending, [pending EXCEPT ![slot] = NoPatch]}
    BY <1>2 DEF Apply, Merge, Applies, Nonempty
  <2> QED BY <1>1, <2>1, MergeKeepsInv
<1>3. CASE ApplyByScript /\ tmp = <<>>
  <2>1. /\ Merge(pending[Main]) /\ pending[Main] # NoPatch /\ tmp' = tmp
        /\ pending' = [pending EXCEPT ![Main] = NoPatch]
    BY <1>3 DEF ApplyByScript, Merge, Applies, Nonempty
  <2> QED BY <1>1, <2>1, MergeKeepsInv
<1>4. CASE ApplyByScript /\ tmp # <<>>
  <2>1. /\ Merge(tmp[Len(tmp)]) /\ pending' = pending /\ tmp' = SubSeq(tmp, 1, Len(tmp) - 1)
    BY <1>4 DEF ApplyByScript
  <2>2. Len(tmp) \in DOMAIN tmp /\ tmp[Len(tmp)] \in Patch
    BY <1>1, <1>4
  <2>3. PatchFine(tmp[Len(tmp)], runs, diffed)
    BY <2>2 DEF SandboxInv, PatchesFine
  <2>4. tmp' \in Seq(Patch) /\ \A i \in DOMAIN tmp' : i \in DOMAIN tmp /\ tmp'[i] = tmp[i]
    BY <1>1, <1>4, <2>1
  <2> QED BY <1>1, <2>1, <2>2, <2>3, <2>4, MergeKeepsInv
<1> QED BY <1>2, <1>3, <1>4

LEMMA EditKeepsSandbox ==
    ASSUME SandboxInv, NEW e \in Edits, NEW f \in Files, Edit(e, f)
    PROVE  SandboxInv'
<1> DEFINE taken == {r \in Runs : runs[r].pc \in {"end", "ended"}}
<1>1. /\ e \notin DOMAIN diffed
      /\ tree' = [tree EXCEPT ![f] = e] /\ tree \in Tree
      /\ diffed' = [d \in DOMAIN diffed \cup {e} |-> IF d = e THEN taken ELSE diffed[d]]
      /\ UNCHANGED <<pending, tmp, runs, fallback, overwritten>>
      /\ DOMAIN diffed \subseteq Edits /\ diffed \in [DOMAIN diffed -> SUBSET Runs]
  BY DEF Edit, SandboxInv, SandboxTypes
<1>2. /\ DOMAIN diffed' = DOMAIN diffed \cup {e} /\ diffed'[e] = taken
      /\ \A d \in DOMAIN diffed : diffed'[d] = diffed[d]
  BY <1>1
<1>3. \A c : Fine(c, runs, DOMAIN diffed) => Fine(c, runs, DOMAIN diffed')
  BY <1>2 DEF Fine
<1>4. ASSUME NEW patch \in Patch, PatchFine(patch, runs, diffed)
      PROVE  PatchFine(patch, runs, diffed')
  <2>1. \A g \in Files : patch.from[g] # e
    BY <1>1, <1>4 DEF PatchFine, Fine
  <2>2. patch.touched \subseteq Files
    BY DEF Patch
  <2> QED BY <1>2, <1>3, <1>4, <2>1, <2>2 DEF PatchFine
<1>5. PatchesFine'
  <2>1. \A s \in Slots : pending[s] # NoPatch => pending[s] \in Patch
    BY DEF SandboxInv, SandboxTypes
  <2>2. \A i \in DOMAIN tmp : tmp[i] \in Patch
    BY DEF SandboxInv, SandboxTypes
  <2> QED BY <1>1, <1>4, <2>1, <2>2 DEF SandboxInv, PatchesFine
<1>6. ContentsFine'
  <2>1. Fine(e, runs, DOMAIN diffed')
    BY <1>2, SandboxAssumption DEF Fine
  <2> QED BY <1>1, <1>3, <2>1 DEF SandboxInv, ContentsFine, Tree
<1>7. RunsFine' /\ OffersAreCurrent'
  BY <1>1, <1>2 DEF SandboxInv, RunsFine, OffersAreCurrent
<1>8. OverwrittenMade' /\ EditsAfterDiffSurvive'
  BY <1>1, <1>2 DEF SandboxInv, OverwrittenMade, EditsAfterDiffSurvive
<1>9. SandboxTypes'
  <2>1. tree' \in Tree
    BY <1>1 DEF Tree, Content
  <2>2. diffed' \in [DOMAIN diffed' -> SUBSET Runs] /\ DOMAIN diffed' \subseteq Edits
    BY <1>1
  <2> QED BY <1>1, <2>1, <2>2 DEF SandboxInv, SandboxTypes
<1> QED BY <1>5, <1>6, <1>7, <1>8, <1>9 DEF SandboxInv

LEMMA RevertKeepsInv ==
    ASSUME SandboxInv, NEW cleaned, Revert(cleaned)
    PROVE  SandboxInv'
<1>1. /\ tree' = [f \in Files |-> IF f \in Untracked \ cleaned THEN tree[f] ELSE Committed]
      /\ UNCHANGED <<pending, tmp, runs, fallback, diffed, overwritten>>
  BY DEF Revert
<1>2. tree' \in Tree
  BY <1>1 DEF SandboxInv, SandboxTypes, Tree, Content
<1>3. ContentsFine'
  BY <1>1, CommittedFine DEF SandboxInv, ContentsFine
<1> QED BY <1>1, <1>2, <1>3 DEF SandboxInv, SandboxTypes, PatchesFine, RunsFine,
        OverwrittenMade, OffersAreCurrent, EditsAfterDiffSurvive

LEMMA CrashKeepsInv ==
    ASSUME SandboxInv, Crash
    PROVE  SandboxInv'
<1>1. /\ UNCHANGED <<tree, pending, tmp, fallback, diffed, overwritten>>
      /\ runs' = [r \in Runs |-> runs'[r]]
      /\ \A r \in Runs : runs'[r] = runs[r] \/ runs'[r] = [runs[r] EXCEPT !.by = "nobody"]
  BY DEF Crash
<1>2. ASSUME NEW r \in Runs
      PROVE  /\ runs'[r] \in Run /\ runs'[r].pc = runs[r].pc /\ runs'[r].exit = runs[r].exit
             /\ runs'[r].app = runs[r].app /\ runs'[r].slot = runs[r].slot
             /\ runs'[r].host = runs[r].host /\ runs'[r].before = runs[r].before
             /\ runs[r].before \subseteq Runs
  <2>1. runs[r] \in Run
    BY DEF SandboxInv, SandboxTypes
  <2> QED BY <1>1, <2>1 DEF Run
<1>3. /\ \A c : Fine(c, runs, DOMAIN diffed) => Fine(c, runs', DOMAIN diffed')
      /\ \A patch : PatchFine(patch, runs, diffed) => PatchFine(patch, runs', diffed')
  <2>1. \A r \in Runs : Settled(runs[r]) => Settled(runs'[r])
    BY <1>2 DEF Settled
  <2> QED BY <1>1, <2>1, FineGrows
<1>4. SandboxTypes'
  <2>1. runs' \in [Runs -> Run]
    BY <1>1, <1>2
  <2> QED BY <1>1, <2>1 DEF SandboxInv, SandboxTypes
<1>5. ContentsFine' /\ PatchesFine'
  BY <1>1, <1>2, <1>3 DEF SandboxInv, ContentsFine, PatchesFine
<1>6. RunsFine'
  <2>1. \A e \in DOMAIN diffed : diffed[e] \subseteq Runs
    BY DEF SandboxInv, SandboxTypes
  <2> QED BY <1>1, <1>2, <2>1 DEF SandboxInv, RunsFine
<1>7. OffersAreCurrent' /\ OverwrittenMade' /\ EditsAfterDiffSurvive'
  BY <1>1, <1>2 DEF SandboxInv, OffersAreCurrent, OverwrittenMade, EditsAfterDiffSurvive
<1> QED BY <1>4, <1>5, <1>6, <1>7 DEF SandboxInv

---------------------------------------------------------------------------
(* The theorems about SandboxPatch *)

LEMMA SandboxInitInv == SandboxInit => SandboxInv
<1> SUFFICES ASSUME SandboxInit
             PROVE  SandboxInv
  OBVIOUS
<1>1. /\ NoRun \in Run /\ NoRun.pc = "idle" /\ NoRun.exit = "none" /\ ~NoRun.host
      /\ NoRun.before = {} /\ NoRun.app = Clean
  <2> HIDE DEF Clean, Tree
  <2> QED BY CleanTree, SandboxAssumption DEF NoRun, Run
<1>2. \A f \in Files : Clean[f] = Committed
  BY DEF Clean
<1>3. SandboxTypes
  BY <1>1, CleanTree DEF SandboxInit, SandboxTypes
<1>4. ContentsFine
  BY <1>1, <1>2, CommittedFine DEF SandboxInit, ContentsFine
<1>5. PatchesFine /\ RunsFine /\ OffersAreCurrent
  BY <1>1 DEF SandboxInit, PatchesFine, RunsFine, OffersAreCurrent
<1>6. OverwrittenMade /\ EditsAfterDiffSurvive
  BY DEF SandboxInit, OverwrittenMade, EditsAfterDiffSurvive
<1> QED BY <1>3, <1>4, <1>5, <1>6 DEF SandboxInv

LEMMA SandboxNextKeepsInv == SandboxInv /\ [SandboxNext]_sandboxVars => SandboxInv'
<1> SUFFICES ASSUME SandboxInv, [SandboxNext]_sandboxVars
             PROVE  SandboxInv'
  OBVIOUS
<1>1. CASE UNCHANGED sandboxVars
  BY <1>1 DEF sandboxVars, SandboxInv, SandboxTypes, ContentsFine, PatchesFine, RunsFine,
              OverwrittenMade, OffersAreCurrent, EditsAfterDiffSurvive
<1> QED BY <1>1, RunKeepsInv, MergesKeepInv, EditKeepsSandbox, RevertKeepsInv, CrashKeepsInv
        DEF SandboxNext

LEMMA SandboxInvHolds == SandboxSpec => []SandboxInv
BY SandboxInitInv, SandboxNextKeepsInv, PTL DEF SandboxSpec

\* Workspace, patches, runs and copies keep their types, through merges that are
\* retried, timeouts and deaths of the gateway.
THEOREM SandboxTypesHold == SandboxSpec => []SandboxTypeOK
<1>1. SandboxInv => SandboxTypeOK
  BY DEF SandboxInv, SandboxTypes, SandboxTypeOK
<1> QED BY <1>1, SandboxInvHolds, PTL

\* sandbox-execute.sh takes no diff of a command that failed in its container, and
\* no patch of another run carries what it did.
THEOREM FailuresDiscarded == SandboxSpec => []FailedCommandsDiscarded
<1>1. SandboxInv => FailedCommandsDiscarded
  BY DEF SandboxInv, ContentsFine, Fine, Settled, FailedCommandsDiscarded
<1> QED BY <1>1, SandboxInvHolds, PTL

\* What is offered in a slot is never older than the last run there, however
\* many runs of either process meet in it.
THEOREM OffersStayCurrent == SandboxSpec => []OffersAreCurrent
<1>1. SandboxInv => OffersAreCurrent
  BY DEF SandboxInv
<1> QED BY <1>1, SandboxInvHolds, PTL

\* POST /api/sandbox/apply and apply-patch.sh lose no edit made after the diff
\* was taken, however often they are retried.
THEOREM LaterEditsSurvive == SandboxSpec => []EditsAfterDiffSurvive
<1>1. SandboxInv => EditsAfterDiffSurvive
  BY DEF SandboxInv
<1> QED BY <1>1, SandboxInvHolds, PTL

---------------------------------------------------------------------------
(* Drift *)

\* Types survive every step of a handler of an execution.
LEMMA HandlersKeepTypes ==
    ASSUME DriftTypeOK, NEW x \in Executions, HandlerStep(x)
    PROVE  DriftTypeOK'
<1> USE DEF DriftTypeOK, Handler, Drift
<1>1. ASSUME NEW succeeded \in BOOLEAN, ScriptExits(x, succeeded) PROVE DriftTypeOK'
  BY <1>1 DEF ScriptExits, Handle
<1>2. CASE Detect(x)
  <2>1. [handlers[x] EXCEPT !.pc = "detect", !.found = drifted] \in Handler
    OBVIOUS
  <2> QED BY <1>2, <2>1 DEF Detect, Handle
<1>3. CASE LogFails(x)
  <2>1. /\ [handlers[x] EXCEPT !.succeeded = FALSE] \in Handler
        /\ [handlers[x] EXCEPT !.pc = "answered"] \in Handler
    OBVIOUS
  <2> QED BY <1>3, <2>1 DEF LogFails, Handle
<1>4. ASSUME NEW f \in Paths, AddDrift(x, f) PROVE DriftTypeOK'
  <2> DEFINE rest == [handlers[x] EXCEPT !.found = @ \ {f}]
  <2>1. rest \in Handler
    OBVIOUS
  <2>2. handlers' \in [Executions -> Handler]
    <3>1. handlers' = [handlers EXCEPT ![x] = rest]
      BY <1>4 DEF AddDrift, Handle
    <3> HIDE DEF rest
    <3> QED BY <2>1, <3>1
  <2>3. drifts' \subseteq Drift
    <3>1. Opened(f) \in Drift
      BY DEF Opened
    <3> HIDE DEF Drift
    <3> QED BY <1>4, <3>1 DEF AddDrift
  <2>4. known' \subseteq Paths
    BY <1>4 DEF AddDrift
  <2> QED BY <1>4, <2>2, <2>3, <2>4 DEF AddDrift, Handle
<1>5. CASE AddDriftFails(x)
  <2>1. [handlers[x] EXCEPT !.found = {}] \in Handler
    OBVIOUS
  <2> QED BY <1>5, <2>1 DEF AddDriftFails, Handle
<1>6. CASE Answer(x)
  <2>1. [handlers[x] EXCEPT !.pc = "answered"] \in Handler
    OBVIOUS
  <2> QED BY <1>6, <2>1 DEF Answer, Handle
<1> QED BY <1>1, <1>2, <1>3, <1>4, <1>5, <1>6 DEF HandlerStep

\* And every step of a reconcile or a restore.
LEMMA ReconcilesKeepTypes ==
    ASSUME DriftTypeOK, ReconcileStep
    PROVE  DriftTypeOK'
<1> USE DEF DriftTypeOK, Step
<1>1. CASE GitRestore
  BY <1>1 DEF GitRestore
<1>2. CASE GitClean
  BY <1>2 DEF GitClean
<1>3. CASE GitCleanFails
  BY <1>3 DEF GitCleanFails
<1>4. CASE MarkReconciled
  <2>1. \A d \in drifts : [d EXCEPT !.reconciled = TRUE] \in Drift
    BY DEF Drift
  <2> QED BY <1>4, <2>1 DEF MarkReconciled
<1>5. CASE MarkFails
  BY <1>5 DEF MarkFails
<1> QED BY <1>1, <1>2, <1>3, <1>4, <1>5 DEF ReconcileStep

LEMMA DriftNextKeepsTypes ==
    ASSUME DriftTypeOK, [DriftNext]_driftVars
    PROVE  DriftTypeOK'
<1>1. ASSUME NEW f \in Paths, Disturb(f) PROVE DriftTypeOK'
  BY <1>1 DEF Disturb, DriftTypeOK
<1>2. ASSUME NEW x \in Executions, HandlerStep(x) PROVE DriftTypeOK'
  BY <1>2, HandlersKeepTypes
<1>3. CASE ReconcileStep
  BY <1>3, ReconcilesKeepTypes
<1>4. CASE ClearDrifts
  BY <1>4 DEF ClearDrifts, DriftTypeOK
<1>5. CASE GatewayDies
  BY <1>5 DEF GatewayDies, DriftTypeOK, Handler
<1>6. CASE UNCHANGED driftVars
  BY <1>6 DEF driftVars, DriftTypeOK
<1> QED BY <1>1, <1>2, <1>3, <1>4, <1>5, <1>6 DEF DriftNext

\* Files, handlers, records and the restore in progress keep their types.
THEOREM DriftTypesHold == DriftSpec => []DriftTypeOK
<1>1. DriftInit => DriftTypeOK
  BY DEF DriftInit, DriftTypeOK, Handler, Drift
<1> QED BY <1>1, DriftNextKeepsTypes, PTL DEF DriftSpec

---------------------------------------------------------------------------

\* No handler is between the exit of its script and its answer.
Quiet == \A x \in Executions : handlers[x].pc \notin {"log", "detect"}

\* Of a gateway that does not return to its loop: no record is made during a
\* restore, so the two halves of it leave nothing known to be marked in error.
DriftInv ==
    ~async =>
        /\ reconciling # "no" => Quiet
        /\ reconciling = "clean" => known \subseteq New
        /\ reconciling = "mark" => known = {}
        /\ known \subseteq Open

LEMMA HandlersKeepRecords ==
    ASSUME DriftTypeOK, DriftInv, NEW x \in Executions, HandlerStep(x)
    PROVE  DriftInv'
<1> SUFFICES ASSUME ~async' PROVE DriftInv!2'
  BY DEF DriftInv
<1>0. ~async /\ reconciling' = reconciling
  BY DEF HandlerStep, ScriptExits, Detect, LogFails, AddDrift, AddDriftFails, Answer, Handle
<1>1. reconciling = "no"
  <2>1. ASSUME NEW succeeded \in BOOLEAN, ScriptExits(x, succeeded) PROVE reconciling = "no"
    BY <2>1, <1>0 DEF ScriptExits, Busy, DriftTypeOK
  <2>2. ASSUME handlers[x].pc \in {"log", "detect"} PROVE reconciling = "no"
    BY <2>2, <1>0 DEF DriftInv, Quiet
  <2> QED
    BY <2>1, <2>2 DEF HandlerStep, Detect, LogFails, AddDrift, AddDriftFails, Answer, Handle
<1>2. known' \subseteq Open'
  <2>1. ASSUME NEW f \in Paths, AddDrift(x, f) PROVE known' \subseteq Open'
    BY <2>1, <1>0 DEF AddDrift, Open, Opened, DriftInv
  <2>2. CASE UNCHANGED <<drifts, known>>
    BY <2>2, <1>0 DEF DriftInv, Open
  <2> QED
    BY <2>1, <2>2 DEF HandlerStep, ScriptExits, Detect, LogFails, AddDriftFails, Answer
<1> QED BY <1>0, <1>1, <1>2

LEMMA ReconcilesKeepRecords ==
    ASSUME DriftTypeOK, DriftInv, ReconcileStep
    PROVE  DriftInv'
<1> SUFFICES ASSUME ~async' PROVE DriftInv!2'
  BY DEF DriftInv
<1>0. ~async /\ handlers' = handlers
  BY DEF ReconcileStep, GitRestore, GitClean, GitCleanFails, MarkReconciled, MarkFails, Step
<1> USE DEF DriftInv, Step, Quiet
<1>1. CASE GitRestore
  BY <1>0, <1>1 DEF GitRestore, Busy, DriftTypeOK, Open
<1>2. CASE GitClean
  BY <1>0, <1>2 DEF GitClean, Open
<1>3. CASE GitCleanFails
  BY <1>0, <1>3 DEF GitCleanFails, Open
<1>4. CASE MarkReconciled
  BY <1>0, <1>4 DEF MarkReconciled
<1>5. CASE MarkFails
  BY <1>0, <1>5 DEF MarkFails, Open
<1> QED BY <1>1, <1>2, <1>3, <1>4, <1>5 DEF ReconcileStep

LEMMA DriftNextKeepsRecords ==
    ASSUME DriftTypeOK, DriftInv, [DriftNext]_driftVars
    PROVE  DriftInv'
<1>1. ASSUME NEW f \in Paths, Disturb(f) PROVE DriftInv'
  BY <1>1 DEF Disturb, DriftInv, Quiet, Open
<1>2. ASSUME NEW x \in Executions, HandlerStep(x) PROVE DriftInv'
  BY <1>2, HandlersKeepRecords
<1>3. CASE ReconcileStep
  BY <1>3, ReconcilesKeepRecords
<1>4. CASE ClearDrifts
  BY <1>4 DEF ClearDrifts, DriftInv, Quiet, Open
<1>5. CASE GatewayDies
  BY <1>5 DEF GatewayDies, DriftInv, Open
<1>6. CASE UNCHANGED driftVars
  BY <1>6 DEF driftVars, DriftInv, Quiet, Open
<1> QED BY <1>1, <1>2, <1>3, <1>4, <1>5, <1>6 DEF DriftNext

\* Where the store is a file, a file recorded as drifted stays on the open list
\* until it is restored, for any number of files and of executions in flight,
\* through failures of either half of a restore and deaths of the gateway.
THEOREM OpenListComplete == DriftSpec => []KnownDriftIsOpen
<1>1. DriftInit => DriftInv
  BY DEF DriftInit, DriftInv, Quiet
<1>2. DriftInv => KnownDriftIsOpen
  BY DEF DriftInv, KnownDriftIsOpen
<1> QED BY <1>1, <1>2, DriftTypesHold, DriftNextKeepsRecords, PTL DEF DriftSpec

---------------------------------------------------------------------------
(* The window of the auto-throttle *)

Latencies == BoundedSeq(Durations, Window)

\* The last elements of t are those of s.
Ends(s, t) ==
    /\ Len(s) <= Len(t)
    /\ \A i \in 1..Len(s) : s[i] = t[Len(t) - Len(s) + i]

LEMMA WindowType ==
    ASSUME NEW w
    PROVE  w \in BoundedSeq(Durations, Window) <=> w \in Seq(Durations) /\ Len(w) <= Window
<1> USE ThrottleAssumption
<1>1. ASSUME w \in BoundedSeq(Durations, Window) PROVE w \in Seq(Durations) /\ Len(w) <= Window
  <2>1. PICK n \in 0..Window : w \in [1..n -> Durations]
    BY <1>1 DEF BoundedSeq, SeqOf
  <2>2. w \in Seq(Durations) /\ Len(w) = n
    BY <2>1
  <2> QED BY <2>2
<1>2. ASSUME w \in Seq(Durations), Len(w) <= Window PROVE w \in BoundedSeq(Durations, Window)
  <2>1. Len(w) \in 0..Window /\ w \in [1..Len(w) -> Durations]
    BY <1>2
  <2> QED BY <2>1 DEF BoundedSeq, SeqOf
<1> QED BY <1>1, <1>2

LEMMA SuffixEnds ==
    ASSUME NEW s \in Seq(Durations), NEW t \in Seq(Durations)
    PROVE  IsSuffix(s, t) <=> Ends(s, t)
<1> DEFINE r == Reverse(s)
           q == Reverse(t)
<1>1. /\ r \in Seq(Durations) /\ Len(r) = Len(s) /\ \A i \in 1..Len(s) : r[i] = s[Len(s) - i + 1]
      /\ q \in Seq(Durations) /\ Len(q) = Len(t) /\ \A i \in 1..Len(t) : q[i] = t[Len(t) - i + 1]
  BY DEF Reverse
<1> HIDE DEF r, q
<1>2. ASSUME Len(s) <= Len(t)
      PROVE  SubSeq(r, 1, Len(s)) = SubSeq(q, 1, Len(s)) <=> \A i \in 1..Len(s) : r[i] = q[i]
  BY <1>1, <1>2
<1>3. ASSUME Len(s) <= Len(t), \A i \in 1..Len(s) : r[i] = q[i]
      PROVE  Ends(s, t)
  <2> SUFFICES ASSUME NEW i \in 1..Len(s)
               PROVE  s[i] = t[Len(t) - Len(s) + i]
    BY <1>3 DEF Ends
  <2>1. Len(s) - i + 1 \in 1..Len(s) /\ Len(s) - i + 1 \in 1..Len(t)
    BY <1>3
  <2>2. r[Len(s) - i + 1] = s[i] /\ q[Len(s) - i + 1] = t[Len(t) - Len(s) + i]
    <3>1. Len(s) - (Len(s) - i + 1) + 1 = i /\ Len(t) - (Len(s) - i + 1) + 1 = Len(t) - Len(s) + i
      OBVIOUS
    <3> QED BY <1>1, <2>1, <3>1
  <2> QED BY <1>3, <2>1, <2>2
<1>4. ASSUME Ends(s, t)
      PROVE  Len(s) <= Len(t) /\ \A i \in 1..Len(s) : r[i] = q[i]
  <2>1. Len(s) <= Len(t)
    BY <1>4 DEF Ends
  <2> SUFFICES ASSUME NEW i \in 1..Len(s)
               PROVE  r[i] = q[i]
    BY <2>1
  <2>2. Len(s) - i + 1 \in 1..Len(s) /\ i \in 1..Len(t)
    BY <2>1
  <2>3. Len(t) - Len(s) + (Len(s) - i + 1) = Len(t) - i + 1
    OBVIOUS
  <2> QED BY <1>1, <1>4, <2>2, <2>3 DEF Ends
<1> QED BY <1>1, <1>2, <1>3, <1>4 DEF IsSuffix, IsPrefix, r, q

\* What addExecutionLatency makes of a window.
LEMMA PushShape ==
    ASSUME NEW w \in Latencies, NEW d \in Durations
    PROVE  /\ Push(w, d) \in Seq(Durations)
           /\ Len(w) < Window => /\ Len(Push(w, d)) = Len(w) + 1
                                 /\ Push(w, d)[Len(w) + 1] = d
                                 /\ \A i \in 1..Len(w) : Push(w, d)[i] = w[i]
           /\ Len(w) = Window => /\ Len(Push(w, d)) = Len(w)
                                 /\ Push(w, d)[Len(w)] = d
                                 /\ \A i \in 1..(Len(w) - 1) : Push(w, d)[i] = w[i + 1]
<1> USE ThrottleAssumption
<1>1. w \in Seq(Durations) /\ Len(w) <= Window
  BY WindowType DEF Latencies
<1>2. CASE Len(w) < Window
  BY <1>1, <1>2 DEF Push
<1>3. CASE Len(w) = Window
  <2>1. /\ Tail(w) \in Seq(Durations) /\ Len(Tail(w)) = Len(w) - 1
        /\ \A i \in 1..(Len(w) - 1) : Tail(w)[i] = w[i + 1]
    BY <1>1, <1>3
  <2> QED BY <1>3, <2>1 DEF Push
<1> QED BY <1>1, <1>2, <1>3

\* addExecutionLatency keeps its bound and what the window is a part of.
LEMMA PushEnds ==
    ASSUME NEW s \in Latencies, NEW t \in Latencies, Ends(s, t), NEW d \in Durations
    PROVE  Push(s, d) \in Latencies /\ Push(t, d) \in Latencies /\ Ends(Push(s, d), Push(t, d))
<1> USE ThrottleAssumption
<1>1. /\ s \in Seq(Durations) /\ t \in Seq(Durations) /\ Len(s) <= Window /\ Len(t) <= Window
      /\ Len(s) \in Nat /\ Len(t) \in Nat
      /\ Len(s) <= Len(t) /\ \A i \in 1..Len(s) : s[i] = t[Len(t) - Len(s) + i]
  BY WindowType DEF Ends, Latencies
<1>2. PICK p, q : p = Push(s, d) /\ q = Push(t, d)
  OBVIOUS
<1>3. /\ p \in Seq(Durations)
      /\ Len(s) < Window => /\ Len(p) = Len(s) + 1
                            /\ p[Len(s) + 1] = d
                            /\ \A i \in 1..Len(s) : p[i] = s[i]
      /\ Len(s) = Window => /\ Len(p) = Len(s)
                            /\ p[Len(s)] = d
                            /\ \A i \in 1..(Len(s) - 1) : p[i] = s[i + 1]
  BY <1>2, PushShape
<1>4. /\ q \in Seq(Durations)
      /\ Len(t) < Window => /\ Len(q) = Len(t) + 1
                            /\ q[Len(t) + 1] = d
                            /\ \A i \in 1..Len(t) : q[i] = t[i]
      /\ Len(t) = Window => /\ Len(q) = Len(t)
                            /\ q[Len(t)] = d
                            /\ \A i \in 1..(Len(t) - 1) : q[i] = t[i + 1]
  BY <1>2, PushShape
<1>5. Len(p) <= Window /\ Len(q) <= Window /\ Len(p) <= Len(q)
  BY <1>1, <1>3, <1>4
<1>6. ASSUME NEW i \in 1..Len(p)
      PROVE  p[i] = q[Len(q) - Len(p) + i]
  <2>1. CASE Len(t) < Window
    <3>1. /\ Len(p) = Len(s) + 1 /\ Len(q) = Len(t) + 1
          /\ p[Len(s) + 1] = d /\ q[Len(t) + 1] = d
          /\ \A j \in 1..Len(s) : p[j] = s[j]
          /\ \A j \in 1..Len(t) : q[j] = t[j]
      BY <1>1, <1>3, <1>4, <2>1
    <3>2. CASE i = Len(s) + 1
      BY <1>1, <3>1, <3>2
    <3>3. CASE i \in 1..Len(s)
      <4>1. Len(t) - Len(s) + i \in 1..Len(t)
        BY <1>1, <3>3
      <4>2. Len(q) - Len(p) + i = Len(t) - Len(s) + i
        BY <1>1, <3>1
      <4> QED BY <1>1, <3>1, <3>3, <4>1, <4>2
    <3> QED BY <1>1, <3>1, <3>2, <3>3
  <2>2. CASE Len(t) = Window /\ Len(s) < Window
    <3>1. /\ Len(p) = Len(s) + 1 /\ Len(q) = Len(t)
          /\ p[Len(s) + 1] = d /\ q[Len(t)] = d
          /\ \A j \in 1..Len(s) : p[j] = s[j]
          /\ \A j \in 1..(Len(t) - 1) : q[j] = t[j + 1]
      BY <1>1, <1>3, <1>4, <2>2
    <3>2. CASE i = Len(s) + 1
      BY <1>1, <3>1, <3>2
    <3>3. CASE i \in 1..Len(s)
      <4>1. Len(t) - Len(s) + i - 1 \in 1..(Len(t) - 1)
        BY <1>1, <2>2, <3>3
      <4>2. /\ Len(q) - Len(p) + i = Len(t) - Len(s) + i - 1
            /\ (Len(t) - Len(s) + i - 1) + 1 = Len(t) - Len(s) + i
        BY <1>1, <3>1
      <4> QED BY <1>1, <3>1, <3>3, <4>1, <4>2
    <3> QED BY <1>1, <3>1, <3>2, <3>3
  <2>3. CASE Len(t) = Window /\ Len(s) = Window
    <3>1. /\ Len(p) = Len(s) /\ Len(q) = Len(s)
          /\ p[Len(s)] = d /\ q[Len(s)] = d
          /\ \A j \in 1..(Len(s) - 1) : p[j] = s[j + 1] /\ q[j] = t[j + 1]
      BY <1>1, <1>3, <1>4, <2>3
    <3>2. Len(q) - Len(p) + i = i /\ \A j \in 1..Len(s) : s[j] = t[j]
      BY <1>1, <2>3, <3>1
    <3>3. CASE i = Len(s)
      BY <3>1, <3>2, <3>3
    <3>4. CASE i \in 1..(Len(s) - 1)
      <4>1. i + 1 \in 1..Len(s)
        BY <1>1, <3>4
      <4> QED BY <3>1, <3>2, <3>4, <4>1
    <3> QED BY <1>1, <3>1, <3>3, <3>4
  <2> QED BY <1>1, <2>1, <2>2, <2>3
<1>7. p \in Latencies /\ q \in Latencies /\ Ends(p, q)
  BY <1>5, <1>6, <1>3, <1>4, WindowType DEF Ends, Latencies
<1> QED BY <1>2, <1>7

\* A window that is not empty is no older than the last execution, and is what
\* the executions since the last quiet spell left.
ThrottleInv ==
    /\ ThrottleTypeOK
    /\ running # {} => quiet = 0
    /\ latencies # <<>> => quiet <= idle
    /\ Ends(latencies, recent)

LEMMA EmptyWindow ==
    /\ <<>> \in Latencies
    /\ \A t \in Latencies : Ends(<<>>, t)
<1>1. <<>> \in Seq(Durations) /\ Len(<<>>) = 0
  OBVIOUS
<1>2. \A t \in Latencies : t \in Seq(Durations)
  BY WindowType DEF Latencies
<1>3. <<>> \in Latencies
  <2>1. 0 <= Window
    BY ThrottleAssumption
  <2> QED BY <1>1, <2>1, WindowType DEF Latencies
<1>4. ASSUME NEW t \in Latencies PROVE Ends(<<>>, t)
  <2>1. Len(t) \in Nat /\ 1..Len(<<>>) = {}
    BY <1>1, <1>2
  <2> QED BY <1>1, <2>1 DEF Ends
<1> QED BY <1>3, <1>4

LEMMA ThrottleNextKeepsInv == ThrottleInv /\ [ThrottleNext]_throttleVars => ThrottleInv'
<1> SUFFICES ASSUME ThrottleInv, [ThrottleNext]_throttleVars
             PROVE  ThrottleInv'
  OBVIOUS
<1> USE DEF Forgotten
<1>1. /\ latencies \in Latencies /\ recent \in Latencies /\ Ends(latencies, recent)
      /\ idle \in 0..6 /\ quiet \in 0..6
      /\ running \subseteq Callers /\ logging \subseteq running
      /\ running # {} => quiet = 0
      /\ latencies # <<>> => quiet <= idle
  BY DEF ThrottleInv, ThrottleTypeOK, Latencies
<1>2. ASSUME latencies' \in Latencies, recent' \in Latencies, Ends(latencies', recent'),
             idle' \in 0..6, quiet' \in 0..6, running' \subseteq Callers,
             logging' \subseteq running',
             running' # {} => quiet' = 0,
             latencies' # <<>> => quiet' <= idle'
      PROVE  ThrottleInv'
  BY <1>2 DEF ThrottleInv, ThrottleTypeOK, Latencies
<1>3. /\ Remembered \in Latencies /\ Ends(Remembered, recent)
      /\ Remembered = latencies \/ Remembered = <<>>
      /\ quiet = 6 => Remembered = <<>>
  BY <1>1, EmptyWindow DEF Remembered
<1>4. CASE Read
  BY <1>1, <1>2, <1>3, <1>4 DEF Read
<1>5. ASSUME NEW x \in Callers, Enter(x)
      PROVE  ThrottleInv'
  <2>1. recent' \in Latencies /\ Ends(latencies', recent') /\ latencies' \in Latencies
    BY <1>1, <1>3, <1>5, EmptyWindow DEF Enter
  <2> QED BY <1>1, <1>2, <1>5, <2>1 DEF Enter
<1>6. ASSUME NEW x \in Callers, Leave(x) \/ Logged(x)
      PROVE  ThrottleInv'
  BY <1>1, <1>2, <1>6 DEF Leave, Logged
<1>7. ASSUME NEW x \in Callers, NEW d \in Durations,
             Finish(x, d) \/ Succeed(x, d) \/ MeasuredAgain(x, d)
      PROVE  ThrottleInv'
  <2>1. /\ latencies' = Push(latencies, d) /\ recent' = Push(recent, d) /\ quiet = 0
        /\ idle' = 0 /\ quiet' = quiet
        /\ running' \subseteq Callers /\ logging' \subseteq running'
    BY <1>1, <1>7 DEF Finish, Succeed, MeasuredAgain, Measured
  <2>2. latencies' \in Latencies /\ recent' \in Latencies /\ Ends(latencies', recent')
    BY <1>1, <2>1, PushEnds
  <2> QED BY <1>2, <2>1, <2>2
<1>8. CASE ClearLatencies
  BY <1>1, <1>2, <1>8, EmptyWindow DEF ClearLatencies
<1>9. CASE Tick
  BY <1>1, <1>2, <1>9 DEF Tick
<1>10. CASE UNCHANGED throttleVars
  BY <1>1, <1>2, <1>10 DEF throttleVars
<1> QED BY <1>4, <1>5, <1>6, <1>7, <1>8, <1>9, <1>10 DEF ThrottleNext

LEMMA ThrottleInvHolds == ThrottleSpec => []ThrottleInv
<1>1. ASSUME ThrottleInit PROVE ThrottleInv
  BY <1>1, EmptyWindow DEF ThrottleInit, ThrottleInv, ThrottleTypeOK, Latencies, Forgotten
<1> QED BY <1>1, ThrottleNextKeepsInv, PTL DEF ThrottleSpec

\* Both windows hold at most MAX_LATENCY_HISTORY times, whatever ends in between.
THEOREM ThrottleTypesHold == ThrottleSpec => []ThrottleTypeOK
BY ThrottleInvHolds, PTL DEF ThrottleInv

\* getMovingAverageLatency clears the window only when somebody asks for the
\* average; still no execution is throttled by a time from before half a minute
\* in which nothing ran.
THEOREM OldTimesForgotten == ThrottleSpec => []OldTimesAreForgotten
<1>1. ASSUME ThrottleInv, Throttled
      PROVE  quiet < Forgotten /\ IsSuffix(latencies, recent)
  <2>1. latencies \in Seq(Durations) /\ recent \in Seq(Durations)
    BY <1>1, WindowType DEF ThrottleInv, ThrottleTypeOK
  <2> QED BY <1>1, <2>1, SuffixEnds DEF ThrottleInv, ThrottleTypeOK, Throttled, Forgotten
<1>2. ThrottleInv => OldTimesAreForgotten
  BY <1>1 DEF OldTimesAreForgotten
<1> QED BY <1>2, ThrottleInvHolds, PTL

=============================================================================
