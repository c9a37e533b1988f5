----------------------------- MODULE JsonStore -----------------------------
(***************************************************************************)
(* One table of the JSON store of packages/database/src/index.ts: the lock *)
(* file that lockAndModify and lockAndModifyAsync take, the read, the      *)
(* write through a temporary file and a rename, and clearDatabase, which   *)
(* rewrites the table without the lock.  Every file-system call is a step: *)
(* the gateway, the MCP servers and the command auditor are processes that *)
(* share the files, and the asynchronous calls of one process interleave.  *)
(*                                                                         *)
(* A call of the model adds one row, as the unshift and push callbacks do; *)
(* the temporary file, whose name is random, is left out.                  *)
(***************************************************************************)
EXTENDS Naturals

CONSTANTS
    Calls,       \* lockAndModify calls on this table
    SlowCalls,   \* calls that may hold the lock for more than 10 s
    MaxCrashes,  \* bound: processes that die during a call, and locks not removed
    MaxResets    \* bound: POST /api/reset

ASSUME StoreAssumption ==
    /\ SlowCalls \subseteq Calls
    /\ MaxCrashes \in Nat
    /\ MaxResets \in Nat

VARIABLES
    pc,         \* where each call is
    lock,       \* {c} when the lock file was created by c, {} when there is none
    stale,      \* the lock file's mtime is more than 10 s ago
    late,       \* calls that have been trying for more than 5 s
    file,       \* the table: the calls whose row it holds
    seen,       \* what each call read of it
    committed,  \* history: calls whose rename succeeded
    erased,     \* history: rows a reset has removed
    crashes,
    resets

storeVars == <<pc, lock, stale, late, file, seen, committed, erased, crashes, resets>>

Trying == {"lock", "stat", "break", "wait"}
Holding == {"read", "write", "release", "unlock"}
Points == {"idle", "ended", "crashed"} \cup Trying \cup Holding

TypeOK ==
    /\ pc \in [Calls -> Points]
    /\ lock \in {{}} \cup {{c} : c \in Calls}
    /\ stale \in BOOLEAN
    /\ late \subseteq Calls
    /\ file \subseteq Calls
    /\ seen \in [Calls -> SUBSET Calls]
    /\ committed \subseteq Calls
    /\ erased \subseteq Calls
    /\ crashes \in 0..MaxCrashes
    /\ resets \in 0..MaxResets

Init ==
    /\ pc = [c \in Calls |-> "idle"]
    /\ lock = {}
    /\ stale = FALSE
    /\ late = {}
    /\ file = {}
    /\ seen = [c \in Calls |-> {}]
    /\ committed = {}
    /\ erased = {}
    /\ crashes = 0
    /\ resets = 0

---------------------------------------------------------------------------
Goto(c, to) == pc' = [pc EXCEPT ![c] = to]

Begin(c) ==
    /\ pc[c] = "idle"
    /\ Goto(c, "lock")
    /\ UNCHANGED <<lock, stale, late, file, seen, committed, erased, crashes, resets>>

\* writeFile with flag 'wx' creates the lock file, or fails with EEXIST.
TryLock(c) ==
    /\ pc[c] = "lock"
    /\ IF lock = {}
       THEN lock' = {c} /\ stale' = FALSE /\ Goto(c, "read")
       ELSE UNCHANGED <<lock, stale>> /\ Goto(c, "stat")
    /\ UNCHANGED <<late, file, seen, committed, erased, crashes, resets>>

\* Any other error of writeFile is thrown on, before there is a lock to release.
LockFails(c) ==
    /\ pc[c] = "lock"
    /\ Goto(c, "ended")
    /\ UNCHANGED <<lock, stale, late, file, seen, committed, erased, crashes, resets>>

\* Mutant of Abandoned: the age of the lock file is not looked at.
AnyLock == lock # {}

\* A lock file older than 10 s is taken for a dead process's.
Abandoned == lock # {} /\ stale

Stat(c) ==
    /\ pc[c] = "stat"
    /\ Goto(c, IF Abandoned THEN "break" ELSE "wait")
    /\ UNCHANGED <<lock, stale, late, file, seen, committed, erased, crashes, resets>>

\* unlink removes the lock file that is there by now, whoever's it is; when
\* there is none it throws, and the call waits as if it had found a live one.
Break(c) ==
    /\ pc[c] = "break"
    /\ lock' = {}
    /\ stale' = FALSE
    /\ Goto(c, IF lock = {} THEN "wait" ELSE "lock")
    /\ UNCHANGED <<late, file, seen, committed, erased, crashes, resets>>

\* Mutant of Wait: there is no timeout.
WaitForEver(c) ==
    /\ pc[c] = "wait"
    /\ Goto(c, "lock")
    /\ UNCHANGED <<lock, stale, late, file, seen, committed, erased, crashes, resets>>

\* The call throws when it has been trying for 5 s, else it sleeps 50 ms.
Wait(c) ==
    /\ pc[c] = "wait"
    /\ Goto(c, IF c \in late THEN "ended" ELSE "lock")
    /\ UNCHANGED <<lock, stale, late, file, seen, committed, erased, crashes, resets>>

Read(c) ==
    /\ pc[c] = "read"
    /\ seen' = [seen EXCEPT ![c] = file]
    /\ Goto(c, "write")
    /\ UNCHANGED <<lock, stale, late, file, committed, erased, crashes, resets>>

\* The rename replaces the table by what was read and the call's own row.
Write(c) ==
    /\ pc[c] = "write"
    /\ file' = seen[c] \cup {c}
    /\ committed' = committed \cup {c}
    /\ Goto(c, "release")
    /\ UNCHANGED <<lock, stale, late, seen, erased, crashes, resets>>

\* The callback, the temporary file or the rename fails: finally still releases.
WriteFails(c) ==
    /\ pc[c] = "write"
    /\ Goto(c, "release")
    /\ UNCHANGED <<lock, stale, late, file, seen, committed, erased, crashes, resets>>

\* releaseLock looks whether there is a lock file, not whose it is.
Release(c) ==
    /\ pc[c] = "release"
    /\ Goto(c, IF lock = {} THEN "ended" ELSE "unlock")
    /\ UNCHANGED <<lock, stale, late, file, seen, committed, erased, crashes, resets>>

Unlock(c) ==
    /\ pc[c] = "unlock"
    /\ lock' = {}
    /\ stale' = FALSE
    /\ Goto(c, "ended")
    /\ UNCHANGED <<late, file, seen, committed, erased, crashes, resets>>

\* unlink fails, which releaseLock swallows: the call is over, its lock is not.
UnlockFails(c) ==
    /\ pc[c] = "unlock"
    /\ crashes < MaxCrashes
    /\ crashes' = crashes + 1
    /\ Goto(c, "ended")
    /\ UNCHANGED <<lock, stale, late, file, seen, committed, erased, resets>>

---------------------------------------------------------------------------
(* The environment *)

\* Five seconds have passed since the call began.
GetsLate(c) ==
    /\ pc[c] \in Trying
    /\ c \notin late
    /\ late' = late \cup {c}
    /\ UNCHANGED <<pc, lock, stale, file, seen, committed, erased, crashes, resets>>

\* Ten seconds have passed since the lock file was created: its owner died or
\* could not remove it, or it is an asynchronous call whose process is busy with
\* a synchronous one, a sandboxed command for instance.
LockAges ==
    /\ \E c \in lock : pc[c] \in {"ended", "crashed"} \/ c \in SlowCalls
    /\ stale' = TRUE
    /\ UNCHANGED <<pc, lock, late, file, seen, committed, erased, crashes, resets>>

\* The process dies in the middle of the call; the files stay as they are.
Crash(c) ==
    /\ pc[c] \in Trying \cup Holding
    /\ crashes < MaxCrashes
    /\ crashes' = crashes + 1
    /\ Goto(c, "crashed")
    /\ UNCHANGED <<lock, stale, late, file, seen, committed, erased, resets>>

\* clearDatabase renames an initial table over this one, lock or no lock.
Reset ==
    /\ resets < MaxResets
    /\ resets' = resets + 1
    /\ file' = {}
    /\ erased' = erased \cup file
    /\ UNCHANGED <<pc, lock, stale, late, seen, committed, crashes>>

---------------------------------------------------------------------------
Step(c) ==
    \/ TryLock(c)
    \/ LockFails(c)
    \/ Stat(c)
    \/ Break(c)
    \/ Wait(c)
    \/ Read(c)
    \/ Write(c)
    \/ WriteFails(c)
    \/ Release(c)
    \/ Unlock(c)
    \/ UnlockFails(c)

Next ==
    \/ \E c \in Calls : Begin(c) \/ Step(c) \/ GetsLate(c) \/ Crash(c)
    \/ LockAges
    \/ Reset

Spec == Init /\ [][Next]_storeVars

\* A call that has begun is carried on by its event loop, and time passes.  It
\* is not assumed that a lock file is ever seen to be old.
Fairness == \A c \in Calls : WF_storeVars(Step(c)) /\ WF_storeVars(GetsLate(c))

FairSpec == Spec /\ Fairness

---------------------------------------------------------------------------
(* Properties *)

\* No two calls are ever between their read of the table and their write.
MutualExclusion ==
    \A c, d \in Calls :
        c # d => ~(pc[c] \in {"read", "write"} /\ pc[d] \in {"read", "write"})

\* A row once written stays until a reset removes it: no other call's write,
\* computed from an older read, takes it away.  subagent.test.ts: "All 20
\* concurrent logs should be persisted without data loss".
NoLostWrite == committed \ erased \subseteq file

\* What a reset has removed does not come back ("Clear database to initial
\* state", POST /api/reset).
ResetErases == file \cap erased = {}

\* Every call comes back with an answer, unless its own process dies: a lock
\* file left behind by a dead process delays it by its timeout at most.
EveryCallEnds ==
    \A c \in Calls : pc[c] \in Trying \cup Holding ~> pc[c] \in {"ended", "crashed"}

---------------------------------------------------------------------------
(* Refinement *)

\* A call has been applied from its rename on, and has answered when it ended;
\* a call whose process dies never answers.
PhaseOf(c) ==
    IF pc[c] = "idle" THEN "idle"
    ELSE IF c \in committed
         THEN IF pc[c] = "ended" THEN "returned" ELSE "applied"
         ELSE IF pc[c] = "ended" THEN "failed" ELSE "invoked"

Abstract == INSTANCE AtomicFile WITH
    Callers <- Calls,
    rows    <- file,
    phase   <- [c \in Calls |-> PhaseOf(c)]

\* Through lock files, stale copies, timeouts and crashes, the table behaves as
\* if every call that returns were one atomic step.
ImplementsAtomicFile == Abstract!FileSpec

=============================================================================
