-------------------------- MODULE JsonStoreProofs --------------------------
(***************************************************************************)
(* What the lock file guarantees when no live call holds the lock for ten  *)
(* seconds and one left behind is waited for by one call at a time:        *)
(* mutual exclusion, no lost row, and calls that behave like single steps. *)
(* Both assumptions are needed: MCJsonStore shows a row lost without them. *)
(***************************************************************************)
EXTENDS JsonStore, TLAPS

\* Lock, rows, and points of the calls keep their types.
THEOREM StoreTypeCorrect == Spec => []TypeOK
<1>1. Init => TypeOK
  <2> SUFFICES ASSUME Init PROVE TypeOK
    OBVIOUS
  <2>1. 0 \in 0..MaxCrashes /\ 0 \in 0..MaxResets
    BY StoreAssumption
  <2>2. lock \in {{}} \cup {{c} : c \in Calls}
    BY DEF Init
  <2>3. pc \in [Calls -> Points] /\ seen \in [Calls -> SUBSET Calls]
    BY DEF Init, Points
  <2> QED
    BY <2>1, <2>2, <2>3 DEF Init, TypeOK
<1>2. TypeOK /\ [Next]_storeVars => TypeOK'
  <2> SUFFICES ASSUME TypeOK, [Next]_storeVars PROVE TypeOK'
    OBVIOUS
  <2> USE StoreAssumption DEF TypeOK, Points, Trying, Holding
  <2>1. ASSUME NEW c \in Calls, Begin(c) PROVE TypeOK'
    BY <2>1 DEF Begin, Goto
  <2>2. ASSUME NEW c \in Calls, TryLock(c) PROVE TypeOK'
    BY <2>2 DEF TryLock, Goto
  <2>3. ASSUME NEW c \in Calls, Stat(c) PROVE TypeOK'
    BY <2>3 DEF Stat, Goto
  <2>4. ASSUME NEW c \in Calls, Break(c) PROVE TypeOK'
    BY <2>4 DEF Break, Goto
  <2>5. ASSUME NEW c \in Calls, Wait(c) PROVE TypeOK'
    BY <2>5 DEF Wait, Goto
  <2>6. ASSUME NEW c \in Calls, Read(c) PROVE TypeOK'
    BY <2>6 DEF Read, Goto
  <2>7. ASSUME NEW c \in Calls, Write(c) PROVE TypeOK'
    BY <2>7 DEF Write, Goto
  <2>8. ASSUME NEW c \in Calls, WriteFails(c) PROVE TypeOK'
    BY <2>8 DEF WriteFails, Goto
  <2>9. ASSUME NEW c \in Calls, Release(c) PROVE TypeOK'
    BY <2>9 DEF Release, Goto
  <2>10. ASSUME NEW c \in Calls, Unlock(c) PROVE TypeOK'
    BY <2>10 DEF Unlock, Goto
  <2>11. ASSUME NEW c \in Calls, GetsLate(c) PROVE TypeOK'
    BY <2>11 DEF GetsLate
  <2>12. ASSUME NEW c \in Calls, Crash(c) PROVE TypeOK'
    BY <2>12 DEF Crash, Goto
  <2>13. CASE LockAges
    BY <2>13 DEF LockAges
  <2>14. CASE Reset
    BY <2>14 DEF Reset
  <2>15. CASE UNCHANGED storeVars
    BY <2>15 DEF storeVars
  <2>16. ASSUME NEW c \in Calls, LockFails(c) \/ UnlockFails(c) PROVE TypeOK'
    BY <2>16 DEF LockFails, UnlockFails, Goto
  <2> QED
    BY <2>1, <2>2, <2>3, <2>4, <2>5, <2>6, <2>7, <2>8, <2>9, <2>10, <2>11,
       <2>12, <2>13, <2>14, <2>15, <2>16 DEF Next, Step
<1> QED
  BY <1>1, <1>2, PTL DEF Spec

---------------------------------------------------------------------------
(* The lock *)

Quiet == MaxCrashes = 0 /\ SlowCalls = {}

\* The lock file is that of a call whose process has died, or which has ended
\* without removing it.
Orphaned == \E o \in lock : pc[o] \in {"ended", "crashed"}

\* Nobody competes for a lock file left behind.
OneWaiter ==
    Orphaned => \A c, d \in Calls : pc[c] \in Trying /\ pc[d] \in Trying => c = d

\* Who holds the lock is the one that made the lock file; it is old, and about
\* to be removed, only if its maker is dead or done.
LockInv ==
    /\ stale => Orphaned
    /\ \A c \in Calls : pc[c] = "break" => Orphaned
    /\ \A c \in Calls : pc[c] \in Holding => lock = {c}
    /\ \A c \in Calls : lock = {c} => pc[c] \in Holding \cup {"ended", "crashed"}

\* Every step keeps the lock with its owner.
LEMMA LockStep ==
    ASSUME SlowCalls = {}, OneWaiter, TypeOK, LockInv, [Next]_storeVars
    PROVE  LockInv'
<1> USE DEF TypeOK, LockInv, Orphaned, Points, Trying, Holding
<1>1. ASSUME NEW c \in Calls, Begin(c) PROVE LockInv'
  BY <1>1 DEF Begin, Goto
<1>2. ASSUME NEW c \in Calls, TryLock(c) PROVE LockInv'
  <2>1. CASE lock = {}
    BY <1>2, <2>1 DEF TryLock, Goto
  <2>2. CASE lock # {}
    BY <1>2, <2>2 DEF TryLock, Goto
  <2> QED
    BY <2>1, <2>2
<1>3. ASSUME NEW c \in Calls, Stat(c) PROVE LockInv'
  BY <1>3 DEF Stat, Goto, Abandoned
<1>4. ASSUME NEW c \in Calls, Break(c) PROVE LockInv'
  <2>1. \A d \in Calls : d # c => pc[d] # "break"
    BY <1>4 DEF Break, OneWaiter
  <2>2. \A d \in Calls : pc[d] \notin Holding
    BY <1>4 DEF Break
  <2> QED
    BY <1>4, <2>1, <2>2 DEF Break, Goto
<1>5. ASSUME NEW c \in Calls, Wait(c) PROVE LockInv'
  BY <1>5 DEF Wait, Goto
<1>6. ASSUME NEW c \in Calls, Read(c) PROVE LockInv'
  BY <1>6 DEF Read, Goto
<1>7. ASSUME NEW c \in Calls, Write(c) \/ WriteFails(c) PROVE LockInv'
  BY <1>7 DEF Write, WriteFails, Goto
<1>8. ASSUME NEW c \in Calls, Release(c) PROVE LockInv'
  BY <1>8 DEF Release, Goto
<1>9. ASSUME NEW c \in Calls, Unlock(c) PROVE LockInv'
  BY <1>9 DEF Unlock, Goto
<1>10. ASSUME NEW c \in Calls, GetsLate(c) PROVE LockInv'
  BY <1>10 DEF GetsLate
<1>11. ASSUME NEW c \in Calls, Crash(c) PROVE LockInv'
  BY <1>11 DEF Crash, Goto
<1>12. CASE LockAges
  BY <1>12 DEF LockAges
<1>13. CASE Reset
  BY <1>13 DEF Reset
<1>14. CASE UNCHANGED storeVars
  BY <1>14 DEF storeVars
<1>15. ASSUME NEW c \in Calls, LockFails(c) \/ UnlockFails(c) PROVE LockInv'
  BY <1>15 DEF LockFails, UnlockFails, Goto
<1> QED
  BY <1>1, <1>2, <1>3, <1>4, <1>5, <1>6, <1>7, <1>8, <1>9, <1>10, <1>11,
     <1>12, <1>13, <1>14, <1>15 DEF Next, Step

LEMMA LockInvariant ==
    ASSUME SlowCalls = {} PROVE Spec /\ []OneWaiter => []LockInv
<1>1. Init => LockInv
  BY DEF Init, LockInv, Holding
<1>2. TypeOK /\ OneWaiter /\ LockInv /\ [Next]_storeVars => LockInv'
  BY LockStep
<1> QED
  BY <1>1, <1>2, StoreTypeCorrect, PTL DEF Spec

LEMMA LockExcludes ==
    ASSUME LockInv, NEW c \in Calls, NEW d \in Calls, c # d
    PROVE  ~(pc[c] \in Holding /\ pc[d] \in Holding)
BY DEF LockInv, Holding

\* No two calls are ever between their read of a table and their write,
\* whatever processes die while they use it: a call that finds an old lock file
\* removes that of a dead one, as long as one call at a time waits for it.
THEOREM ExclusionThroughDeaths ==
    ASSUME SlowCalls = {} PROVE Spec /\ []OneWaiter => []MutualExclusion
<1>1. LockInv => MutualExclusion
  BY LockExcludes DEF MutualExclusion, Holding
<1> QED
  BY <1>1, LockInvariant, PTL

\* If no process dies in a call and every lock is removed, there is no such file.
LEMMA NobodyDies == ASSUME Quiet PROVE Spec => []OneWaiter
<1> DEFINE Held == \A c \in Calls : lock = {c} => pc[c] \in Holding
<1> USE DEF Holding, Trying, Points
<1>1. Init => Held
  BY DEF Init
<1>2. TypeOK /\ Held /\ [Next]_storeVars => Held'
  <2> SUFFICES ASSUME TypeOK, Held, [Next]_storeVars PROVE Held'
    OBVIOUS
  <2>1. ASSUME NEW c \in Calls, Crash(c) \/ UnlockFails(c) PROVE FALSE
    BY <2>1 DEF Crash, UnlockFails, Quiet, TypeOK
  <2>2. ASSUME NEW c \in Calls, TryLock(c) \/ Break(c) \/ Unlock(c) PROVE Held'
    BY <2>2 DEF TryLock, Break, Unlock, Goto, TypeOK
  <2>3. ASSUME NEW c \in Calls,
               \/ Begin(c) \/ LockFails(c) \/ Stat(c) \/ Wait(c)
               \/ Read(c) \/ Write(c) \/ WriteFails(c) \/ Release(c)
        PROVE  Held'
    BY <2>3 DEF Begin, LockFails, Stat, Wait, Read, Write, WriteFails, Release,
                Goto, TypeOK
  <2>4. CASE (\E c \in Calls : GetsLate(c)) \/ LockAges \/ Reset \/ UNCHANGED storeVars
    BY <2>4 DEF GetsLate, LockAges, Reset, storeVars
  <2> QED
    BY <2>1, <2>2, <2>3, <2>4 DEF Next, Step
<1>3. TypeOK /\ Held => OneWaiter
  BY DEF OneWaiter, Orphaned, TypeOK
<1> QED
  BY <1>1, <1>2, <1>3, StoreTypeCorrect, PTL DEF Spec

\* Nor with two calls: while one waits for the other's lock file, nobody else does.
LEMMA TwoCalls ==
    ASSUME NEW a, NEW b, Calls = {a, b} PROVE Spec => []OneWaiter
<1>1. TypeOK => OneWaiter
  BY DEF TypeOK, OneWaiter, Orphaned, Trying
<1> QED
  BY <1>1, StoreTypeCorrect, PTL

\* The lock of lockAndModify excludes when nobody dies and nobody is slow.
COROLLARY Exclusion == ASSUME Quiet PROVE Spec => []MutualExclusion
BY ExclusionThroughDeaths, NobodyDies, PTL DEF Quiet

---------------------------------------------------------------------------
(* No row is lost *)

\* What a call is about to write back still contains every row in the table
\* that no reset has removed.
RowsInv ==
    /\ NoLostWrite
    /\ \A c \in Calls : pc[c] = "write" => committed \ erased \subseteq seen[c]

LEMMA RowsStep ==
    ASSUME TypeOK, LockInv, RowsInv, [Next]_storeVars
    PROVE  RowsInv'
<1> USE DEF TypeOK, RowsInv, NoLostWrite
<1>1. ASSUME NEW c \in Calls, Read(c) PROVE RowsInv'
  BY <1>1 DEF Read, Goto
<1>2. ASSUME NEW c \in Calls, Write(c) PROVE RowsInv'
  <2>1. \A d \in Calls : d # c => pc[d] # "write"
    BY <1>2, LockExcludes DEF Write, Holding
  <2> QED
    BY <1>2, <2>1 DEF Write, Goto
<1>3. CASE Reset
  BY <1>3 DEF Reset
<1>4. ASSUME NEW c \in Calls,
             \/ Begin(c) \/ TryLock(c) \/ Stat(c) \/ Break(c) \/ Wait(c)
             \/ WriteFails(c) \/ Release(c) \/ Unlock(c) \/ Crash(c)
             \/ LockFails(c) \/ UnlockFails(c)
      PROVE  RowsInv'
  <2>1. UNCHANGED <<file, seen, committed, erased>>
    BY <1>4 DEF Begin, TryLock, Stat, Break, Wait, WriteFails, Release, Unlock, Crash,
                LockFails, UnlockFails
  <2>2. \A d \in Calls : pc'[d] = "write" => pc[d] = "write"
    BY <1>4 DEF Begin, TryLock, Stat, Break, Wait, WriteFails, Release, Unlock,
                Crash, LockFails, UnlockFails, Goto
  <2> QED
    BY <2>1, <2>2
<1>5. ASSUME NEW c \in Calls, GetsLate(c) PROVE RowsInv'
  BY <1>5 DEF GetsLate
<1>6. CASE LockAges
  BY <1>6 DEF LockAges
<1>7. CASE UNCHANGED storeVars
  BY <1>7 DEF storeVars
<1> QED
  BY <1>1, <1>2, <1>3, <1>4, <1>5, <1>6, <1>7 DEF Next, Step

\* No row a call has written is taken away by another call, whatever fails,
\* times out, is reset or dies meanwhile.
THEOREM RowsKeptThroughDeaths ==
    ASSUME SlowCalls = {} PROVE Spec /\ []OneWaiter => []NoLostWrite
<1>1. Init => RowsInv
  BY DEF Init, RowsInv, NoLostWrite
<1>2. TypeOK /\ LockInv /\ RowsInv /\ [Next]_storeVars => RowsInv'
  BY RowsStep
<1>3. RowsInv => NoLostWrite
  BY DEF RowsInv
<1> QED
  BY <1>1, <1>2, <1>3, StoreTypeCorrect, LockInvariant, PTL DEF Spec

\* In particular when nobody dies, and with two calls whoever dies.
COROLLARY RowsKept == ASSUME Quiet PROVE Spec => []NoLostWrite
BY RowsKeptThroughDeaths, NobodyDies, PTL DEF Quiet

COROLLARY RowsOfTwoKept ==
    ASSUME SlowCalls = {}, NEW a, NEW b, Calls = {a, b} PROVE Spec => []NoLostWrite
BY RowsKeptThroughDeaths, TwoCalls, PTL

---------------------------------------------------------------------------
(* Atomicity *)

\* Without resets a call writes back what the table holds and its own row, and
\* has committed exactly when it is past its write.
CopyInv ==
    /\ \A c \in Calls : pc[c] = "write" => seen[c] = file
    /\ \A c \in committed : pc[c] \in {"release", "unlock", "ended", "crashed"}

LEMMA CopyStep ==
    ASSUME MaxResets = 0, TypeOK, LockInv, CopyInv, [Next]_storeVars
    PROVE  CopyInv'
<1> USE DEF TypeOK, CopyInv
<1>1. ASSUME NEW c \in Calls, Read(c) PROVE CopyInv'
  BY <1>1 DEF Read, Goto
<1>2. ASSUME NEW c \in Calls, Write(c) PROVE CopyInv'
  <2>1. \A d \in Calls : d # c => pc[d] # "write"
    BY <1>2, LockExcludes DEF Write, Holding
  <2> QED
    BY <1>2, <2>1 DEF Write, Goto
<1>3. CASE Reset
  BY <1>3, StoreAssumption DEF Reset
<1>4. ASSUME NEW c \in Calls, Crash(c) PROVE CopyInv'
  BY <1>4 DEF Crash, Goto
<1>5. ASSUME NEW c \in Calls,
             \/ Begin(c) \/ TryLock(c) \/ Stat(c) \/ Break(c) \/ Wait(c)
             \/ WriteFails(c) \/ Release(c) \/ Unlock(c)
             \/ LockFails(c) \/ UnlockFails(c)
      PROVE  CopyInv'
  <2>1. UNCHANGED <<file, seen, committed>>
    BY <1>5 DEF Begin, TryLock, Stat, Break, Wait, WriteFails, Release, Unlock,
                LockFails, UnlockFails
  <2>2. \A d \in Calls : pc'[d] = "write" => pc[d] = "write"
    BY <1>5 DEF Begin, TryLock, Stat, Break, Wait, WriteFails, Release, Unlock,
                LockFails, UnlockFails, Goto
  <2>3. \A d \in committed : pc'[d] \in {"release", "unlock", "ended", "crashed"}
    BY <1>5 DEF Begin, TryLock, Stat, Break, Wait, WriteFails, Release, Unlock,
                LockFails, UnlockFails, Goto
  <2> QED
    BY <2>1, <2>2, <2>3
<1>6. ASSUME NEW c \in Calls, GetsLate(c) PROVE CopyInv'
  BY <1>6 DEF GetsLate
<1>7. CASE LockAges
  BY <1>7 DEF LockAges
<1>8. CASE UNCHANGED storeVars
  BY <1>8 DEF storeVars
<1> QED
  BY <1>1, <1>2, <1>3, <1>4, <1>5, <1>6, <1>7, <1>8 DEF Next, Step

LEMMA CopyInvariant ==
    ASSUME SlowCalls = {}, MaxResets = 0 PROVE Spec /\ []OneWaiter => []CopyInv
<1>1. Init => CopyInv
  BY DEF Init, CopyInv
<1>2. TypeOK /\ LockInv /\ CopyInv /\ [Next]_storeVars => CopyInv'
  BY CopyStep
<1> QED
  BY <1>1, <1>2, StoreTypeCorrect, LockInvariant, PTL DEF Spec

Phase == [c \in Calls |-> PhaseOf(c)]

\* A step of one call changes the phase of that call only.
LEMMA PhaseOfOne ==
    ASSUME NEW c \in Calls,
           \A d \in Calls : d # c => PhaseOf(d)' = PhaseOf(d)
    PROVE  Phase' = [Phase EXCEPT ![c] = PhaseOf(c)']
BY DEF Phase

\* Steps that leave the table and every phase alone stutter.
LEMMA PhaseStutters ==
    ASSUME \A d \in Calls : PhaseOf(d)' = PhaseOf(d), file' = file
    PROVE  UNCHANGED Abstract!fileVars
<1>1. Phase' = Phase
  BY DEF Phase
<1> QED
  BY <1>1 DEF Abstract!fileVars, Phase

LEMMA AtomicStep ==
    ASSUME MaxResets = 0, TypeOK, LockInv, CopyInv, [Next]_storeVars
    PROVE  [Abstract!FileNext]_(Abstract!fileVars)
<1> DEFINE Goal == [Abstract!FileNext]_(Abstract!fileVars)
<1>1. ASSUME NEW c \in Calls, Begin(c) PROVE Goal
  <2>1. \A d \in Calls : d # c => PhaseOf(d)' = PhaseOf(d)
    BY <1>1 DEF Begin, Goto, PhaseOf, TypeOK
  <2>2. PhaseOf(c) = "idle" /\ PhaseOf(c)' = "invoked"
    BY <1>1 DEF Begin, Goto, PhaseOf, TypeOK, CopyInv
  <2>3. Abstract!Invoke(c)
    BY <1>1, <2>1, <2>2, PhaseOfOne
    DEF Begin, Abstract!Invoke, Abstract!Moves, Phase
  <2> QED
    BY <2>3 DEF Abstract!FileNext
<1>2. ASSUME NEW c \in Calls, Write(c) PROVE Goal
  <2>1. \A d \in Calls : d # c => PhaseOf(d)' = PhaseOf(d)
    BY <1>2 DEF Write, Goto, PhaseOf, TypeOK
  <2>2. PhaseOf(c) = "invoked" /\ PhaseOf(c)' = "applied"
    BY <1>2 DEF Write, Goto, PhaseOf, TypeOK, CopyInv
  <2>3. file' = file \cup {c}
    BY <1>2 DEF Write, CopyInv
  <2>4. Abstract!Apply(c)
    BY <2>1, <2>2, <2>3, PhaseOfOne DEF Abstract!Apply, Abstract!Moves, Phase
  <2> QED
    BY <2>4 DEF Abstract!FileNext
<1>3. ASSUME NEW c \in Calls, Unlock(c) \/ UnlockFails(c) PROVE Goal
  <2>1. \A d \in Calls : d # c => PhaseOf(d)' = PhaseOf(d)
    BY <1>3 DEF Unlock, UnlockFails, Goto, PhaseOf, TypeOK
  <2>2. CASE c \in committed
    <3>1. PhaseOf(c) = "applied" /\ PhaseOf(c)' = "returned"
      BY <1>3, <2>2 DEF Unlock, UnlockFails, Goto, PhaseOf, TypeOK
    <3>2. Abstract!Answer(c)
      BY <1>3, <2>1, <3>1, PhaseOfOne
      DEF Unlock, UnlockFails, Abstract!Answer, Abstract!Moves, Phase
    <3> QED
      BY <3>2 DEF Abstract!FileNext
  <2>3. CASE c \notin committed
    <3>1. PhaseOf(c) = "invoked" /\ PhaseOf(c)' = "failed"
      BY <1>3, <2>3 DEF Unlock, UnlockFails, Goto, PhaseOf, TypeOK
    <3>2. Abstract!Refuse(c)
      BY <1>3, <2>1, <3>1, PhaseOfOne
      DEF Unlock, UnlockFails, Abstract!Refuse, Abstract!Moves, Phase
    <3> QED
      BY <3>2 DEF Abstract!FileNext
  <2> QED
    BY <2>2, <2>3
<1>4. ASSUME NEW c \in Calls, Wait(c) PROVE Goal
  <2>1. \A d \in Calls : d # c => PhaseOf(d)' = PhaseOf(d)
    BY <1>4 DEF Wait, Goto, PhaseOf, TypeOK
  <2>2. c \notin committed
    BY <1>4 DEF Wait, CopyInv
  <2>3. CASE c \in late
    <3>1. PhaseOf(c) = "invoked" /\ PhaseOf(c)' = "failed"
      BY <1>4, <2>2, <2>3 DEF Wait, Goto, PhaseOf, TypeOK
    <3>2. Abstract!Refuse(c)
      BY <1>4, <2>1, <3>1, PhaseOfOne
      DEF Wait, Abstract!Refuse, Abstract!Moves, Phase
    <3> QED
      BY <3>2 DEF Abstract!FileNext
  <2>4. CASE c \notin late
    <3>1. PhaseOf(c)' = PhaseOf(c)
      BY <1>4, <2>2, <2>4 DEF Wait, Goto, PhaseOf, TypeOK
    <3> QED
      BY <1>4, <2>1, <3>1, PhaseStutters DEF Wait
  <2> QED
    BY <2>3, <2>4
<1>5. ASSUME NEW c \in Calls,
             TryLock(c) \/ Stat(c) \/ Break(c) \/ Read(c) \/ WriteFails(c) \/ Release(c)
      PROVE  Goal
  <2>1. file' = file /\ committed' = committed
    BY <1>5 DEF TryLock, Stat, Break, Read, WriteFails, Release
  <2>2. \A d \in Calls : /\ pc'[d] = "idle" <=> pc[d] = "idle"
                         /\ pc'[d] = "ended" <=> pc[d] = "ended"
    BY <1>5 DEF TryLock, Stat, Break, Read, WriteFails, Release, Goto, TypeOK,
                LockInv, Holding
  <2> QED
    BY <2>1, <2>2, PhaseStutters DEF PhaseOf
<1>6. ASSUME NEW c \in Calls, GetsLate(c) PROVE Goal
  BY <1>6, PhaseStutters DEF GetsLate, PhaseOf
<1>7. ASSUME NEW c \in Calls, Crash(c) PROVE Goal
  <2>1. \A d \in Calls : PhaseOf(d)' = PhaseOf(d)
    BY <1>7 DEF Crash, Goto, PhaseOf, TypeOK, Trying, Holding
  <2> QED
    BY <1>7, <2>1, PhaseStutters DEF Crash
<1>8. CASE LockAges
  BY <1>8, PhaseStutters DEF LockAges, PhaseOf
<1>9. CASE Reset
  BY <1>9 DEF Reset, TypeOK
<1>10. CASE UNCHANGED storeVars
  BY <1>10, PhaseStutters DEF storeVars, PhaseOf
<1>11. ASSUME NEW c \in Calls, LockFails(c) PROVE Goal
  <2>1. \A d \in Calls : d # c => PhaseOf(d)' = PhaseOf(d)
    BY <1>11 DEF LockFails, Goto, PhaseOf, TypeOK
  <2>2. PhaseOf(c) = "invoked" /\ PhaseOf(c)' = "failed"
    BY <1>11 DEF LockFails, Goto, PhaseOf, TypeOK, CopyInv
  <2>3. Abstract!Refuse(c)
    BY <1>11, <2>1, <2>2, PhaseOfOne
    DEF LockFails, Abstract!Refuse, Abstract!Moves, Phase
  <2> QED
    BY <2>3 DEF Abstract!FileNext
<1> QED
  BY <1>1, <1>2, <1>3, <1>4, <1>5, <1>6, <1>7, <1>8, <1>9, <1>10, <1>11 DEF Next, Step

\* Every call that returns is one atomic step on the table, every call that
\* fails is none, and one whose process dies is one or none: lockAndModify is
\* the atomic operation the rest of the gateway takes it for.
THEOREM AtomicityThroughDeaths ==
    ASSUME SlowCalls = {}, MaxResets = 0
    PROVE  Spec /\ []OneWaiter => ImplementsAtomicFile
<1>1. Init => Abstract!FileInit
  BY DEF Init, Abstract!FileInit, PhaseOf
<1>2. TypeOK /\ LockInv /\ CopyInv /\ [Next]_storeVars
         => [Abstract!FileNext]_(Abstract!fileVars)
  BY AtomicStep
<1> QED
  BY <1>1, <1>2, StoreTypeCorrect, LockInvariant, CopyInvariant, PTL
  DEF Spec, ImplementsAtomicFile, Abstract!FileSpec

COROLLARY Atomicity ==
    ASSUME Quiet, MaxResets = 0 PROVE Spec => ImplementsAtomicFile
BY AtomicityThroughDeaths, NobodyDies, PTL DEF Quiet

=============================================================================
