------------------------- MODULE McpToolCallProofs -------------------------
(***************************************************************************)
(* Safety of McpToolCall, for any number of calls and store failures.      *)
(* Every step of one call is a Turn: it moves a call that is not settled,  *)
(* keeps an effect that is behind it, and adds at most the records the     *)
(* call stands for.  The routing of McpHttp in front of it, for every      *)
(* message.  And the search and replace of PatchText behind patch_file,    *)
(* for every text.                                                         *)
(***************************************************************************)
EXTENDS McpToolCall, McpHttp, PatchText, FiniteSetTheorems, SequenceTheorems,
        WellFoundedInduction, TLAPS

Late == {"log", "mint", "answered", "lost"}
Settled == {"answered", "lost"}

\* What is about to be recorded has been decided.
Fits(call) == call.pc \in {"violation", "log", "mint"} => call.outcome # "none" /\ call.decided

Truthful(call) ==
    /\ call.outcome = "success" => call.effect = "done"
    /\ call.decision = "deny" => call.effect = "none"

CallsInv == \A c \in Calls : Fits(calls[c]) /\ Truthful(calls[c])

\* A record is of a call whose effect is behind it, a receipt of a settled one.
LogsInv ==
    \A l \in logs : /\ calls[l.call].pc \in Late
                    /\ l.status = "success" => calls[l.call].effect = "done"
                    /\ l.decision = "deny" => calls[l.call].effect = "none"

Signs(r, call) ==
    call.pc \in Settled /\ call.decided /\ r.decision = call.decision /\ r.outcome = call.outcome

ReceiptsInv == \A r \in receipts : Signs(r, calls[r.call])

Owed(call) == call.pc = "answered" /\ call.decided /\ ~call.disturbed /\ ~call.unsigned

OwedInv == \A c \in Calls : Owed(calls[c]) => ReceiptOf(c) \in receipts

RecordsInv == LogsInv /\ ReceiptsInv /\ OwedInv

ToolInv == ToolTypeOK /\ CallsInv /\ RecordsInv /\ EditClosesGate

AddsLog(c) == logs' = logs \/ (calls[c].pc = "log" /\ logs' = logs \cup {LogOf(c)})

AddsReceipt(c, call) ==
    \/ receipts' = receipts /\ ~Owed(call)
    \/ /\ receipts' = receipts \cup {ReceiptOf(c)}
       /\ calls[c].pc = "mint" /\ call.pc = "answered" /\ call.decided
       /\ call.decision = calls[c].decision /\ call.outcome = calls[c].outcome

Turn(c, call) ==
    /\ calls[c].pc \notin Settled
    /\ call \in Call /\ Fits(call) /\ Truthful(call)
    /\ calls[c].pc \in Late => call.pc \in Late /\ call.effect = calls[c].effect
    /\ Become(c, call)
    /\ AddsLog(c)
    /\ AddsReceipt(c, call)

\* The variables of the server, which no call owns.
Server ==
    /\ keyed' \in BOOLEAN /\ synthesized' \in BOOLEAN /\ stale' \in BOOLEAN
    /\ faults' \in 0..MaxFaults
    /\ EditClosesGate'

---------------------------------------------------------------------------

LEMMA TurnKeepsInv ==
    ASSUME ToolInv, Server, NEW c \in Calls, NEW call, Turn(c, call)
    PROVE  ToolInv'
<1>1. /\ calls' \in [Calls -> Call]
      /\ \A d \in Calls : calls'[d] = IF d = c THEN call ELSE calls[d]
  BY DEF Turn, Become, ToolInv, ToolTypeOK
<1>2. calls[c] \in Call /\ Fits(calls[c]) /\ Truthful(calls[c]) /\ calls[c].pc \notin Settled
  BY DEF ToolInv, ToolTypeOK, CallsInv, Turn
<1>3. \A l \in logs : l.call \in Calls
  BY DEF ToolInv, ToolTypeOK, Log
<1>4. \A r \in receipts : r.call \in Calls /\ r.call # c
  BY <1>2 DEF ToolInv, ToolTypeOK, Receipt, RecordsInv, ReceiptsInv, Signs
<1>5. CallsInv'
  BY <1>1 DEF Turn, ToolInv, CallsInv
<1>6. LogsInv' /\ logs' \subseteq Log
  <2>1. CASE calls[c].pc = "log" /\ logs' = logs \cup {LogOf(c)}
    <3>1. LogOf(c) \in Log
      BY <1>2 DEF LogOf, Status, Log, Call
    <3>2. /\ LogOf(c).call = c /\ call.pc \in Late
          /\ LogOf(c).status = "success" => call.effect = "done"
          /\ LogOf(c).decision = "deny" => call.effect = "none"
      BY <1>2, <2>1 DEF LogOf, Status, Turn, Late, Truthful
    <3>3. LogsInv'
      BY <1>1, <1>3, <2>1, <3>2 DEF LogsInv, ToolInv, RecordsInv, Turn
    <3> QED BY <2>1, <3>1, <3>3 DEF ToolInv, ToolTypeOK
  <2>2. CASE logs' = logs
    BY <1>1, <1>3, <2>2 DEF LogsInv, ToolInv, RecordsInv, ToolTypeOK, Turn
  <2> QED BY <2>1, <2>2 DEF Turn, AddsLog
<1>7. /\ ReceiptsInv' /\ OwedInv' /\ receipts' \subseteq Receipt
  <2>1. CASE receipts' = receipts /\ ~Owed(call)
    <3>1. ReceiptsInv'
      BY <1>1, <1>4, <2>1 DEF ReceiptsInv, ToolInv, RecordsInv
    <3>2. OwedInv'
      BY <1>1, <2>1 DEF OwedInv, ToolInv, RecordsInv, ReceiptOf
    <3> QED BY <2>1, <3>1, <3>2 DEF ToolInv, ToolTypeOK
  <2>2. CASE /\ receipts' = receipts \cup {ReceiptOf(c)}
             /\ calls[c].pc = "mint" /\ call.pc = "answered" /\ call.decided
             /\ call.decision = calls[c].decision /\ call.outcome = calls[c].outcome
    <3>1. ReceiptOf(c) \in Receipt
      BY <1>2, <2>2 DEF ReceiptOf, Receipt, Call, Fits
    <3>2. ReceiptOf(c).call = c /\ Signs(ReceiptOf(c), call)
      BY <2>2 DEF ReceiptOf, Signs, Settled
    <3>3. ReceiptsInv'
      BY <1>1, <1>4, <2>2, <3>2 DEF ReceiptsInv, ToolInv, RecordsInv
    <3>4. ReceiptOf(c)' = ReceiptOf(c)
      BY <1>1, <2>2 DEF ReceiptOf
    <3>5. \A d \in Calls : d # c => ReceiptOf(d)' = ReceiptOf(d)
      BY <1>1 DEF ReceiptOf
    <3>6. OwedInv'
      BY <1>1, <2>2, <3>4, <3>5 DEF OwedInv, ToolInv, RecordsInv
    <3> QED BY <2>2, <3>1, <3>3, <3>6 DEF ToolInv, ToolTypeOK
  <2> QED BY <2>1, <2>2 DEF Turn, AddsReceipt
<1> QED
  BY <1>1, <1>5, <1>6, <1>7 DEF ToolInv, ToolTypeOK, RecordsInv, Server

\* What a call's arrival, its way and a failing store change of the rest.
LEMMA RestKeepsServer ==
    ASSUME ToolInv, UNCHANGED <<keyed, synthesized, faults, stale>>
    PROVE  Server
BY DEF ToolInv, ToolTypeOK, Server, EditClosesGate

LEMMA ArrivalTurns ==
    ASSUME ToolInv, NEW c \in Calls, NEW tool \in ToolNames, NEW call \in Call,
           Fits(call), call.outcome # "success", call.effect = "none",
           call.decided => call.pc # "answered",
           Arrives(c, tool, call)
    PROVE  ToolInv'
<1> DEFINE new == [call EXCEPT !.tool = tool]
<1>1. /\ new \in Call /\ new.pc = call.pc /\ new.outcome = call.outcome
      /\ new.effect = call.effect /\ new.decided = call.decided /\ new.decision = call.decision
  BY DEF Call
<1>2. Fits(new) /\ Truthful(new) /\ ~Owed(new)
  BY <1>1 DEF Fits, Truthful, Owed
<1>3. calls[c].pc = "idle" /\ Become(c, new) /\ Rest
  BY DEF Arrives
<1> HIDE DEF new
<1>4. Turn(c, new)
  BY <1>1, <1>2, <1>3 DEF Turn, Rest, AddsLog, AddsReceipt, Late, Settled
<1> QED BY <1>3, <1>4, TurnKeepsInv, RestKeepsServer DEF Rest

LEMMA StartsKeepInv ==
    ASSUME ToolInv, NEW c \in Calls, CallStarts(c)
    PROVE  ToolInv'
<1>1. NoCall \in Call /\ "execute_command" \in ToolNames /\ "read_file" \in ToolNames
  BY DEF NoCall, Call, ToolNames, Looking
<1>2. ASSUME NEW tool \in ToolNames, Block(c, tool) \/ LookOutside(c, tool)
      PROVE  ToolInv'
  <2> DEFINE call == [NoCall EXCEPT !.pc = "answered"]
  <2>1. call \in Call /\ Fits(call) /\ call.outcome # "success" /\ call.effect = "none" /\ ~call.decided
    BY <1>1 DEF Fits, NoCall, Call
  <2>2. Arrives(c, tool, call)
    BY <1>2 DEF Block, LookOutside
  <2> QED BY <2>1, <2>2, ArrivalTurns
<1>3. ASSUME NEW tool \in ToolNames, Ask(c, tool)
      PROVE  ToolInv'
  <2> DEFINE call == [NoCall EXCEPT !.pc = "context"]
  <2>1. call \in Call /\ Fits(call) /\ call.outcome # "success" /\ call.effect = "none" /\ ~call.decided
    BY <1>1 DEF Fits, NoCall, Call
  <2> QED BY <1>3, <2>1, ArrivalTurns DEF Ask
<1>4. CASE AuditRefuses(c)
  <2> DEFINE call == [NoCall EXCEPT !.pc = "log", !.decided = TRUE, !.outcome = "audit"]
  <2>1. call \in Call /\ Fits(call) /\ call.outcome # "success" /\ call.effect = "none" /\ call.pc = "log"
    BY <1>1 DEF Fits, NoCall, Call
  <2> QED BY <1>1, <1>4, <2>1, ArrivalTurns DEF AuditRefuses
<1>5. CASE ReadSensitive(c)
  <2> DEFINE call == [NoCall EXCEPT !.pc = "mint", !.decided = TRUE, !.outcome = "sensitive"]
  <2>1. call \in Call /\ Fits(call) /\ call.outcome # "success" /\ call.effect = "none" /\ call.pc = "mint"
    BY <1>1 DEF Fits, NoCall, Call
  <2> QED BY <1>1, <1>5, <2>1, ArrivalTurns DEF ReadSensitive
<1> QED BY <1>2, <1>3, <1>4, <1>5 DEF CallStarts

\* A call goes on without a record: it may not end here owing one.
LEMMA UnrecordedTurns ==
    ASSUME ToolInv, Server, NEW c \in Calls, NEW call \in Call,
           calls[c].pc \notin Settled, Become(c, call), UNCHANGED <<logs, receipts>>,
           Fits(call), Truthful(call), ~Owed(call),
           calls[c].pc \in Late => call.pc \in Late /\ call.effect = calls[c].effect
    PROVE  ToolInv'
<1>1. Turn(c, call)
  BY DEF Turn, AddsLog, AddsReceipt
<1> QED BY <1>1, TurnKeepsInv

LEMMA PermittedKeepsInv ==
    ASSUME ToolInv, Server, NEW c \in Calls, UNCHANGED <<logs, receipts>>,
           NEW result \in {"success", "error", "boundary"}, NEW effect \in {"none", "done", "failed"},
           NEW pc \in {"log", "mint"}, result = "success" => effect = "done",
           Permitted(c, result, effect, pc)
    PROVE  ToolInv'
<1> DEFINE call == [calls[c] EXCEPT !.decided = TRUE, !.decision = "allow",
                                    !.outcome = result, !.effect = effect, !.pc = pc]
<1>1. calls[c] \in Call
  BY DEF ToolInv, ToolTypeOK
<1>2. /\ call \in Call /\ call.outcome = result /\ call.effect = effect /\ call.pc = pc
      /\ call.decision = "allow" /\ call.decided
  BY <1>1 DEF Call
<1>3. calls[c].pc = "decide" /\ Become(c, call)
  BY DEF Permitted
<1> HIDE DEF call
<1>4. Fits(call) /\ Truthful(call) /\ ~Owed(call)
  BY <1>2 DEF Fits, Truthful, Owed
<1> QED BY <1>2, <1>3, <1>4, UnrecordedTurns DEF Settled, Late

LEMMA WayKeepsInv ==
    ASSUME ToolInv, NEW c \in Calls, CallGoesOn(c)
    PROVE  ToolInv'
<1>1. calls[c] \in Call /\ Fits(calls[c]) /\ Truthful(calls[c])
  BY DEF ToolInv, ToolTypeOK, CallsInv
<1>2. CASE HaveContext(c)
  <2> DEFINE call == [calls[c] EXCEPT !.pc = "decide"]
  <2>1. call \in Call /\ Fits(call) /\ Truthful(call) /\ ~Owed(call)
    BY <1>1 DEF Call, Fits, Truthful, Owed
  <2>2. calls[c].pc = "context" /\ Become(c, call) /\ Rest
    BY <1>2 DEF HaveContext, Move
  <2> QED BY <2>1, <2>2, UnrecordedTurns, RestKeepsServer DEF Settled, Late, Rest
<1>3. CASE CedarDenies(c)
  <2> DEFINE pc == IF calls[c].tool \in CountedTools THEN "violation" ELSE "mint"
             call == [calls[c] EXCEPT !.decided = TRUE, !.outcome = "cedar", !.pc = pc]
  <2>1. call \in Call /\ Fits(call) /\ Truthful(call) /\ ~Owed(call)
    BY <1>1 DEF Call, Fits, Truthful, Owed
  <2>2. calls[c].pc = "decide" /\ Become(c, call) /\ Rest
    BY <1>3 DEF CedarDenies
  <2> QED BY <2>1, <2>2, UnrecordedTurns, RestKeepsServer DEF Settled, Late, Rest
<1>4. CASE ViolationCounted(c)
  <2> DEFINE call == [calls[c] EXCEPT !.pc = IF calls[c].tool = "execute_command" THEN "log" ELSE "mint"]
  <2>1. calls[c].pc = "violation" /\ Become(c, call) /\ Rest
    BY <1>4 DEF ViolationCounted, Move
  <2>2. call \in Call /\ Fits(call) /\ Truthful(call) /\ ~Owed(call)
    BY <1>1, <2>1 DEF Call, Fits, Truthful, Owed
  <2> QED BY <2>1, <2>2, UnrecordedTurns, RestKeepsServer DEF Settled, Late, Rest
<1>5. CASE Execute(c) \/ EditOutside(c) \/ EditFails(c) \/ Look(c)
  <2>1. Rest /\ (\/ Permitted(c, "success", "done", "log")
                 \/ Permitted(c, "error", "failed", "log")
                 \/ Permitted(c, "boundary", "none", "mint")
                 \/ Permitted(c, "error", "failed", "mint")
                 \/ Permitted(c, "success", "done", "mint"))
    BY <1>5 DEF Execute, EditOutside, EditFails, Look
  <2> QED BY <2>1, PermittedKeepsInv, RestKeepsServer DEF Rest
<1>6. CASE Edit(c)
  <2>1. Server
    BY <1>6 DEF Edit, Server, ToolInv, ToolTypeOK, EditClosesGate
  <2> QED BY <1>6, <2>1, PermittedKeepsInv DEF Edit
<1>7. CASE AddLog(c)
  <2> DEFINE call == [calls[c] EXCEPT !.pc = "mint"]
  <2>1. calls[c].pc = "log" /\ Become(c, call) /\ logs' = logs \cup {LogOf(c)}
        /\ UNCHANGED <<receipts, keyed, synthesized, faults, stale>>
    BY <1>7 DEF AddLog, Move
  <2>2. /\ call \in Call /\ Fits(call) /\ Truthful(call) /\ ~Owed(call)
        /\ call.pc = "mint" /\ call.effect = calls[c].effect
    BY <1>1, <2>1 DEF Call, Fits, Truthful, Owed
  <2> HIDE DEF call
  <2>3. Turn(c, call)
    BY <2>1, <2>2 DEF Turn, AddsLog, AddsReceipt, Settled, Late
  <2> QED BY <2>1, <2>3, TurnKeepsInv, RestKeepsServer
<1>8. CASE NoKey(c)
  <2> DEFINE call == [calls[c] EXCEPT !.pc = "answered", !.unsigned = TRUE]
  <2>1. calls[c].pc = "mint" /\ Become(c, call) /\ Rest
    BY <1>8 DEF NoKey
  <2>2. /\ call \in Call /\ Fits(call) /\ Truthful(call) /\ ~Owed(call)
        /\ call.pc = "answered" /\ call.effect = calls[c].effect
    BY <1>1, <2>1 DEF Call, Fits, Truthful, Owed
  <2> QED BY <2>1, <2>2, UnrecordedTurns, RestKeepsServer DEF Settled, Late, Rest
<1>9. CASE Mint(c)
  <2> DEFINE call == [calls[c] EXCEPT !.pc = "answered"]
  <2>1. calls[c].pc = "mint" /\ Become(c, call) /\ receipts' = receipts \cup {ReceiptOf(c)}
        /\ UNCHANGED <<logs, keyed, synthesized, faults, stale>>
    BY <1>9 DEF Mint, Move
  <2>2. /\ call \in Call /\ Fits(call) /\ Truthful(call) /\ call.decided
        /\ call.pc = "answered" /\ call.effect = calls[c].effect
        /\ call.decision = calls[c].decision /\ call.outcome = calls[c].outcome
    BY <1>1, <2>1 DEF Call, Fits, Truthful
  <2> HIDE DEF call
  <2>3. Turn(c, call)
    BY <2>1, <2>2 DEF Turn, AddsLog, AddsReceipt, Settled, Late
  <2> QED BY <2>1, <2>3, TurnKeepsInv, RestKeepsServer
<1> QED BY <1>2, <1>3, <1>4, <1>5, <1>6, <1>7, <1>8, <1>9 DEF CallGoesOn

LEMMA FaultKeepsInv ==
    ASSUME ToolInv, NEW c \in Calls, StoreFails(c)
    PROVE  ToolInv'
<1> USE CallAssumption
<1>1. calls[c] \in Call /\ Fits(calls[c]) /\ Truthful(calls[c])
  BY DEF ToolInv, ToolTypeOK, CallsInv
<1> DEFINE after == AfterFault(calls[c])
           call == [after EXCEPT !.disturbed = TRUE]
<1>2. calls[c].pc \in {"context", "violation", "log", "mint"}
  BY DEF StoreFails
<1>3. /\ after \in Call /\ Fits(after)
      /\ after.effect = calls[c].effect /\ after.decision = calls[c].decision
      /\ after.outcome = "success" => calls[c].outcome = "success"
  BY <1>1, <1>2 DEF AfterFault, Call, Fits
<1>4. /\ calls[c].pc = "log" => after.pc \in {"log", "mint", "answered"}
      /\ calls[c].pc = "mint" => after = [calls[c] EXCEPT !.pc = "answered"]
  BY <1>1, <1>2 DEF AfterFault, Call
<1> HIDE DEF after
<1>5. /\ call \in Call /\ call.disturbed /\ call.pc = after.pc /\ call.decided = after.decided
      /\ call.effect = after.effect /\ call.decision = after.decision /\ call.outcome = after.outcome
  BY <1>3 DEF Call
<1>6. Become(c, call)
  BY DEF StoreFails, after
<1> HIDE DEF call
<1>7. Fits(call) /\ Truthful(call) /\ ~Owed(call)
  BY <1>1, <1>3, <1>5 DEF Fits, Truthful, Owed
<1>8. AddsLog(c)
  BY DEF StoreFails, AddsLog
<1>9. AddsReceipt(c, call)
  <2>1. CASE receipts' = receipts
    BY <1>7, <2>1 DEF AddsReceipt
  <2>2. CASE calls[c].pc = "mint" /\ receipts' = receipts \cup {ReceiptOf(c)}
    <3>1. /\ call.pc = "answered" /\ call.decided
          /\ call.decision = calls[c].decision /\ call.outcome = calls[c].outcome
      BY <1>1, <1>4, <1>5, <2>2 DEF Fits, Call
    <3> QED BY <2>2, <3>1 DEF AddsReceipt
  <2> QED BY <2>1, <2>2 DEF StoreFails
<1>10. Turn(c, call)
  BY <1>2, <1>3, <1>4, <1>5, <1>6, <1>7, <1>8, <1>9 DEF Turn, Settled, Late, Call
<1>11. Server
  BY DEF StoreFails, Server, ToolInv, ToolTypeOK, EditClosesGate
<1> QED BY <1>10, <1>11, TurnKeepsInv

\* A step that changes nothing of a call but whether it was disturbed, or that
\* it is lost, keeps what holds of the calls.
LEMMA DisturbedKeepInv ==
    ASSUME ToolInv, Server, calls' \in [Calls -> Call],
           \A c \in Calls : /\ calls'[c].effect = calls[c].effect
                            /\ calls'[c].decision = calls[c].decision
                            /\ calls'[c].outcome = calls[c].outcome
                            /\ calls'[c].decided = calls[c].decided
                            /\ calls'[c].pc = calls[c].pc
                                  \/ (calls'[c].pc = "lost" /\ Running(calls[c]))
                            /\ Owed(calls'[c]) => Owed(calls[c]) /\ receipts' = receipts,
           \/ logs' = logs /\ receipts' = receipts
           \/ logs' = {} /\ receipts' = {}
    PROVE  ToolInv'
<1>1. CallsInv'
  BY DEF ToolInv, CallsInv, Fits, Truthful
<1>2. (\A l \in logs : l.call \in Calls) /\ (\A r \in receipts : r.call \in Calls)
  BY DEF ToolInv, ToolTypeOK, Log, Receipt
<1>3. LogsInv'
  BY <1>2 DEF LogsInv, ToolInv, RecordsInv, Late, Running
<1>4. ReceiptsInv'
  BY <1>2 DEF ReceiptsInv, ToolInv, RecordsInv, Signs, Settled, Running
<1>5. \A c \in Calls : ReceiptOf(c)' = ReceiptOf(c)
  BY DEF ReceiptOf
<1>6. OwedInv'
  BY <1>5 DEF OwedInv, ToolInv, RecordsInv
<1> QED BY <1>1, <1>3, <1>4, <1>6 DEF ToolInv, ToolTypeOK, RecordsInv, Server

LEMMA ToolNextKeepsInv ==
    ASSUME ToolInv, [ToolNext]_toolVars
    PROVE  ToolInv'
<1>1. ASSUME NEW c \in Calls, CallStarts(c) \/ CallGoesOn(c) \/ StoreFails(c)
      PROVE  ToolInv'
  BY <1>1, StartsKeepInv, WayKeepsInv, FaultKeepsInv
<1>2. CASE SubmitSynthesis
  BY <1>2 DEF SubmitSynthesis, ToolInv, ToolTypeOK, CallsInv, RecordsInv, LogsInv, ReceiptsInv,
              OwedInv, ReceiptOf, EditClosesGate
<1>3. ASSUME NEW dead \in SUBSET Calls, Crash(dead)
      PROVE  ToolInv'
  <2>1. \A c \in Calls : /\ calls[c] \in Call
                         /\ c \in dead => Running(calls[c])
    BY <1>3 DEF Crash, ToolInv, ToolTypeOK
  <2>2. \A c \in Calls : /\ c \notin dead => calls'[c] = calls[c]
                         /\ c \in dead => calls'[c] = [calls[c] EXCEPT !.pc = "lost", !.disturbed = TRUE]
    BY <1>3 DEF Crash
  <2>3. calls' \in [Calls -> Call]
    <3>1. \A c \in Calls : [calls[c] EXCEPT !.pc = "lost", !.disturbed = TRUE] \in Call
      BY <2>1 DEF Call
    <3> QED BY <1>3, <2>1, <3>1 DEF Crash
  <2>4. UNCHANGED <<logs, receipts, keyed, synthesized, faults, stale>>
    BY <1>3 DEF Crash, Rest
  <2>5. \A c \in Calls : /\ calls'[c].effect = calls[c].effect
                         /\ calls'[c].decision = calls[c].decision
                         /\ calls'[c].outcome = calls[c].outcome
                         /\ calls'[c].decided = calls[c].decided
                         /\ calls'[c].pc = calls[c].pc
                               \/ (calls'[c].pc = "lost" /\ Running(calls[c]))
                         /\ Owed(calls'[c]) => Owed(calls[c]) /\ receipts' = receipts
    <3> TAKE c \in Calls
    <3>1. CASE c \in dead
      <4>1. calls'[c] = [calls[c] EXCEPT !.pc = "lost", !.disturbed = TRUE]
        BY <2>2, <3>1
      <4>2. /\ calls'[c].effect = calls[c].effect
            /\ calls'[c].decision = calls[c].decision
            /\ calls'[c].outcome = calls[c].outcome
            /\ calls'[c].decided = calls[c].decided
            /\ calls'[c].pc = "lost"
        BY <2>1, <4>1 DEF Call
      <4> QED BY <2>1, <3>1, <4>2 DEF Owed
    <3>2. CASE c \notin dead
      BY <2>2, <2>4, <3>2
    <3> QED BY <3>1, <3>2
  <2> QED BY <2>3, <2>4, <2>5, DisturbedKeepInv, RestKeepsServer
<1>4. CASE KeyWritten
  BY <1>4 DEF KeyWritten, ToolInv, ToolTypeOK, CallsInv, RecordsInv, LogsInv, ReceiptsInv,
              OwedInv, ReceiptOf, EditClosesGate
<1>5. CASE ClearRecords
  <2>1. \A c \in Calls : /\ calls[c] \in Call
                         /\ calls'[c] = [calls[c] EXCEPT !.disturbed = calls[c].pc # "idle"]
    BY <1>5 DEF ClearRecords, ToolInv, ToolTypeOK
  <2>2. calls' \in [Calls -> Call]
    <3>1. \A c \in Calls : [calls[c] EXCEPT !.disturbed = calls[c].pc # "idle"] \in Call
      BY <2>1 DEF Call
    <3> QED BY <1>5, <3>1 DEF ClearRecords
  <2>3. logs' = {} /\ receipts' = {} /\ UNCHANGED <<keyed, synthesized, faults, stale>>
    BY <1>5 DEF ClearRecords
  <2>4. \A c \in Calls : /\ calls'[c].effect = calls[c].effect
                         /\ calls'[c].decision = calls[c].decision
                         /\ calls'[c].outcome = calls[c].outcome
                         /\ calls'[c].decided = calls[c].decided
                         /\ calls'[c].pc = calls[c].pc
                         /\ ~Owed(calls'[c])
    <3> TAKE c \in Calls
    <3>1. /\ calls'[c].effect = calls[c].effect
          /\ calls'[c].decision = calls[c].decision
          /\ calls'[c].outcome = calls[c].outcome
          /\ calls'[c].decided = calls[c].decided
          /\ calls'[c].pc = calls[c].pc
      BY <2>1 DEF Call
    <3>2. calls'[c].disturbed = (calls[c].pc # "idle")
      BY <2>1 DEF Call
    <3> QED BY <3>1, <3>2 DEF Owed
  <2> QED BY <2>2, <2>3, <2>4, DisturbedKeepInv, RestKeepsServer
<1>6. CASE UNCHANGED toolVars
  BY <1>6 DEF toolVars, ToolInv, ToolTypeOK, CallsInv, RecordsInv, LogsInv, ReceiptsInv,
              OwedInv, ReceiptOf, EditClosesGate
<1> QED BY <1>1, <1>2, <1>3, <1>4, <1>5, <1>6 DEF ToolNext

LEMMA ToolInvHolds == ToolSpec => []ToolInv
<1>1. ASSUME ToolInit PROVE ToolInv
  <2>1. NoCall \in Call /\ Fits(NoCall) /\ Truthful(NoCall) /\ ~Owed(NoCall)
    BY DEF NoCall, Call, ToolNames, Fits, Truthful, Owed
  <2>2. CallsInv /\ calls \in [Calls -> Call]
    BY <1>1, <2>1 DEF ToolInit, CallsInv
  <2>3. RecordsInv
    BY <1>1, <2>1 DEF ToolInit, RecordsInv, LogsInv, ReceiptsInv, OwedInv
  <2>4. 0 \in 0..MaxFaults
    BY CallAssumption
  <2>5. EditClosesGate
    BY <1>1 DEF ToolInit, EditClosesGate
  <2>6. ToolTypeOK
    BY <1>1, <2>2, <2>4 DEF ToolInit, ToolTypeOK
  <2> QED BY <2>2, <2>3, <2>5, <2>6 DEF ToolInv
<1> QED BY <1>1, ToolNextKeepsInv, PTL DEF ToolSpec

---------------------------------------------------------------------------

\* What a call records is of its types: no receipt is without an outcome.
THEOREM ToolTypesHold == ToolSpec => []ToolTypeOK
<1>1. ToolInv => ToolTypeOK
  BY DEF ToolInv
<1> QED BY <1>1, ToolInvHolds, PTL

\* However many calls edit at once, die or fail to log, the gate stays closed
\* from an edit to the next synthesis.
THEOREM EditsCloseGate == ToolSpec => []EditClosesGate
<1>1. ToolInv => EditClosesGate
  BY DEF ToolInv
<1> QED BY <1>1, ToolInvHolds, PTL

\* A log or a receipt never says of a call what did not happen.
THEOREM RecordsAreTrue == ToolSpec => []RecordsTellTheTruth
<1>1. ASSUME ToolInv PROVE RecordsTellTheTruth
  <2>1. \A r \in receipts : r.call \in Calls /\ Truthful(calls[r.call]) /\ Signs(r, calls[r.call])
    BY <1>1 DEF ToolInv, ToolTypeOK, Receipt, CallsInv, RecordsInv, ReceiptsInv
  <2> QED BY <1>1, <2>1 DEF ToolInv, RecordsInv, LogsInv, Truthful, Signs, RecordsTellTheTruth
<1> QED BY <1>1, ToolInvHolds, PTL

\* Every decided call has exactly its receipt, whatever other calls, resets,
\* failures of the store and crashes do.
THEOREM ReceiptsMatchDecisions == ToolSpec => []DecidedCallsAreReceipted
<1>1. ASSUME ToolInv PROVE DecidedCallsAreReceipted
  <2> SUFFICES ASSUME NEW c \in Calls
               PROVE  LET call == calls[c]
                          mine == {r \in receipts : r.call = c} IN
                      /\ Cardinality(mine) <= 1
                      /\ \A r \in mine : call.decided /\ r.decision = call.decision
                      /\ call.pc = "answered" /\ call.decided /\ ~call.disturbed /\ ~call.unsigned
                            => mine # {}
    BY DEF DecidedCallsAreReceipted
  <2> DEFINE mine == {r \in receipts : r.call = c}
  <2>1. \A r \in mine : r = ReceiptOf(c) /\ Signs(r, calls[c])
    BY <1>1 DEF ToolInv, ToolTypeOK, Receipt, RecordsInv, ReceiptsInv, Signs, ReceiptOf
  <2>2. Cardinality(mine) <= 1
    <3>1. mine = {} \/ mine = {ReceiptOf(c)}
      BY <2>1
    <3>2. Cardinality({}) = 0 /\ Cardinality({ReceiptOf(c)}) = 1
      BY FS_EmptySet, FS_Singleton
    <3> QED BY <3>1, <3>2
  <2>3. Owed(calls[c]) => ReceiptOf(c) \in mine
    BY <1>1 DEF ToolInv, RecordsInv, OwedInv, ReceiptOf
  <2> QED BY <2>1, <2>2, <2>3 DEF Signs, Owed
<1> QED BY <1>1, ToolInvHolds, PTL

---------------------------------------------------------------------------
(* The adapter in front of the tool server *)

\* A message has its answer or none yet.
RoutedInv == routed \in {Unrouted, Answer(message)}

\* The answer runs a tool for a call of that tool only, by the header and, where
\* the body says anything, by the body.
LEMMA AnswerRuns ==
    ASSUME NEW m, Answer(m).tool # "none"
    PROVE  /\ Answer(m).tool = m.headerName /\ m.bodyName \in {Missing, m.headerName}
           /\ m.headerMethod = "tools/call" /\ m.bodyMethod \in {Missing, "tools/call"}
           /\ Answer(m).tool \in HttpTools
<1>1. /\ Validated(m) /\ MethodOf(m) \in HttpMethods \ Plain
      /\ RequestedName(m) \in HttpTools
      /\ Answer(m).tool = RequestedName(m)
  BY DEF Answer, Plain, HttpMethods, Inherited
<1>2. MethodOf(m) = "tools/call"
  BY <1>1 DEF HttpMethods
<1>3. NamesAgree(m)
  BY <1>1, <1>2 DEF Validated, NamedMethods
<1>4. Answer(m).tool = m.headerName
  BY <1>1, <1>3 DEF RequestedName, NamesAgree
<1>5. m.headerMethod = "tools/call" /\ m.bodyMethod \in {Missing, "tools/call"}
  BY <1>1, <1>2 DEF Validated, MethodOf
<1> QED BY <1>1, <1>3, <1>4, <1>5 DEF NamesAgree

\* Whatever headers and body a message has, a tool runs only if both name it
\* wherever they name one, and a mutating tool never runs.
THEOREM RoutingDeclared == HttpSpec => []RoutedAsDeclared
<1>1. HttpInit => RoutedInv
  BY DEF HttpInit, RoutedInv
<1>2. RoutedInv /\ [Route]_httpVars => RoutedInv'
  BY DEF RoutedInv, Route, httpVars
<1>3. HttpTools \cap MutatingTools = {}
  BY DEF HttpTools, MutatingTools
<1>4. RoutedInv => RoutedAsDeclared
  BY <1>3, AnswerRuns DEF RoutedInv, RoutedAsDeclared, Unrouted
<1> QED BY <1>1, <1>2, <1>4, PTL DEF HttpSpec

---------------------------------------------------------------------------
(* The search and replace.  The lines of a text are pieces of it, so every *)
(* fact below is about positions.  What a recursive definition computes is *)
(* shown by the least position at which it would not.                      *)

\* A set of numbers has a least one.
LEMMA Least ==
    ASSUME NEW T, T \subseteq Nat, T # {} PROVE \E x \in T : \A y \in T : x <= y
<1>1. PICK x \in T : \A y \in T : <<y, x>> \notin OpToRel(<, Nat)
  BY WFMin, NatLessThanWellFounded
<1>2. \A y \in T : ~(y < x)
  BY <1>1 DEF OpToRel
<1> QED
  BY <1>2

LEMMA MinIs ==
    ASSUME NEW T, T \subseteq Nat, T # {}
    PROVE  Min(T) \in T /\ \A y \in T : Min(T) <= y
BY Least DEF Min

\* Pieces put together in a row are a piece.
LEMMA FlattenType ==
    ASSUME NEW S, NEW n \in Nat, NEW parts \in [1..n -> Seq(S)]
    PROVE  FlattenSeq(parts) \in Seq(S)
<1> DEFINE Joins(f, i) == IF i = 1 THEN parts[i] ELSE f[i - 1] \o parts[i]
           Good(f, m) == f = [i \in 1..m |-> Joins(f, i)]
           Bad == {m \in 1..n : ~ \E f \in [1..m -> Seq(S)] : Good(f, m)}
<1>1. Bad = {}
  <2> SUFFICES ASSUME Bad # {} PROVE FALSE
    OBVIOUS
  <2>1. PICK m \in Bad : \A k \in Bad : m <= k
    <3>1. Bad \subseteq 1..n
      BY DEF Bad
    <3> HIDE DEF Bad
    <3>2. Bad \subseteq Nat
      BY <3>1
    <3> QED
      BY <3>2, Least
  <2>2. m # 1
    <3>1. [i \in 1..1 |-> parts[1]] \in [1..1 -> Seq(S)]
      BY <2>1
    <3>2. Good([i \in 1..1 |-> parts[1]], 1)
      OBVIOUS
    <3> QED
      BY <2>1, <3>1, <3>2
  <2>3. PICK f \in [1..(m - 1) -> Seq(S)] : Good(f, m - 1)
    <3>1. m \in 1..n
      OBVIOUS
    <3>2. m - 1 \in 1..n
      BY <2>2, <3>1
    <3>3. m - 1 \notin Bad
      <4> HIDE DEF Bad
      <4> QED
        BY <2>1, <3>1
    <3> QED
      BY <3>2, <3>3
  <2> DEFINE g == [i \in 1..m |-> IF i = m THEN f[m - 1] \o parts[m] ELSE f[i]]
  <2>4. g \in [1..m -> Seq(S)]
    <3>1. m \in 2..n /\ m - 1 \in 1..(m - 1)
      BY <2>2
    <3>2. parts[m] \in Seq(S) /\ f[m - 1] \in Seq(S)
      BY <3>1
    <3>3. f[m - 1] \o parts[m] \in Seq(S)
      BY <3>2
    <3>4. \A i \in 1..m : i # m => f[i] \in Seq(S)
      BY <3>1
    <3> QED
      BY <3>3, <3>4
  <2>5. ASSUME NEW i \in 1..m PROVE g[i] = Joins(g, i)
    <3>0. m \in 2..n
      BY <2>2
    <3>1. CASE i = m
      <4>1. m - 1 \in 1..m /\ m - 1 # m /\ m # 1
        BY <3>0
      <4> QED
        BY <3>1, <4>1
    <3>2. CASE i # m
      <4>1. i \in 1..(m - 1) /\ g[i] = f[i]
        BY <3>0, <3>2
      <4>2. f[i] = Joins(f, i)
        BY <2>3, <4>1
      <4>3. i # 1 => i - 1 \in 1..m /\ i - 1 # m
        BY <3>0, <4>1
      <4> QED
        BY <4>1, <4>2, <4>3
    <3> QED
      BY <3>1, <3>2
  <2>6. Good(g, m)
    <3>1. g = [i \in 1..m |-> g[i]]
      OBVIOUS
    <3> HIDE DEF g
    <3> QED
      BY <2>5, <3>1
  <2> QED
    BY <2>4, <2>6
<1>2. CASE n = 0
  BY <1>2 DEF FlattenSeq
<1>3. CASE n # 0
  <2> DEFINE flatten == CHOOSE f : f = [i \in 1..Len(parts) |->
                                          IF i = 1 THEN parts[i] ELSE f[i - 1] \o parts[i]]
  <2>1. FlattenSeq(parts) = flatten[Len(parts)]
    BY <1>3 DEF FlattenSeq
  <2>2. n \in 1..n /\ n \notin Bad /\ Len(parts) = n
    <3> HIDE DEF Bad
    <3> QED
      BY <1>1, <1>3
  <2>3. PICK f \in [1..n -> Seq(S)] : Good(f, n)
    BY <2>2
  <2>4. flatten = [i \in 1..n |-> Joins(flatten, i)]
    BY <2>2, <2>3
  <2>5. \A m \in 1..n : flatten[m] \in Seq(S)
    <3> DEFINE Odd == {m \in 1..n : flatten[m] \notin Seq(S)}
    <3> SUFFICES ASSUME Odd # {} PROVE FALSE
      OBVIOUS
    <3>1. PICK m \in Odd : \A k \in Odd : m <= k
      <4>1. Odd \subseteq 1..n
        BY DEF Odd
      <4> HIDE DEF Odd
      <4>2. Odd \subseteq Nat
        BY <4>1
      <4> QED
        BY <4>2, Least
    <3> HIDE DEF flatten
    <3>2. m \in 1..n /\ flatten[m] = Joins(flatten, m) /\ flatten[m] \notin Seq(S)
      BY <2>4
    <3>3. m # 1
      BY <3>2
    <3>4. m - 1 \in 1..n /\ m - 1 \notin Odd
      <4> HIDE DEF Odd
      <4> QED
        BY <3>1, <3>2, <3>3
    <3>5. flatten[m - 1] \in Seq(S) /\ parts[m] \in Seq(S)
      BY <3>2, <3>4
    <3>6. flatten[m - 1] \o parts[m] \in Seq(S)
      BY <3>5
    <3> QED
      BY <3>2, <3>3, <3>6
  <2> QED
    BY <2>1, <2>2, <2>5
<1> QED
  BY <1>2, <1>3

LEMMA ExpandType ==
    ASSUME NEW r \in Seq(STRING), NEW t \in Seq(STRING) PROVE Expand(r, t) \in Seq(STRING)
<1> DEFINE parts == [k \in 1..Len(r) |-> IF r[k] = Matched THEN t ELSE <<r[k]>>]
<1>1. \A k \in 1..Len(r) : <<r[k]>> \in Seq(STRING)
  OBVIOUS
<1>2. parts \in [1..Len(r) -> Seq(STRING)]
  BY <1>1
<1>3. Len(r) \in Nat /\ DOMAIN r = 1..Len(r)
  OBVIOUS
<1> HIDE DEF parts
<1>4. FlattenSeq(parts) \in Seq(STRING)
  BY <1>2, <1>3, FlattenType
<1>5. Expand(r, t) = FlattenSeq(parts)
  BY <1>3 DEF Expand, parts
<1> QED
  BY <1>4, <1>5

---------------------------------------------------------------------------
(* Lines *)

Text == Seq(STRING)

\* The line breaks before a position.
Breaks(text, i) == {j \in 1..(i - 1) : text[j] = Newline}

LEMMA BreaksFinite ==
    ASSUME NEW text, NEW i \in Nat
    PROVE  IsFiniteSet(Breaks(text, i)) /\ Cardinality(Breaks(text, i)) \in Nat
<1>1. IsFiniteSet(1..(i - 1)) /\ Breaks(text, i) \subseteq 1..(i - 1)
  BY FS_Interval DEF Breaks
<1> QED
  BY <1>1, FS_Subset, FS_CardinalityType

LEMMA LineSteps ==
    ASSUME NEW text, NEW i \in Nat \ {0}
    PROVE  LineOf(text, i + 1) = LineOf(text, i) + (IF text[i] = Newline THEN 1 ELSE 0)
<1>1. LineOf(text, i) = Cardinality(Breaks(text, i)) + 1
  BY DEF LineOf, Breaks
<1>2. LineOf(text, i + 1) = Cardinality(Breaks(text, i + 1)) + 1
  BY DEF LineOf, Breaks
<1>3. IsFiniteSet(Breaks(text, i)) /\ Cardinality(Breaks(text, i)) \in Nat
  BY BreaksFinite
<1>4. CASE text[i] = Newline
  <2>1. Breaks(text, i + 1) = Breaks(text, i) \cup {i} /\ i \notin Breaks(text, i)
    BY <1>4 DEF Breaks
  <2>2. Cardinality(Breaks(text, i + 1)) = Cardinality(Breaks(text, i)) + 1
    BY <1>3, <2>1, FS_AddElement
  <2> QED
    BY <1>1, <1>2, <1>3, <1>4, <2>2
<1>5. CASE text[i] # Newline
  <2>1. Breaks(text, i + 1) = Breaks(text, i)
    BY <1>5 DEF Breaks
  <2> QED
    BY <1>1, <1>2, <1>3, <1>5, <2>1
<1> QED
  BY <1>4, <1>5

LEMMA LinesGrow ==
    ASSUME NEW text, NEW i \in Nat \ {0}, NEW j \in Nat, i <= j
    PROVE  /\ LineOf(text, i) \in Nat \ {0}
           /\ LineOf(text, i) <= LineOf(text, j)
           /\ LineOf(text, 1) = 1
<1>1. /\ IsFiniteSet(Breaks(text, j)) /\ Cardinality(Breaks(text, j)) \in Nat
      /\ IsFiniteSet(Breaks(text, i)) /\ Cardinality(Breaks(text, i)) \in Nat
  BY BreaksFinite
<1>2. Breaks(text, i) \subseteq Breaks(text, j)
  BY DEF Breaks
<1>3. Cardinality(Breaks(text, i)) <= Cardinality(Breaks(text, j))
  BY <1>1, <1>2, FS_Subset
<1>4. Cardinality(Breaks(text, 1)) = 0
  <2>1. Breaks(text, 1) = {}
    BY DEF Breaks
  <2> QED
    BY <2>1, FS_EmptySet
<1> QED
  BY <1>1, <1>3, <1>4 DEF LineOf, Breaks

\* Where a line begins: behind the line break before it, where its number is
\* reached first.
LEMMA Begins ==
    ASSUME NEW text \in Text, NEW k \in Nat, k < LineCount(text)
    PROVE  /\ Begin(text, k) \in 1..(Len(text) + 1)
           /\ \A i \in 1..(Len(text) + 1) : LineOf(text, i) > k <=> i >= Begin(text, k)
           /\ LineOf(text, Begin(text, k)) = k + 1
           /\ k = 0 => Begin(text, k) = 1
           /\ k > 0 => Begin(text, k) > 1 /\ text[Begin(text, k) - 1] = Newline
<1> DEFINE b == Begin(text, k)
           n == Len(text) + 1
           T == {i \in 1..n : LineOf(text, i) > k}
<1>0. n \in Nat \ {0} /\ LineCount(text) = LineOf(text, n)
  BY DEF Text, LineCount
<1>1. n \in T
  BY <1>0
<1>2. b \in T /\ \A i \in T : b <= i
  <2>1. T \subseteq Nat /\ T # {} /\ b = Min(T)
    BY <1>1, <1>0 DEF Begin
  <2> HIDE DEF T, b
  <2> QED
    BY <2>1, MinIs
<1> HIDE DEF b
<1>3. ASSUME NEW i \in 1..n PROVE LineOf(text, i) > k <=> i >= b
  <2>1. LineOf(text, i) > k => i >= b
    BY <1>2
  <2>2. i >= b => LineOf(text, b) <= LineOf(text, i) /\ LineOf(text, b) \in Nat
    BY <1>2, LinesGrow
  <2>3. LineOf(text, i) \in Nat
    BY LinesGrow
  <2> QED
    BY <1>2, <2>1, <2>2, <2>3
<1>4. CASE b = 1
  <2>1. LineOf(text, b) = 1
    BY <1>4, LinesGrow
  <2> QED
    BY <1>2, <1>3, <1>4, <2>1 DEF b
<1>5. CASE b # 1
  <2>1. b - 1 \in 1..n /\ b - 1 \in Nat \ {0} /\ (b - 1) + 1 = b
    BY <1>2, <1>5, <1>0
  <2>2. ~(LineOf(text, b - 1) > k)
    BY <1>3, <2>1
  <2>3. LineOf(text, b) = LineOf(text, b - 1) + (IF text[b - 1] = Newline THEN 1 ELSE 0)
    BY <2>1, LineSteps
  <2>4. LineOf(text, b - 1) \in Nat \ {0}
    BY <2>1, LinesGrow
  <2>5. LineOf(text, b) > k
    BY <1>2
  <2>6. text[b - 1] = Newline /\ LineOf(text, b) = k + 1
    BY <2>2, <2>3, <2>4, <2>5
  <2>7. k # 0
    BY <2>2, <2>4
  <2> QED
    BY <1>2, <1>3, <2>1, <2>6, <2>7 DEF b
<1> QED
  BY <1>4, <1>5

\* Where the first k lines end.
Ends(text, k) == IF k = LineCount(text) THEN Len(text) ELSE Begin(text, k) - 2

LEMMA LineCountType ==
    ASSUME NEW text \in Text PROVE LineCount(text) \in Nat \ {0}
BY LinesGrow DEF LineCount, Text

\* The lines from one to another are one piece of the text, and there is a line
\* break on either side of it.
LEMMA Ranges ==
    ASSUME NEW text \in Text, NEW from \in Nat, NEW to \in Nat,
           from < to, to <= LineCount(text)
    PROVE  /\ Begin(text, from) \in 1..(Len(text) + 1)
           /\ Ends(text, to) \in (Begin(text, from) - 1)..Len(text)
           /\ to < LineCount(text) => /\ Ends(text, to) + 2 = Begin(text, to)
                                      /\ Begin(text, to) \in 1..(Len(text) + 1)
                                      /\ text[Ends(text, to) + 1] = Newline
<1> DEFINE b == Begin(text, from)
           e == Begin(text, to)
<1>1. LineCount(text) \in Nat \ {0} /\ Len(text) \in Nat
  BY LineCountType DEF Text
<1>2. /\ b \in 1..(Len(text) + 1) /\ LineOf(text, b) = from + 1
      /\ \A i \in 1..(Len(text) + 1) : LineOf(text, i) > from <=> i >= b
  BY <1>1, Begins
<1> HIDE DEF b
<1>3. CASE to = LineCount(text)
  BY <1>1, <1>2, <1>3 DEF Ends, b
<1>4. CASE to < LineCount(text)
  <2>1. /\ e \in 1..(Len(text) + 1) /\ LineOf(text, e) = to + 1
        /\ e > 1 /\ text[e - 1] = Newline
    BY <1>1, <1>4, Begins
  <2> HIDE DEF e
  <2>2. LineOf(text, e) > from /\ e >= b
    BY <1>2, <2>1
  <2>3. e # b
    BY <1>2, <2>1
  <2>4. Ends(text, to) = e - 2
    BY <1>1, <1>4 DEF Ends, e
  <2>5. Ends(text, to) \in (b - 1)..Len(text) /\ Ends(text, to) + 2 = e
        /\ Ends(text, to) + 1 = e - 1
    BY <1>1, <1>2, <2>1, <2>2, <2>3, <2>4
  <2> QED
    BY <1>2, <2>1, <2>5 DEF b, e
<1> QED
  BY <1>1, <1>3, <1>4

LEMMA MinOfTwo ==
    ASSUME NEW a \in Nat, NEW b \in Nat PROVE Min({a, b}) = IF a <= b THEN a ELSE b
<1>1. {a, b} \subseteq Nat /\ {a, b} # {}
  OBVIOUS
<1>2. Min({a, b}) \in {a, b} /\ \A y \in {a, b} : Min({a, b}) <= y
  BY <1>1, MinIs
<1> QED
  BY <1>2

\* What lines.slice and join make of a range that ends within the text.
LEMMA JoinedLines ==
    ASSUME NEW text \in Text, NEW from \in Nat, NEW to \in Nat, to <= LineCount(text)
    PROVE  Joined(text, from, to) =
              IF from < to THEN SubSeq(text, Begin(text, from), Ends(text, to)) ELSE <<>>
<1>1. LineCount(text) \in Nat \ {0}
  BY LineCountType
<1>2. Place(to, LineCount(text)) = to
  BY <1>1, MinOfTwo DEF Place
<1>3. Place(from, LineCount(text)) =
         IF from <= LineCount(text) THEN from ELSE LineCount(text)
  BY <1>1, MinOfTwo DEF Place
<1> QED
  BY <1>1, <1>2, <1>3 DEF Joined, Ends

\* A text is what is before a range of its lines, the range, and what follows.
LEMMA AroundRange ==
    ASSUME NEW text \in Text, NEW from \in Nat, NEW to \in Nat,
           from < to, to <= LineCount(text)
    PROVE  /\ (IF from > 0 THEN Joined(text, 0, from) \o <<Newline>> ELSE <<>>)
              = SubSeq(text, 1, Begin(text, from) - 1)
           /\ (IF to - 1 < LineCount(text) - 1 THEN <<Newline>> \o JoinedFrom(text, to) ELSE <<>>)
              = SubSeq(text, Ends(text, to) + 1, Len(text))
<1>1. LineCount(text) \in Nat \ {0} /\ Len(text) \in Nat
  BY LineCountType DEF Text
<1>2. Begin(text, 0) = 1
  BY <1>1, Begins
<1>3. (IF from > 0 THEN Joined(text, 0, from) \o <<Newline>> ELSE <<>>)
      = SubSeq(text, 1, Begin(text, from) - 1)
  <2>1. CASE from > 0
    <3> DEFINE b == Begin(text, from)
    <3>1. b \in 2..(Len(text) + 1) /\ text[b - 1] = Newline
      BY <1>1, <2>1, Begins
    <3>2. Joined(text, 0, from) = SubSeq(text, 1, b - 2)
      BY <1>1, <1>2, <2>1, JoinedLines DEF Ends
    <3> HIDE DEF b
    <3>3. 1 \in 1..Len(text) /\ b - 1 \in 1..Len(text)
      BY <1>1, <3>1
    <3>4. SubSeq(text, 1, b - 1) = SubSeq(text, 1, (b - 1) - 1) \o <<text[b - 1]>>
      BY <3>3, SubSeqRecursiveSecond DEF Text
    <3>5. (b - 1) - 1 = b - 2
      BY <3>1
    <3> QED
      BY <2>1, <3>1, <3>2, <3>4, <3>5 DEF b
  <2>2. CASE from = 0
    BY <1>1, <1>2, <2>2, SubSeqEmpty DEF Text
  <2>3. from > 0 \/ from = 0
    OBVIOUS
  <2> QED
    BY <2>1, <2>2, <2>3
<1>4. (IF to - 1 < LineCount(text) - 1 THEN <<Newline>> \o JoinedFrom(text, to) ELSE <<>>)
      = SubSeq(text, Ends(text, to) + 1, Len(text))
  <2>1. CASE to < LineCount(text)
    <3> DEFINE e == Ends(text, to) + 1
    <3>1. e + 1 = Begin(text, to) /\ text[e] = Newline /\ e \in 1..Len(text)
      BY <1>1, <2>1, Ranges
    <3>2. JoinedFrom(text, to) = SubSeq(text, e + 1, Len(text))
      BY <1>1, <2>1, <3>1, JoinedLines DEF JoinedFrom, Ends
    <3> HIDE DEF e
    <3>3. Len(text) \in e..Len(text)
      BY <1>1, <3>1
    <3>4. SubSeq(text, e, Len(text)) = <<text[e]>> \o SubSeq(text, e + 1, Len(text))
      BY <3>1, <3>3, SubSeqRecursiveFirst DEF Text
    <3>5. to - 1 < LineCount(text) - 1
      BY <1>1, <2>1
    <3> QED
      BY <3>1, <3>2, <3>4, <3>5 DEF e
  <2>2. CASE to = LineCount(text)
    BY <1>1, <2>2, SubSeqEmpty DEF Ends, Text
  <2>3. to < LineCount(text) \/ to = LineCount(text)
    BY <1>1
  <2> QED
    BY <2>1, <2>2, <2>3
<1> QED
  BY <1>3, <1>4

---------------------------------------------------------------------------
(* The target *)

LEMMA OnePlace ==
    ASSUME NEW text \in Text, NEW target \in Text, target # <<>>
    PROVE  /\ Places(text, target) = {} => Occurrences(text, target) = 0
           /\ Occurrences(text, target) \in {0, 1, 2}
           /\ Occurrences(text, target) = 1 =>
                 /\ Places(text, target) # {}
                 /\ Min(Places(text, target)) \in Places(text, target)
           /\ \A x : Places(text, target) = {x} => Occurrences(text, target) = 1
<1> DEFINE places == Places(text, target)
<1>1. places \subseteq Nat
  BY DEF Places
<1>2. Len(target) \in Nat \ {0}
  BY DEF Text
<1>3. places # {} => Min(places) \in places
  BY <1>1, MinIs
<1>4. ASSUME NEW x, places = {x} PROVE \A i \in places : i < Min(places) + Len(target)
  <2>1. x \in Nat /\ Min(places) = x
    BY <1>1, <1>3, <1>4
  <2> QED
    BY <1>2, <1>4, <2>1
<1>5. Occurrences(text, target) =
         IF places = {} THEN 0
         ELSE IF \A i \in places : i < Min(places) + Len(target) THEN 1 ELSE 2
  BY DEF Occurrences
<1> HIDE DEF places
<1>6. \A x : places = {x} => Occurrences(text, target) = 1
  BY <1>4, <1>5
<1>7. /\ places = {} => Occurrences(text, target) = 0
      /\ Occurrences(text, target) \in {0, 1, 2}
      /\ Occurrences(text, target) = 1 => places # {} /\ Min(places) \in places
  BY <1>3, <1>5
<1> QED
  BY <1>6, <1>7 DEF places

\* A piece of a piece, counted from the start of the text.
LEMMA PieceOfPiece ==
    ASSUME NEW text \in Text, NEW b \in 1..(Len(text) + 1), NEW f \in (b - 1)..Len(text),
           NEW m \in Nat \ {0}, NEW n \in Nat, n <= Len(SubSeq(text, b, f))
    PROVE  /\ SubSeq(SubSeq(text, b, f), m, n) = SubSeq(text, b + m - 1, b + n - 1)
           /\ Len(SubSeq(text, b, f)) = f - b + 1
           /\ SubSeq(text, b, f) \in Text
<1>1. text \in Text /\ Len(text) \in Nat
  BY DEF Text
<1>2. Len(SubSeq(text, b, f)) = f - b + 1 /\ SubSeq(text, b, f) \in Text
  <2>1. b \in Int /\ f \in Int /\ \A i \in b..f : text[i] \in STRING
    BY <1>1 DEF Text
  <2> QED
    BY <1>1, <2>1, SubSeqProperties DEF Text
<1>3. CASE m <= n
  <2>1. /\ b \in 1..Len(text) /\ f \in 1..Len(text)
        /\ m \in 1..(f - b + 1) /\ n \in 1..(f - b + 1)
    BY <1>1, <1>2, <1>3
  <2> QED
    BY <1>2, <2>1, SubSeqOfSubSeq DEF Text
<1>4. CASE n < m
  BY <1>1, <1>2, <1>4, SubSeqEmpty
<1> QED
  BY <1>3, <1>4

LEMMA PieceType ==
    ASSUME NEW text \in Text, NEW b \in 1..(Len(text) + 1), NEW f \in (b - 1)..Len(text)
    PROVE  SubSeq(text, b, f) \in Text
<1>1. 1 \in Nat \ {0} /\ 0 \in Nat /\ 0 <= Len(SubSeq(text, b, f))
  BY DEF Text
<1> QED
  BY <1>1, PieceOfPiece

\* The target is at a position of a piece exactly when it is in the text there,
\* and ends where the piece does or before.
LEMMA PlacesOfPiece ==
    ASSUME NEW text \in Text, NEW target \in Text, target # <<>>,
           NEW b \in 1..(Len(text) + 1), NEW f \in (b - 1)..Len(text), NEW m \in Int
    PROVE  m \in Places(SubSeq(text, b, f), target)
           <=> /\ b + m - 1 \in Places(text, target)
               /\ m >= 1 /\ b + m - 1 + Len(target) - 1 <= f
<1> DEFINE piece == SubSeq(text, b, f)
           k == Len(target)
<1>1. Len(text) \in Nat /\ k \in Nat \ {0}
  BY DEF Text
<1>2. Len(piece) = f - b + 1
  BY <1>1, PieceOfPiece
<1> HIDE DEF k
<1>3. ASSUME m >= 1, m + k - 1 <= Len(piece)
      PROVE  SubSeq(piece, m, m + k - 1) = SubSeq(text, b + m - 1, b + m - 1 + k - 1)
  <2>1. m \in Nat \ {0} /\ m + k - 1 \in Nat
    BY <1>1, <1>3
  <2>2. SubSeq(piece, m, m + k - 1) = SubSeq(text, b + m - 1, b + (m + k - 1) - 1)
    BY <1>3, <2>1, PieceOfPiece
  <2>3. b + (m + k - 1) - 1 = b + m - 1 + k - 1
    BY <1>1
  <2> QED
    BY <2>2, <2>3
<1> HIDE DEF piece
<1>4. m \in 1..(Len(piece) - k + 1) <=> m >= 1 /\ b + m - 1 + k - 1 <= f
  BY <1>1, <1>2
<1>5. m >= 1 /\ b + m - 1 + k - 1 <= f => b + m - 1 \in 1..(Len(text) - k + 1)
                                          /\ m + k - 1 <= Len(piece)
  BY <1>1, <1>2
<1> QED
  BY <1>3, <1>4, <1>5 DEF Places, At, piece, k

---------------------------------------------------------------------------
(* A patch *)

LEMMA PatchTypes ==
    ASSUME NEW p \in Patches
    PROVE  /\ p.text \in Text /\ p.target \in Text /\ p.replacement \in Text
           /\ p.startLine \in LineNumbers /\ p.endLine \in LineNumbers
BY PatchAssumption DEF Patches, Text

LEMMA LinesGiven ==
    ASSUME LineNumbers \subseteq Nat, NEW p \in Patches
    PROVE  /\ StartIndex(p) \in Nat
           /\ StartIndex(p) = IF p.startLine = 0 THEN 0 ELSE p.startLine - 1
           /\ EndIndex(p) + 1 \in 1..LineCount(p.text)
           /\ EndIndex(p) + 1 = IF p.endLine = 0 \/ LineCount(p.text) <= p.endLine
                                THEN LineCount(p.text) ELSE p.endLine
<1>1. p.startLine \in Nat /\ p.endLine \in Nat /\ LineCount(p.text) \in Nat \ {0}
  BY PatchTypes, LineCountType
<1>2. p.startLine # 0 => Max({1, p.startLine}) = p.startLine
  <2>1. p.startLine # 0 => \A x \in {1, p.startLine} : p.startLine >= x
    BY <1>1
  <2>2. \A x \in {1, p.startLine} : (\A y \in {1, p.startLine} : x >= y) => x >= p.startLine
    OBVIOUS
  <2> QED
    BY <1>1, <2>1, <2>2 DEF Max
<1>3. Min({LineCount(p.text), p.endLine}) =
         IF LineCount(p.text) <= p.endLine THEN LineCount(p.text) ELSE p.endLine
  BY <1>1, MinOfTwo
<1> QED
  BY <1>1, <1>2, <1>3 DEF StartIndex, EndIndex

\* The lines given are those of the range: the target is within them exactly
\* when it is within that piece of the text.
LEMMA WithinLines ==
    ASSUME LineNumbers \subseteq Nat, NEW p \in Patches, p.target # <<>>,
           NEW from, from = StartIndex(p), NEW to, to = EndIndex(p) + 1
    PROVE  PlacesInRange(p) =
              IF from < to
              THEN {i \in Places(p.text, p.target) :
                       Begin(p.text, from) <= i /\ i + Len(p.target) - 1 <= Ends(p.text, to)}
              ELSE {}
<1> DEFINE t == p.text
           k == Len(p.target)
           n == LineCount(t)
<1>1. t \in Text /\ p.target \in Text /\ k \in Nat \ {0} /\ Len(t) \in Nat /\ n \in Nat \ {0}
  BY PatchTypes, LineCountType DEF Text
<1>2. p.startLine \in Nat /\ p.endLine \in Nat
  BY PatchTypes
<1>3. from \in Nat /\ to \in 1..n
      /\ from = (IF p.startLine = 0 THEN 0 ELSE p.startLine - 1)
      /\ to = (IF p.endLine = 0 \/ n <= p.endLine THEN n ELSE p.endLine)
  BY LinesGiven
<1>4. ASSUME NEW i \in Places(t, p.target)
      PROVE  /\ i \in 1..Len(t) /\ i + k \in 1..(Len(t) + 1)
             /\ LineOf(t, i) \in Nat \ {0} /\ LineOf(t, i + k) \in Nat
             /\ LineOf(t, i) <= LineOf(t, i + k) /\ LineOf(t, i + k) <= n
  <2>1. i \in 1..(Len(t) - k + 1)
    BY DEF Places
  <2> HIDE DEF t, k
  <2>9. i \in 1..Len(t) /\ i + k \in 1..(Len(t) + 1)
    BY <1>1, <2>1
  <2>2. /\ i \in Nat \ {0} /\ i + k \in Nat \ {0} /\ i <= i + k /\ i + k <= Len(t) + 1
        /\ Len(t) + 1 \in Nat
    BY <1>1, <2>9
  <2>3. n = LineOf(t, Len(t) + 1)
    BY DEF LineCount
  <2> QED
    BY <2>9, <2>2, <2>3, LinesGrow
<1>5. ASSUME NEW i \in Places(t, p.target)
      PROVE  /\ (p.startLine # 0 => LineOf(t, i) >= p.startLine) <=> LineOf(t, i) > from
             /\ (p.endLine # 0 => LineOf(t, i + k) <= p.endLine) <=> LineOf(t, i + k) <= to
  BY <1>2, <1>3, <1>4, <1>1
<1>6. PlacesInRange(p) = {i \in Places(t, p.target) :
                             LineOf(t, i) > from /\ LineOf(t, i + k) <= to}
  BY <1>5 DEF PlacesInRange
<1>7. CASE from < to
  <2>1. from < n /\ to <= n
    BY <1>1, <1>3, <1>7
  <2>2. ASSUME NEW i \in Places(t, p.target)
        PROVE  LineOf(t, i) > from <=> Begin(t, from) <= i
    <3>1. i \in 1..(Len(t) + 1) /\ (LineOf(t, i) > from <=> i >= Begin(t, from))
      BY <1>1, <1>3, <1>4, <2>1, Begins
    <3>2. Begin(t, from) \in 1..(Len(t) + 1)
      BY <1>1, <1>3, <2>1, Begins
    <3> QED
      BY <1>1, <3>1, <3>2
  <2>3. ASSUME NEW i \in Places(t, p.target)
        PROVE  LineOf(t, i + k) <= to <=> i + k - 1 <= Ends(t, to)
    <3>1. CASE to = n
      BY <1>1, <1>4, <3>1 DEF Ends
    <3>2. CASE to < n
      <4>1. /\ Begin(t, to) \in 1..(Len(t) + 1)
            /\ \A j \in 1..(Len(t) + 1) : LineOf(t, j) > to <=> j >= Begin(t, to)
        BY <1>1, <1>3, <3>2, Begins
      <4>2. Ends(t, to) = Begin(t, to) - 2
        BY <1>1, <1>3, <3>2 DEF Ends
      <4>3. i \in Int /\ i + k \in 1..(Len(t) + 1) /\ LineOf(t, i + k) \in Nat
        BY <1>4
      <4>4. LineOf(t, i + k) > to <=> i + k >= Begin(t, to)
        BY <4>1, <4>3
      <4> HIDE DEF t, k
      <4> QED
        BY <1>1, <1>3, <4>1, <4>2, <4>3, <4>4
    <3> QED
      BY <1>1, <1>3, <3>1, <3>2
  <2> QED
    BY <1>6, <1>7, <2>2, <2>3
<1>8. CASE ~(from < to)
  <2>1. \A i \in Places(t, p.target) : ~(LineOf(t, i) > from /\ LineOf(t, i + k) <= to)
    BY <1>1, <1>3, <1>4, <1>8
  <2> QED
    BY <1>6, <1>8, <2>1
<1> QED
  BY <1>7, <1>8

\* Concatenation, for the steps that only regroup it.
Cat(s, t) == s \o t

\* A replacement between two pieces on either side, grouped the other way.
LEMMA FivePieces ==
    ASSUME NEW a \in Text, NEW b \in Text, NEW c \in Text, NEW d \in Text, NEW e \in Text
    PROVE  Cat(Cat(a, Cat(Cat(b, c), d)), e) = Cat(Cat(Cat(a, b), c), Cat(d, e))
<1>1. \A s, t \in Text : Cat(s, t) \in Text
  BY DEF Text, Cat
<1>2. \A s, t, u \in Seq(STRING) : (s \o t) \o u = s \o (t \o u)
  BY ConcatAssociative
<1>3. \A s, t, u \in Text : Cat(Cat(s, t), u) = Cat(s, Cat(t, u))
  BY <1>2 DEF Text, Cat
<1>4. Cat(b, c) \in Text /\ Cat(a, b) \in Text /\ Cat(Cat(a, b), c) \in Text
  BY <1>1
<1> QED
  BY <1>3, <1>4

\* What takes the place of k characters of a piece takes their place in the text.
Spliced(text, b, f, m, k, x) ==
    LET piece == SubSeq(text, b, f)
        i == b + m - 1 IN
    Cat(Cat(SubSeq(text, 1, b - 1),
            Cat(Cat(SubSeq(piece, 1, m - 1), x), SubSeq(piece, m + k, Len(piece)))),
        SubSeq(text, f + 1, Len(text)))
    = Cat(Cat(SubSeq(text, 1, i - 1), x), SubSeq(text, i + k, Len(text)))

LEMMA SplicedInPiece ==
    ASSUME NEW text \in Text, NEW x \in Text,
           NEW b \in 1..(Len(text) + 1), NEW f \in (b - 1)..Len(text),
           NEW m \in Nat \ {0}, NEW k \in Nat \ {0}, b + m - 1 + k - 1 <= f
    PROVE  Spliced(text, b, f, m, k, x)
<1> SUFFICES ASSUME NEW piece, piece = SubSeq(text, b, f), NEW i, i = b + m - 1
             PROVE  Cat(Cat(SubSeq(text, 1, b - 1),
                            Cat(Cat(SubSeq(piece, 1, m - 1), x),
                                SubSeq(piece, m + k, Len(piece)))),
                        SubSeq(text, f + 1, Len(text)))
                    = Cat(Cat(SubSeq(text, 1, i - 1), x), SubSeq(text, i + k, Len(text)))
  BY DEF Spliced
<1>1. /\ Len(text) \in Nat /\ i \in Nat \ {0} /\ i + k - 1 <= f
      /\ m \in Nat \ {0} /\ k \in Nat \ {0}
  BY DEF Text
<1>2. Len(piece) = f - b + 1
  BY <1>1, PieceOfPiece
<1>3. SubSeq(piece, 1, m - 1) = SubSeq(text, b, i - 1)
  <2>1. m - 1 \in Nat /\ 1 \in Nat \ {0} /\ m - 1 <= Len(piece)
    BY <1>1, <1>2
  <2>2. b + 1 - 1 = b /\ b + (m - 1) - 1 = i - 1
    BY <1>1, <1>2
  <2>3. SubSeq(piece, 1, m - 1) = SubSeq(text, b + 1 - 1, b + (m - 1) - 1)
    BY <1>1, <2>1, PieceOfPiece
  <2> QED
    BY <2>2, <2>3
<1>4. SubSeq(piece, m + k, Len(piece)) = SubSeq(text, i + k, f)
  <2>1. m + k \in Nat \ {0} /\ Len(piece) \in Nat /\ Len(piece) <= Len(piece)
    BY <1>1, <1>2
  <2>2. b + (m + k) - 1 = i + k /\ b + Len(piece) - 1 = f
    BY <1>1, <1>2
  <2>3. SubSeq(piece, m + k, Len(piece)) = SubSeq(text, b + (m + k) - 1, b + Len(piece) - 1)
    BY <1>1, <2>1, PieceOfPiece
  <2> QED
    BY <2>2, <2>3
<1>5. SubSeq(text, 1, b - 1) \o SubSeq(text, b, i - 1) = SubSeq(text, 1, i - 1)
  <2>1. 1 \in 1..(Len(text) + 1) /\ b - 1 \in (1 - 1)..Len(text) /\ i - 1 \in (b - 1)..Len(text)
        /\ (b - 1) + 1 = b
    BY <1>1
  <2>2. SubSeq(text, 1, b - 1) \o SubSeq(text, (b - 1) + 1, i - 1) = SubSeq(text, 1, i - 1)
    BY <2>1, ConcatAdjacentSubSeq DEF Text
  <2> QED
    BY <2>1, <2>2
<1>6. SubSeq(text, i + k, f) \o SubSeq(text, f + 1, Len(text)) = SubSeq(text, i + k, Len(text))
  <2>1. i + k \in 1..(Len(text) + 1) /\ f \in ((i + k) - 1)..Len(text)
        /\ Len(text) \in f..Len(text)
    BY <1>1
  <2> DEFINE n == i + k
             e == Len(text)
  <2>2. n \in 1..(Len(text) + 1) /\ f \in (n - 1)..Len(text) /\ e \in f..Len(text)
    BY <2>1
  <2> HIDE DEF n, e
  <2>3. SubSeq(text, n, f) \o SubSeq(text, f + 1, e) = SubSeq(text, n, e)
    BY <2>2, ConcatAdjacentSubSeq DEF Text
  <2> QED
    BY <2>3 DEF n, e
<1> DEFINE u == SubSeq(text, 1, b - 1)
           v == SubSeq(text, b, i - 1)
           w == SubSeq(text, i + k, f)
           z == SubSeq(text, f + 1, Len(text))
<1>7. u \in Text /\ v \in Text /\ w \in Text /\ z \in Text /\ x \in Text
  <2>1. \A c, d \in Int : 1 <= c /\ d <= Len(text) => SubSeq(text, c, d) \in Text
    BY DEF Text
  <2>2. u \in Text
    BY <1>1, <2>1
  <2>3. v \in Text
    BY <1>1, <2>1
  <2>4. w \in Text
    BY <1>1, <2>1
  <2>5. z \in Text
    BY <1>1, <2>1
  <2> QED
    BY <2>2, <2>3, <2>4, <2>5 DEF Text
<1>8. Cat(u, v) = SubSeq(text, 1, i - 1) /\ Cat(w, z) = SubSeq(text, i + k, Len(text))
  BY <1>5, <1>6 DEF Cat
<1>9. Cat(Cat(u, Cat(Cat(v, x), w)), z) = Cat(Cat(Cat(u, v), x), Cat(w, z))
  <2> HIDE DEF u, v, w, z
  <2> QED
    BY <1>7, FivePieces
<1> QED
  BY <1>3, <1>4, <1>8, <1>9

LEMMA PlacesAreNumbers == ASSUME NEW text, NEW target PROVE Places(text, target) \subseteq Nat
BY DEF Places

\* Replacing in a piece replaces in the text.
ReplacedAt(text, target, replacement, b, f, i) ==
    /\ i \in Places(text, target) /\ b <= i /\ i + Len(target) - 1 <= f
    /\ Cat(Cat(SubSeq(text, 1, b - 1), ReplaceFirst(SubSeq(text, b, f), target, replacement)),
           SubSeq(text, f + 1, Len(text)))
       = Cat(Cat(SubSeq(text, 1, i - 1), Expand(replacement, target)),
             SubSeq(text, i + Len(target), Len(text)))

LEMMA ReplacedInPiece ==
    ASSUME NEW text \in Text, NEW target \in Text, target # <<>>, NEW replacement \in Text,
           NEW b \in 1..(Len(text) + 1), NEW f \in (b - 1)..Len(text),
           Places(SubSeq(text, b, f), target) # {},
           NEW m \in Nat, m = Min(Places(SubSeq(text, b, f), target)),
           NEW i \in Int, i = b + m - 1
    PROVE  ReplacedAt(text, target, replacement, b, f, i)
<1> DEFINE piece == SubSeq(text, b, f)
           x == Expand(replacement, target)
           k == Len(target)
<1>1. x \in Seq(STRING) /\ k \in Nat \ {0}
  BY ExpandType DEF Text
<1>2. m \in Places(piece, target)
  BY PlacesAreNumbers, MinIs
<1>3. ReplaceFirst(piece, target, replacement)
      = Cat(Cat(SubSeq(piece, 1, m - 1), x), SubSeq(piece, m + k, Len(piece)))
  BY DEF ReplaceFirst, Cat
<1> HIDE DEF x, piece
<1>4. b + m - 1 \in Places(text, target) /\ m >= 1 /\ b + m - 1 + k - 1 <= f
  BY <1>2, PlacesOfPiece DEF piece
<1>5. i \in Places(text, target)
  BY <1>4
<1>6. Cat(Cat(SubSeq(text, 1, b - 1),
              Cat(Cat(SubSeq(piece, 1, m - 1), x), SubSeq(piece, m + k, Len(piece)))),
          SubSeq(text, f + 1, Len(text)))
      = Cat(Cat(SubSeq(text, 1, i - 1), x), SubSeq(text, i + k, Len(text)))
  <2> HIDE DEF k
  <2>1. /\ text \in Text /\ x \in Text /\ b \in 1..(Len(text) + 1) /\ f \in (b - 1)..Len(text)
        /\ m \in Nat \ {0} /\ k \in Nat \ {0} /\ b + m - 1 + k - 1 <= f
    BY <1>1, <1>4 DEF Text
  <2>2. Spliced(text, b, f, m, k, x)
    BY ONLY <2>1, SplicedInPiece
  <2> QED
    BY <1>4, <2>2 DEF Spliced, piece
<1>7. i \in Places(text, target) /\ b <= i /\ i + Len(target) - 1 <= f
  <2> HIDE DEF k
  <2>1. b <= i /\ i + k - 1 <= f
    BY <1>1, <1>4
  <2> QED
    BY <1>5, <2>1 DEF k
<1> QED
  BY <1>3, <1>6, <1>7 DEF x, piece, ReplacedAt

LEMMA PlacesCounted ==
    ASSUME NEW T, T \subseteq Nat, NEW n \in Nat, \A i \in T : i <= n, Cardinality(T) = 1
    PROVE  \E x : T = {x}
<1>1. IsFiniteSet(0..n) /\ T \subseteq 0..n
  BY FS_Interval
<1>2. IsFiniteSet(T)
  BY <1>1, FS_Subset
<1> QED
  BY <1>2, FS_Singleton

\* What PatchTouchesOneSpot asks of a patch that is done.
Spot(p, result) ==
    IF result.status = "patched"
    THEN \E i \in PlacesInRange(p) : result = Patched(Replaced(p, i))
    ELSE Cardinality(PlacesInRange(p)) # 1

LEMMA NoPlaceRefused ==
    ASSUME NEW p, PlacesInRange(p) = {} PROVE Spot(p, Refusal)
BY FS_EmptySet DEF Spot, Refusal

LEMMA PlacesBound ==
    ASSUME NEW text \in Text, NEW target \in Text, NEW i \in Places(text, target)
    PROVE  i <= Len(text) + 1
<1>1. Len(text) \in Nat /\ Len(target) \in Nat /\ i \in 1..(Len(text) - Len(target) + 1)
  BY DEF Places, Text
<1> QED
  BY <1>1

\* A patch without lines.
LEMMA WholePatched ==
    ASSUME NEW p \in Patches, p.target # <<>>, p.startLine = 0, p.endLine = 0
    PROVE  Spot(p, PatchWhole(p))
<1> DEFINE places == Places(p.text, p.target)
<1>1. p.text \in Text /\ p.target \in Text
  BY PatchTypes
<1>2. PlacesInRange(p) = places
  BY DEF PlacesInRange
<1>3. CASE Occurrences(p.text, p.target) # 1
  <2>1. PatchWhole(p) = Refusal
    BY <1>3 DEF PatchWhole
  <2>2. Cardinality(places) # 1
    <3> SUFFICES ASSUME Cardinality(places) = 1 PROVE FALSE
      OBVIOUS
    <3>1. Len(p.text) + 1 \in Nat
      BY <1>1 DEF Text
    <3>2. places \subseteq Nat
      BY PlacesAreNumbers
    <3>3. \A i \in places : i <= Len(p.text) + 1
      BY <1>1, PlacesBound
    <3>4. \E x : places = {x}
      <4> HIDE DEF places
      <4> DEFINE n == Len(p.text) + 1
      <4>1. n \in Nat /\ \A i \in places : i <= n
        BY <3>1, <3>3
      <4> HIDE DEF n
      <4> QED
        BY <3>2, <4>1, PlacesCounted
    <3> QED
      BY <1>1, <1>3, <3>4, OnePlace
  <2> QED
    BY <1>2, <2>1, <2>2 DEF Spot, Refusal
<1>4. CASE Occurrences(p.text, p.target) = 1
  <2>1. Min(places) \in places
    BY <1>1, <1>4, OnePlace
  <2>2. PatchWhole(p) = Patched(ReplaceFirst(p.text, p.target, p.replacement))
    BY <1>4 DEF PatchWhole
  <2>3. ReplaceFirst(p.text, p.target, p.replacement) = Replaced(p, Min(places))
    BY DEF ReplaceFirst, Replaced
  <2>4. Patched(Replaced(p, Min(places))).status = "patched"
    BY DEF Patched
  <2> QED
    BY <1>2, <2>1, <2>2, <2>3, <2>4 DEF Spot
<1> QED
  BY <1>3, <1>4

\* A patch within lines.
LEMMA RangePatched ==
    ASSUME LineNumbers \subseteq Nat, NEW p \in Patches, p.target # <<>>
    PROVE  Spot(p, PatchRange(p))
<1> DEFINE t == p.text
           k == Len(p.target)
           from == StartIndex(p)
           to == EndIndex(p) + 1
           range == Joined(t, from, to)
           before == IF from > 0 THEN Joined(t, 0, from) \o <<Newline>> ELSE <<>>
           after == IF to - 1 < LineCount(t) - 1 THEN <<Newline>> \o JoinedFrom(t, to) ELSE <<>>
<1>1. t \in Text /\ p.target \in Text /\ p.replacement \in Text
      /\ k \in Nat \ {0} /\ Len(t) \in Nat /\ LineCount(t) \in Nat \ {0}
  BY PatchTypes, LineCountType DEF Text
<1>2. from \in Nat /\ to \in Nat /\ to <= LineCount(t) /\ EndIndex(p) = to - 1
  <2>1. to \in 1..LineCount(t) /\ from \in Nat
    BY LinesGiven
  <2>2. EndIndex(p) \in Int
    <3>1. LineCount(t) \in Int /\ Min({LineCount(t), p.endLine}) \in Int
      <4>1. p.endLine \in Nat
        BY PatchTypes
      <4> QED
        BY <1>1, <4>1, MinOfTwo
    <3> QED
      BY <3>1 DEF EndIndex
  <2> QED
    BY <1>1, <2>1, <2>2
<1>3. PatchRange(p) =
         IF ~Found(range, p.target) \/ Occurrences(range, p.target) > 1 THEN Refusal
         ELSE Patched((before \o ReplaceFirst(range, p.target, p.replacement)) \o after)
  BY <1>2 DEF PatchRange
<1>4. Found(range, p.target) <=> Places(range, p.target) # {}
  BY DEF Found
<1>5. PlacesInRange(p) =
         IF from < to
         THEN {i \in Places(t, p.target) : Begin(t, from) <= i /\ i + k - 1 <= Ends(t, to)}
         ELSE {}
  BY WithinLines
<1>6. CASE ~(from < to)
  <2>1. range = <<>>
    BY <1>1, <1>2, <1>6, JoinedLines
  <2>2. Places(<<>>, p.target) = {}
    BY <1>1 DEF Places
  <2>3. PatchRange(p) = Refusal
    BY <1>3, <1>4, <2>1, <2>2
  <2> QED
    BY <1>5, <1>6, <2>3, NoPlaceRefused
<1>7. CASE from < to
  <2> DEFINE b == Begin(t, from)
             f == Ends(t, to)
             places == Places(range, p.target)
  <2>1. range = SubSeq(t, b, f)
    BY <1>1, <1>2, <1>7, JoinedLines
  <2>2. b \in 1..(Len(t) + 1) /\ f \in (b - 1)..Len(t)
    BY <1>1, <1>2, <1>7, Ranges
  <2>3. before = SubSeq(t, 1, b - 1) /\ after = SubSeq(t, f + 1, Len(t))
    BY <1>1, <1>2, <1>7, AroundRange
  <2>4. PlacesInRange(p) = {i \in Places(t, p.target) : b <= i /\ i + k - 1 <= f}
    BY <1>5, <1>7
  <2> HIDE DEF t, k, from, to, range, before, after, b, f
  <2>5. ASSUME NEW i \in Int PROVE i \in PlacesInRange(p) <=> i - b + 1 \in places
    <3> DEFINE m == i - b + 1
    <3>1. m \in Int /\ b + m - 1 = i /\ (m >= 1 <=> b <= i) /\ b \in Int
      BY <2>2
    <3> HIDE DEF m
    <3>2. m \in Places(SubSeq(t, b, f), p.target)
          <=> b + m - 1 \in Places(t, p.target) /\ m >= 1 /\ b + m - 1 + Len(p.target) - 1 <= f
      BY <1>1, <2>2, <3>1, PlacesOfPiece
    <3>3. m \in places <=> i \in Places(t, p.target) /\ b <= i /\ i + k - 1 <= f
      BY <2>1, <3>1, <3>2 DEF k
    <3> QED
      BY <2>4, <3>3 DEF m
  <2>6. PlacesInRange(p) \subseteq Nat /\ places \subseteq Nat
    BY <2>4, PlacesAreNumbers
  <2>7. CASE places = {}
    <3>1. PlacesInRange(p) = {}
      BY <2>5, <2>6, <2>7
    <3> QED
      BY <1>3, <1>4, <2>7, <3>1, NoPlaceRefused
  <2>8. CASE Occurrences(range, p.target) > 1
    <3>1. ASSUME Cardinality(PlacesInRange(p)) = 1 PROVE FALSE
      <4>1. \A i \in PlacesInRange(p) : i <= Len(t)
        BY <1>1, <2>2, <2>4, <2>6
      <4>2. PICK x : PlacesInRange(p) = {x}
        <5> DEFINE T == PlacesInRange(p)
                   n == Len(t)
        <5>1. T \subseteq Nat /\ n \in Nat /\ (\A i \in T : i <= n) /\ Cardinality(T) = 1
          BY <1>1, <2>6, <3>1, <4>1
        <5> HIDE DEF T, n
        <5>2. \E x : T = {x}
          BY <5>1, PlacesCounted
        <5> QED
          BY <5>2 DEF T
      <4>3. x \in Nat /\ b \in Int
        BY <2>2, <2>6, <4>2
      <4>4. places = {x - b + 1}
        <5>1. x - b + 1 \in places
          BY <2>5, <4>2, <4>3
        <5>2. ASSUME NEW m \in places PROVE m = x - b + 1
          <6>1. m \in Nat /\ m + b - 1 \in Int /\ (m + b - 1) - b + 1 = m
            BY <2>6, <4>3
          <6>2. m + b - 1 \in PlacesInRange(p)
            BY <2>5, <6>1
          <6> QED
            BY <4>2, <4>3, <6>1, <6>2
        <5> QED
          BY <5>1, <5>2
      <4>5. range \in Text
        BY <1>1, <2>1, <2>2, PieceType
      <4>6. Occurrences(range, p.target) = 1
        BY <1>1, <4>4, <4>5, OnePlace
      <4> QED
        BY <2>8, <4>6
    <3>2. PatchRange(p) = Refusal
      BY <1>3, <2>8
    <3> QED
      BY <3>1, <3>2 DEF Spot, Refusal
  <2>9. CASE places # {} /\ ~(Occurrences(range, p.target) > 1)
    <3> DEFINE m == Min(places)
               i == b + m - 1
    <3>1. m \in places /\ m \in Nat
      BY <2>6, <2>9, MinIs
    <3>2. i \in Int
      BY <2>2, <3>1
    <3> HIDE DEF m, i
    <3>3. /\ i \in Places(t, p.target) /\ b <= i /\ i + Len(p.target) - 1 <= f
          /\ Cat(Cat(SubSeq(t, 1, b - 1), ReplaceFirst(range, p.target, p.replacement)),
                 SubSeq(t, f + 1, Len(t)))
             = Cat(Cat(SubSeq(t, 1, i - 1), Expand(p.replacement, p.target)),
                   SubSeq(t, i + Len(p.target), Len(t)))
      <4> DEFINE target == p.target
                 replacement == p.replacement
      <4>1. /\ t \in Text /\ target \in Text /\ target # <<>> /\ replacement \in Text
            /\ b \in 1..(Len(t) + 1) /\ f \in (b - 1)..Len(t)
            /\ Places(SubSeq(t, b, f), target) # {}
            /\ m \in Nat /\ m = Min(Places(SubSeq(t, b, f), target))
            /\ i \in Int /\ i = b + m - 1
        BY <1>1, <2>1, <2>2, <2>9, <3>1, <3>2 DEF m, i
      <4> HIDE DEF places, target, replacement
      <4>2. ReplacedAt(t, target, replacement, b, f, i)
        BY ONLY <4>1, ReplacedInPiece
      <4> QED
        BY <2>1, <4>2 DEF ReplacedAt, target, replacement
    <3>4. (before \o ReplaceFirst(range, p.target, p.replacement)) \o after = Replaced(p, i)
      BY <2>3, <3>3 DEF Replaced, Cat, t
    <3>5. PatchRange(p) = Patched(Replaced(p, i))
      BY <1>3, <1>4, <2>9, <3>4
    <3>6. i \in PlacesInRange(p)
      BY <2>4, <3>3 DEF k
    <3>7. PatchRange(p).status = "patched"
      BY <3>5 DEF Patched
    <3> QED
      BY <3>5, <3>6, <3>7 DEF Spot
  <2> QED
    BY <2>7, <2>8, <2>9
<1> QED
  BY <1>6, <1>7

\* A patch that is done is what patchFileHelper makes of the request.
PatchInv == patch \in Patches /\ (outcome = Pending \/ outcome = PatchFile(patch))

\* Whatever the text and the target, however many lines and wherever they end:
\* patchFileHelper (mcp-server.ts 335) either puts the replacement in the place
\* of one occurrence of the target within the lines given and changes nothing
\* else, or refuses, and then the target is not there exactly once.  The lines
\* are counted from 1, as the tool declares them (628, 632), 0 standing for a
\* line not given: a negative endLine is one from the end to slice, and none
\* to a reader.
THEOREM OneSpotPatched ==
    ASSUME LineNumbers \subseteq Nat PROVE PatchSpec => []PatchTouchesOneSpot
<1>1. PatchInit => PatchInv
  BY DEF PatchInit, PatchInv
<1>2. PatchInv /\ [Patch]_patchVars => PatchInv'
  BY DEF PatchInv, Patch, patchVars
<1>3. PatchInv => PatchTouchesOneSpot
  <2> SUFFICES ASSUME PatchInv, patch.target # <<>>, outcome # Pending
               PROVE  Spot(patch, outcome)
    BY DEF PatchTouchesOneSpot, Spot
  <2>1. patch \in Patches /\ outcome = PatchFile(patch)
    BY DEF PatchInv
  <2>2. CASE patch.startLine = 0 /\ patch.endLine = 0
    BY <2>1, <2>2, WholePatched DEF PatchFile
  <2>3. CASE ~(patch.startLine = 0 /\ patch.endLine = 0)
    BY <2>1, <2>3, RangePatched DEF PatchFile
  <2> QED
    BY <2>2, <2>3
<1> QED
  BY <1>1, <1>2, <1>3, PTL DEF PatchSpec

=============================================================================
