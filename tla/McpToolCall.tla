---------------------------- MODULE McpToolCall ----------------------------
(***************************************************************************)
(* tools/call of mcp-server.ts: one handler per tool, each a sequence of   *)
(* the sanitary checks before the first await, the policy decision, the    *)
(* effect, the command log and the receipt.  Handlers interleave at their  *)
(* awaits, over stdio and over POST /mcp; an effect runs to its end in one *)
(* step (execFileSync, writeFileSync).  Every await on the store may throw *)
(* and the process may die.                                                *)
(*                                                                         *)
(* How the policy is evaluated, and how receipts are chained, are other    *)
(* components: here the policy answers anything, and the receipts are the  *)
(* set of those recorded.                                                  *)
(***************************************************************************)
EXTENDS Naturals, FiniteSets

CONSTANTS
    Calls,      \* tool calls; each is made once
    MaxFaults   \* bound: failures of the store

ASSUME CallAssumption == MaxFaults \in Nat

Editing == {"write_file", "patch_file"}
Looking == {"read_file", "search_code", "list_directory"}
ToolNames == {"execute_command"} \cup Editing \cup Looking

\* Tools whose denials count towards a quarantine, and tools that are logged.
CountedTools == {"execute_command", "read_file"} \cup Editing
LoggedTools == {"execute_command"} \cup Editing

VARIABLES
    calls,
    logs,         \* command log entries
    receipts,     \* audit receipts
    keyed,        \* a signing key can be loaded
    synthesized,  \* crossFunctionalSynthesized of the server's IBP tracker
    faults,       \* store failures so far
    stale         \* history: a file was edited since the last synthesis

toolVars == <<calls, logs, receipts, keyed, synthesized, faults, stale>>

\* outcome is what the receipt's reason says.  The rest is history: decided,
\* an engine decided the call; effect; disturbed, a store failure, a reset or a
\* crash met the call; unsigned, no key was there to sign its receipt.
Call == [pc : {"idle", "context", "decide", "violation", "log", "mint", "answered", "lost"},
         tool : ToolNames,
         decision : {"deny", "allow"},
         outcome : {"none", "audit", "sensitive", "cedar", "boundary", "success", "error"},
         decided : BOOLEAN,
         effect : {"none", "done", "failed"},
         disturbed : BOOLEAN,
         unsigned : BOOLEAN]

Log == [call : Calls, status : {"success", "failed"}, decision : {"deny", "allow"}]
Receipt == [call : Calls, decision : {"deny", "allow"},
            outcome : {"audit", "sensitive", "cedar", "boundary", "success", "error"}]

ToolTypeOK ==
    /\ calls \in [Calls -> Call]
    /\ logs \subseteq Log
    /\ receipts \subseteq Receipt
    /\ keyed \in BOOLEAN
    /\ synthesized \in BOOLEAN
    /\ faults \in 0..MaxFaults
    /\ stale \in BOOLEAN

NoCall == [pc |-> "idle", tool |-> "execute_command", decision |-> "deny", outcome |-> "none",
           decided |-> FALSE, effect |-> "none", disturbed |-> FALSE, unsigned |-> FALSE]

ToolInit ==
    /\ calls = [c \in Calls |-> NoCall]
    /\ logs = {}
    /\ receipts = {}
    /\ keyed \in BOOLEAN
    /\ synthesized = TRUE
    /\ faults = 0
    /\ stale = FALSE

---------------------------------------------------------------------------
(* Before the first await *)

Become(c, call) == calls' = [calls EXCEPT ![c] = call]
Move(c, pc) == Become(c, [calls[c] EXCEPT !.pc = pc])
Rest == UNCHANGED <<logs, receipts, keyed, synthesized, faults, stale>>

Arrives(c, tool, call) ==
    /\ calls[c].pc = "idle"
    /\ Become(c, [call EXCEPT !.tool = tool])
    /\ Rest

\* A signature that does not verify, a parameter that is missing or a path
\* that is not relative: answered at once.
Block(c, tool) == Arrives(c, tool, [NoCall EXCEPT !.pc = "answered"])

\* The command audit refuses a command line.
AuditRefuses(c) ==
    Arrives(c, "execute_command",
            [NoCall EXCEPT !.pc = "log", !.decided = TRUE, !.outcome = "audit"])

\* A read outside the workspace is answered without a receipt, one of a
\* sensitive file is denied with one.
LookOutside(c, tool) == tool \in Looking /\ Arrives(c, tool, [NoCall EXCEPT !.pc = "answered"])
ReadSensitive(c) ==
    Arrives(c, "read_file",
            [NoCall EXCEPT !.pc = "mint", !.decided = TRUE, !.outcome = "sensitive"])

Ask(c, tool) == Arrives(c, tool, [NoCall EXCEPT !.pc = "context"])

\* submit_ibp_synthesis has neither policy nor receipt.
SubmitSynthesis ==
    /\ ~synthesized
    /\ synthesized' = TRUE
    /\ stale' = FALSE
    /\ UNCHANGED <<calls, logs, receipts, keyed, faults>>

---------------------------------------------------------------------------
(* The policy *)

\* getFullContext has read the quarantine record.
HaveContext(c) == calls[c].pc = "context" /\ Move(c, "decide") /\ Rest

CedarDenies(c) ==
    /\ calls[c].pc = "decide"
    /\ Become(c, [calls[c] EXCEPT !.decided = TRUE, !.outcome = "cedar",
                                  !.pc = IF calls[c].tool \in CountedTools THEN "violation" ELSE "mint"])
    /\ Rest

\* recordPrincipalViolation has returned.
ViolationCounted(c) ==
    /\ calls[c].pc = "violation"
    /\ Move(c, IF calls[c].tool = "execute_command" THEN "log" ELSE "mint")
    /\ Rest

---------------------------------------------------------------------------
(* The effect, in the step in which the policy allows *)

Permitted(c, outcome, effect, pc) ==
    /\ calls[c].pc = "decide"
    /\ Become(c, [calls[c] EXCEPT !.decided = TRUE, !.decision = "allow",
                                  !.outcome = outcome, !.effect = effect, !.pc = pc])

\* The sandbox script exits with 0, or not.
Execute(c) ==
    /\ calls[c].tool = "execute_command"
    /\ \/ Permitted(c, "success", "done", "log")
       \/ Permitted(c, "error", "failed", "log")
    /\ Rest

\* A path that resolves outside the workspace, and an edit that throws before
\* the file is written (no directory, a target that is not there or not unique).
EditOutside(c) ==
    calls[c].tool \in Editing /\ Permitted(c, "boundary", "none", "mint") /\ Rest
EditFails(c) ==
    calls[c].tool \in Editing /\ Permitted(c, "error", "failed", "mint") /\ Rest

\* Mutant of Edit: the tracker is not told.
EditUntold(c) ==
    /\ calls[c].tool \in Editing
    /\ Permitted(c, "success", "done", "log")
    /\ stale' = TRUE
    /\ UNCHANGED <<logs, receipts, keyed, synthesized, faults>>

\* The file is written and invalidateSynthesis called.
Edit(c) ==
    /\ calls[c].tool \in Editing
    /\ Permitted(c, "success", "done", "log")
    /\ synthesized' = FALSE
    /\ stale' = TRUE
    /\ UNCHANGED <<logs, receipts, keyed, faults>>

Look(c) ==
    /\ calls[c].tool \in Looking
    /\ \/ Permitted(c, "success", "done", "mint")
       \/ Permitted(c, "error", "failed", "mint")
    /\ Rest

---------------------------------------------------------------------------
(* The log and the receipt *)

\* Mutant of Status: an entry says what the policy said.
StatusByDecision(call) == IF call.decision = "allow" THEN "success" ELSE "failed"

Status(call) == IF call.outcome = "success" THEN "success" ELSE "failed"

LogOf(c) == [call |-> c, status |-> Status(calls[c]), decision |-> calls[c].decision]
ReceiptOf(c) == [call |-> c, decision |-> calls[c].decision, outcome |-> calls[c].outcome]

AddLog(c) ==
    /\ calls[c].pc = "log"
    /\ logs' = logs \cup {LogOf(c)}
    /\ Move(c, "mint")
    /\ UNCHANGED <<receipts, keyed, synthesized, faults, stale>>

\* Mutant of NoKey: the receipt is tried again until there is a key.
NoKeyRetry(c) ==
    /\ calls[c].pc = "mint"
    /\ ~keyed
    /\ Become(c, [calls[c] EXCEPT !.unsigned = TRUE])
    /\ Rest

\* Nothing to sign with: answered without a receipt.
NoKey(c) ==
    /\ calls[c].pc = "mint"
    /\ ~keyed
    /\ Become(c, [calls[c] EXCEPT !.pc = "answered", !.unsigned = TRUE])
    /\ Rest

\* Mutant of Mint: a look that found nothing is not receipted.
MintFoundLooks(c) ==
    /\ calls[c].pc = "mint"
    /\ keyed
    /\ receipts' = IF calls[c].tool \in Looking /\ calls[c].outcome = "error" THEN receipts
                   ELSE receipts \cup {ReceiptOf(c)}
    /\ Move(c, "answered")
    /\ UNCHANGED <<logs, keyed, synthesized, faults, stale>>

\* mintToolCallReceipt: signed, appended and found again.
Mint(c) ==
    /\ calls[c].pc = "mint"
    /\ keyed
    /\ receipts' = receipts \cup {ReceiptOf(c)}
    /\ Move(c, "answered")
    /\ UNCHANGED <<logs, keyed, synthesized, faults, stale>>

---------------------------------------------------------------------------
(* What goes wrong *)

\* Where a rejected await leads: the catch of the handler's try, which tries
\* the log once more for a command and answers an edit as an error; outside
\* it, out of the handler.  Minting swallows its own failures.
AfterFault(call) ==
    CASE call.pc = "log" /\ call.outcome = "success" /\ call.tool = "execute_command" ->
            [call EXCEPT !.outcome = "error"]
      [] call.pc = "log" /\ call.outcome = "success" /\ call.tool \in Editing ->
            [call EXCEPT !.outcome = "error", !.pc = "mint"]
      [] OTHER -> [call EXCEPT !.pc = "answered"]

\* A write that failed for its caller may have taken place.
StoreFails(c) ==
    /\ calls[c].pc \in {"context", "violation", "log", "mint"}
    /\ faults < MaxFaults
    /\ faults' = faults + 1
    /\ Become(c, [AfterFault(calls[c]) EXCEPT !.disturbed = TRUE])
    /\ logs' \in {logs, IF calls[c].pc = "log" THEN logs \cup {LogOf(c)} ELSE logs}
    /\ receipts' \in {receipts, IF calls[c].pc = "mint" /\ keyed
                                 THEN receipts \cup {ReceiptOf(c)} ELSE receipts}
    /\ UNCHANGED <<keyed, synthesized, stale>>

Running(call) == call.pc \notin {"idle", "answered", "lost"}

\* A process dies with its calls; stdio and HTTP are served by two.
Crash(dead) ==
    /\ dead # {}
    /\ \A c \in dead : Running(calls[c])
    /\ calls' = [c \in Calls |-> IF c \in dead
                                 THEN [calls[c] EXCEPT !.pc = "lost", !.disturbed = TRUE]
                                 ELSE calls[c]]
    /\ Rest

\* The gateway writes the key file; the key is looked for at every receipt
\* until it is found.
KeyWritten == ~keyed /\ keyed' = TRUE /\ UNCHANGED <<calls, logs, receipts, synthesized, faults, stale>>

\* clearDatabase
ClearRecords ==
    /\ logs # {} \/ receipts # {}
    /\ logs' = {} /\ receipts' = {}
    /\ calls' = [c \in Calls |-> [calls[c] EXCEPT !.disturbed = calls[c].pc # "idle"]]
    /\ UNCHANGED <<keyed, synthesized, faults, stale>>

---------------------------------------------------------------------------

CallStarts(c) ==
    \/ \E tool \in ToolNames : Block(c, tool) \/ LookOutside(c, tool) \/ Ask(c, tool)
    \/ AuditRefuses(c)
    \/ ReadSensitive(c)

CallGoesOn(c) ==
    \/ HaveContext(c)
    \/ CedarDenies(c)
    \/ ViolationCounted(c)
    \/ Execute(c)
    \/ EditOutside(c) \/ EditFails(c) \/ Edit(c)
    \/ Look(c)
    \/ AddLog(c)
    \/ NoKey(c) \/ Mint(c)

ToolNext ==
    \/ \E c \in Calls : CallStarts(c) \/ CallGoesOn(c) \/ StoreFails(c)
    \/ SubmitSynthesis
    \/ \E dead \in SUBSET Calls : Crash(dead)
    \/ KeyWritten
    \/ ClearRecords

\* The event loop runs what is ready; locks and queries end or throw.
ToolFairness == \A c \in Calls : WF_toolVars(CallGoesOn(c))

ToolSpec == ToolInit /\ [][ToolNext]_toolVars /\ ToolFairness

---------------------------------------------------------------------------
(* Properties *)

\* A call an engine decided and the server answered has one receipt, and that
\* receipt bears its decision, unless the store failed, a reset came or there
\* was no key.
DecidedCallsAreReceipted ==
    \A c \in Calls :
        LET call == calls[c]
            mine == {r \in receipts : r.call = c} IN
        /\ Cardinality(mine) <= 1
        /\ \A r \in mine : call.decided /\ r.decision = call.decision
        /\ call.pc = "answered" /\ call.decided /\ ~call.disturbed /\ ~call.unsigned => mine # {}

\* What is recorded as a success happened, and what is recorded as denied
\* touched nothing: through failures of the log after the effect, too.
RecordsTellTheTruth ==
    /\ \A l \in logs :
          /\ l.status = "success" => calls[l.call].effect = "done"
          /\ l.decision = "deny" => calls[l.call].effect = "none"
    /\ \A r \in receipts :
          /\ r.outcome = "success" => calls[r.call].effect = "done"
          /\ r.decision = "deny" => calls[r.call].effect = "none"

\* Until the next synthesis the gate is closed after an edit, from the moment
\* the file changes: also while the edit waits for its log, and after a crash.
EditClosesGate == stale => ~synthesized

\* No call hangs: whatever fails, it is answered or dies with the process.
CallsAreAnswered == \A c \in Calls : Running(calls[c]) ~> ~Running(calls[c])

\* README.md: "A tool call without a verifiable receipt did not happen."
NoEffectWithoutReceipt ==
    \A c \in Calls :
        /\ calls[c].pc \in {"answered", "lost"}
        /\ calls[c].effect = "done" /\ ~calls[c].unsigned
        => \E r \in receipts : r.call = c

\* The receipt of a call says "error" only if its effect failed.
ErrorsAreErrors ==
    \A r \in receipts : r.outcome = "error" => calls[r.call].effect = "failed"

=============================================================================
