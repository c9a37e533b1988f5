# FidusGate verification project

TLA+ models of FidusGate, the TLC runs that check them and the TLAPS proofs
about them. Paths are relative to the repository; `index.ts` is
`apps/secure-gateway/src/index.ts` and `db` is `packages/database/src/index.ts`
unless another package is named.

FidusGate is a gateway between software agents and the tools they use. It
decides requests by a Cedar policy, makes risky commands wait for votes of
several roles, runs them in a sandbox, and keeps a signed, hash-chained ledger.
It is one Node process, its MCP servers and a command auditor beside it, and a
store they share: JSON files, or Postgres through Prisma.

## 1. Inventory

| Component | State it keeps | Operations | What makes it correct | Here |
|---|---|---|---|---|
| Multi-role consensus (`index.ts` 1219-1460, 1886-2010, 2815-3010; `db` 860-1236; `cron-worker.ts`) | `PendingAction` rows and their approvals; timers of scheduled executions; the locals of requests between two awaits | queue, vote (two routes), override, expire, run in background or from the console, consume, reset | separation of duties; one vote per role and person; nothing runs without its quorum; an expired request stays dead; every request is settled | `Consensus`, `QuorumGate`, `ConsensusRefinement` |
| Circuit breaker (`index.ts` 107-168) | violation count, lock, cooldown | trip, expire, reset | a lockout stops every execution | inside `Consensus` |
| JSON table store (`db` 95-290, 1496-1529) | one file and one lock file per table | lock, break a stale lock, read, write through a rename, release, reset | mutual exclusion; no lost row; every call ends | `JsonStore`, `AtomicFile` |
| Audit receipt ledger (`index.ts` 1039-1163; `db` 514-625; `crypto-utils` 528-559; `mcp-server.ts` 145-178) | receipts, each with the digest of the one before | submit, mint, chain, read, verify | one chain, which verification accepts | `AuditChain` |
| Cedar policy (`policy.cedar`, `cedar-evaluator.ts`, `cedar-remote.ts`, `cedar-daemon`) | the rules in memory, in the daemon and on disk | decide, fail over | forbid overrides permit; failing over never allows more than the daemon would | `CedarPolicy`, `PolicyVerdicts` |
| Policy reload and apply (`index.ts` 300-365, 2740-2810) | the file, the evaluator of each process | edit, file event, reload, apply | a decision is by a policy in force; memory comes back to the file | `Authorization` |
| Principal quarantine (`index.ts` 142-168, `mcp-server.ts` 194-220, `db` 1405-1453) | a counter per principal and process; a JSON file | count a denial, quarantine, release, clear | consecutive denials quarantine, or are left counted when the file fails; a quarantined principal only reads | `Authorization` |
| Compliance trackers (`compliance-trackers.ts`, `routes/plm.ts`, `routes/findings.ts`) | three state files, and a copy in each process | file modified, pipeline, audit, tokens, synthesis, drift, release | a gate is open only if what opened it is newer than the last change the trackers were told of; a release had them all open | `ComplianceTrackers` |
| Budget extensions (`db` 1238-1403, `index.ts` 1739-1817) | requests and their status; three copies of the token budget | request, approve, reject | no budget without an approval | `BudgetExtensions` |
| MCP tool calls (`mcp-server.ts`, `mcp-http.ts`, `tool-call-receipt.ts`) | calls in flight, the server's synthesis gate | check, decide, act, log, mint; route a message; patch a text | records that tell the truth; a receipt per decision; one spot patched | `McpToolCall`, `McpHttp`, `PatchText` |
| Signing and KMS (`crypto-utils`, `index.ts` 370-520, `mcp-server.ts` 60-145) | a key file, a key per process, attested sessions | generate, load, sign, attest, verify | what was signed verifies | `ReceiptSigning` |
| Sandbox patch (`scripts/sandbox-execute.sh`, `scripts/apply-patch.sh`, `index.ts` 2090-2170) | a copy of the workspace per run, a patch per slot | run, diff, offer, merge, discard | failed commands leave nothing; a merge loses no later edit | `SandboxPatch` |
| Drift and reconciliation (`index.ts` 2172-2345) | drift rows | detect, reconcile, restore | a known drift is on the list until it is undone | `WorkspaceDrift` |
| Auto-throttle (`index.ts` 222-282) | a window of ten latencies | record, decay, gate | old times are forgotten; the gate reopens | `AutoThrottle` |
| Kill switch, sanitizers, interviews, back ends, record routes, dashboard, scripts | little or none | tests of one request; text analysis; queries | - | not modelled, section 8 |

How they meet:

- `POST /api/sandbox/execute` and the MCP tools call the policy, whose answer
  resets or advances the breaker and the quarantine counters. `Consensus` takes
  that traffic as the actions `PolicyAllow` and `PolicyDeny`; `Authorization` has
  the counters; `McpToolCall` lets the policy answer anything.
- The policy is evaluated over a context the trackers and the quarantine records
  make. `Authorization` takes the trackers' entries as open, `ComplianceTrackers`
  the quarantine's, and `PolicyVerdicts` tries the contexts themselves. All three
  evaluate with the operators of `CedarPolicy`.
- Consensus, ledger, budget and quarantine share the table store. `JsonStore`
  shows when a table operation may be taken as one atomic step; the other modules
  take it so where the store is a file.
- A receipt advances the trackers; the token budget of a tracker is what budget
  extensions raise; a tool call's receipt enters the ledger, signed by the keys of
  `ReceiptSigning`.
- A sandbox run that changes the workspace leaves a patch and is followed by a
  drift detection.
- `POST /api/reset` cuts across all of them without a lock. Each module that a
  reset reaches has it.
- WebSocket broadcasts tell the dashboard and are never read back.

What is hard to test here: a handler decides on what it read before an
`await`; the Postgres branch of an operation is several statements without a
transaction; the expiry worker, background executions and resets act on rows
others are using; several processes share files; a restart loses timers and
counters and keeps rows. `PROJECT.json` lists these hazards at their lines with
the properties that cover them, and why when none does.

## 2. Modules

| Module | What it is |
|---|---|
| `Consensus` | handlers, worker, timers, breaker and both stores |
| `QuorumGate` | what consensus promises: no handlers, snapshots, timers or storage |
| `ConsensusRefinement` | the mapping from the one to the other |
| `MCConsensus`, `ConsensusProofs` | people, commands and handlers for TLC; eight theorems |
| `JsonStore` | the lock-file protocol of one table, one step per file-system call |
| `AtomicFile` | what a table promises: each call is one atomic step or none |
| `MCJsonStore`, `JsonStoreProofs` | its instance; four theorems and four corollaries |
| `AuditChain` | submission, chaining on both stores, reading, verification |
| `MCAuditChain`, `AuditChainProofs` | its instance; four theorems |
| `CedarPolicy` | the rules, both evaluators and the simulator, as operators |
| `PolicyVerdicts` | one request judged by each engine in each process that calls it |
| `Authorization` | decisions of two processes against edits, reloads, quarantines and releases |
| `MCAuthorization`, `AuthorizationProofs` | requests and contexts; nine theorems, four about `PolicyVerdicts` |
| `ComplianceTrackers` | the three trackers, in two processes and on disk |
| `BudgetExtensions` | requests against the copies of the budget |
| `MCTrackers`, `TrackersProofs` | the instance of both; eight theorems |
| `McpToolCall`, `McpToolCallProofs` | tool calls cut at their awaits; six theorems, one about `McpHttp`, one about `PatchText` |
| `McpHttp`, `PatchText` | routing of one message; one patch of one text |
| `ReceiptSigning`, `ReceiptSigningProofs` | keys, sessions, providers; three theorems |
| `MCToolCalls` | the instance of these four |
| `SandboxPatch` | runs of the script, patches, merges |
| `WorkspaceDrift` | detections against restores |
| `AutoThrottle` | the latency window |
| `MCConsole`, `ConsoleProofs` | the instance of these three; eight theorems |

An instance module that serves several components has a variable `focus`, chosen
at the start, that says which of them moves; the others keep their initial state.

Some operators are marked as mutants: each is a plausible bug, unused by the
specification, that breaks a property when it takes the place of the operator
below it.

### Consensus

A Node handler runs without interruption between two awaits, so an action is
what lies between two awaits; a handler's program counter and locals are a
record in `handlers`.

- `ExecuteRead` ... `ExecuteRefused`: `POST /api/sandbox/execute`. It reads one
  snapshot (`ExecuteRead`), consumes an approval it found (`ExecuteComplete`),
  then in one uninterrupted piece is refused by the breaker, queued, run, or
  refused by the allowlist. The consumption comes before the refusals, and a WASI
  command runs before the allowlist is consulted, as in the code.
- `ApproveRead`, `Vote*`: `POST /api/consensus/requests/approve`, and
  `addConsensusApproval`: one step on the file (`VoteJson`), four on Postgres
  (`VoteFind`, `VoteInsert`, `VoteReread`, `VoteMark`). `Schedule` is what the
  route does with the row it gets back; `RunJob` is the 100 ms timer.
- `Legacy*`: `POST /api/consensus/approve`, which answers only with Prisma and
  counts the initiator as a signature.
- `Override`, `Reset`, `SweepRead`, `SweepExpire`: the override route,
  `POST /api/reset` and `cron-worker.ts`. A reset on Postgres deletes the rows and
  throws before it reaches the breaker.
- `StoreFails`: a store call throws and the handler answers 500. In
  production the fallback from Postgres to JSON is refused (`db` 15-28).
- `TimeRunsOut`, `CooldownElapses`, `PolicyAllow`, `PolicyDeny`, `Restart`: time,
  other traffic and the death of the process, after which only rows survive.

Abstracted: a command is a model value with the classes the code computes from
its text (`Gated`, `Dangerous`, `Allowlisted`, `Wasi`); expiry is a set of
overdue rows instead of a clock; the initiator's pre-signed receipt and the
votes' signatures are valid. The violation count saturates at the limit. The
command log, latency window, drift scan and broadcasts of a run are left out. The
seccomp block at `index.ts` 1319-1351 is not an action: the same block has queued
the command before. Sweeps do not overlap: a sweep would have to last 10 s.
`runs` is a history variable, by route; a console run is counted for an action
only when it consumed one.

`QuorumGate` grants a request at the moment its last vote is cast and has no way
to run one without votes; `ConsensusRefinement` maps status to phase and
approvals to a set of votes.

### JsonStore

One action per file-system call of `lockAndModifyAsync`: `TryLock` (create with
`wx`), `Stat`, `Break` (unlink a lock older than 10 s), `Wait` (give up after 5 s
or sleep), `LockFails` (any other error is thrown on), `Read`, `Write` (rename), `WriteFails`, `Release` (is there a lock
file?), `Unlock`, and `UnlockFails` (the failed unlink is swallowed: the call ends and its lock stays). The synchronous `lockAndModify` does the same calls in the same
order without yielding to its own process, so its behaviours are among these.
`Crash` ends a process, `LockAges` makes a lock old if its owner is dead, done or slow
(an asynchronous holder whose process is busy with a synchronous sandbox
command), `Reset` is `clearDatabase`, which writes without the lock.

A call adds one row; that is what a lost update is visible in. `committed` and
`erased` are history. Seeding of missing files and temporary names are left out.

### AuditChain

`Post` and `Evaluate` are `POST /api/receipts`, with the policy's override of the
payload's decision; `Mint` is a tool call's receipt. `AddJson`, and `FindLast` with
`Insert`, are the two branches of `addAuditReceipt`. `Viewed`, `Views` and `Verifies`
are `getAuditReceipts` and `verifyAuditChain`. `INITIAL_RECEIPTS` are the unchained
`Seeds`. A writer's `overtaken` is history: another receipt was inserted since it looked the
last one up.

A digest is modelled by what it commits to, the sequence of receipts it
covers, so equal digests mean equal histories. Signatures are those of trusted
issuers. What the Postgres columns lose of a payload is not modelled except for the
one field the chain depends on, the empty first link. `mintToolCallReceipt` reads
its receipt back, which changes nothing.

### CedarPolicy, PolicyVerdicts

A request is what the rules tell apart: tool, principal, the path patterns its path
matches as submitted and as `canonicalizeRelativePath` leaves it, whether it names a
path at all and whether that escapes, and the command patterns its command line
matches. A policy is the set of rules that loaded; `PolicyText` is their order in
`policy.cedar`, so that a file cut short holds a `Prefix` of it. Each rule is one
disjunct of `PermitHolds`, `GateForbids` or `OwnerForbids`; `Holds` is `evaluateAST`
of its condition. `EvaluateTS` and `EvaluateDaemon` are the two engines, with the
differences the code has: the local one resolves the path first and denies one it
cannot resolve, which includes the empty path the gateway passes for a request
without one, while the tool server passes none; the daemon judges the path as
submitted; the gateway's context for it has no sub-agent entries; and the schema
makes it answer 500 to a null requirement. `EvaluateSimulator` is the evaluator
behind `POST /api/policy/simulate`, taken without a draft policy of the request's
own: it collects every matching rule where the engine stops at a forbid.

Abstracted: parsing, but for which rules of a file are complete; the glob and `like`
matching behind a pattern; the WASM build (the daemon's engine over the same file).

### Authorization

A call goes `Begin` (the quarantine record is read), then the daemon's answer
(`DaemonDecides`, which reads the file at that moment), its failure or its 500 ms
(`DaemonFails`, where the process's own evaluator stands in if the operator allowed it), then what the
outcome does to the counter: forgotten, counted, or at the limit `Quarantine` and
`Forget`, each behind an await. `QuarantineFails` is the quarantine file that cannot
be locked, read or written: the handler's promise is rejected and the count stays, as
the history variable `failed` remembers. `EditPolicy` and `Watch` are the file and its
watcher; the file may be caught cut short (`Truncated`), after any rule and within
one: the local evaluator keeps its complete rules, the daemon, which parses the whole
file or nothing, answers only if the cut falls between two rules (`whole`).
`ReloadByHand`, `ApplyPolicy`, `QuarantineByHand`, `Release` and `ResetRecords` are the
routes. The tool server reloads only when it restarts (`RestartProcess`).

Abstracted: the read of the quarantine record before the daemon is asked succeeds (when
it fails the call ends there, with nothing changed); the gateway's working directory
is that of the policy file.

### ComplianceTrackers, BudgetExtensions

Two processes, `gateway` and `tools`, each hold what they last loaded and save the
whole file. A submission is `Charge`d before its first await, takes its context
after it, is decided, and moves the trackers once its receipt is accepted; an
authorization moves nothing. An edit is named in one of three ways (`Names`): the
policy judges the path in the arguments or else the receipt's reason, resolved or
not, whereas the trackers compare the path in the arguments alone and as it stands,
so an edit named with a detour or only in the reason is accepted, closes the
verification gates, and touches neither the requirement's files nor the synthesis.
The routes for synthesis, findings, requirements,
drift verification and feedback, the reset and restarts are actions of their own.

What sub-agents consumed (`Spent`) is counted token by token, as the set of tokens
charged to each, so that `SubagentTotalsAddUp` is a statement about a cardinality.

`BudgetExtensions` separates the stored approval from the raise of the tracker's
budget after the await, looks requests up by id alone as `db` does, and lets the
tool server save its stale copy. The budget is a number in three copies.

Abstracted: a save that fails is not modelled; the gateway's process also imports the tool
server's module with trackers of its own, which only `POST /mcp` uses: they are
taken as the tool server's.

### McpToolCall, McpHttp, PatchText

A call's points are its awaits: `context`, `decide`, `violation`, `log`, `mint`.
What comes before the first await and the effect, which is synchronous, are part
of the step that leads to them. Any await on the store may throw (`StoreFails`), which
ends the handler as its `catch` does: `mintToolCallReceipt` swallows its own. `ClearRecords`
(a reset) and `Crash` meet calls anywhere; `KeyWritten` is the gateway writing the
key that receipts need. `McpHttp` routes one message: headers against
body, allowlists of methods and tools, which being plain objects also answer to the names every object
inherits. `PatchText` does `patchFileHelper` over
sequences of characters, `String.replace`'s expansion of `$&` and negative slice
positions included. The lines from one to another, split and joined again, are a piece of the text,
and are modelled as that piece: `LineOf` is the line of a position, `Begin` the
position of a line.

### ReceiptSigning

A signature is the key that made it. A gateway that starts loads the master key from the
file (`Read`), or makes one and saves it in a second step (`Save`), between which another
gateway may do the same; `ReadFails` and `SaveFails` are what the code makes of a broken
file. A tool server only reads (`ServerLoads`). `Bootstrap` gives a session a key the
master key vouches for. `SessionSign`, `MintReceipt` and `Verifies` go through the provider as `signPayload` and `verifyReceipt` do, with
their fallbacks when the KMS cannot be reached, and past it for attested receipts.
The remote providers share one key that does not leave them. A production gateway does not
start, which is the code's own refusal; a server that is `down` is one whose key
is not loaded. The JWT secret is made and kept in the same way and is not a
variable of its own. `POST /api/receipts` refuses the key ids session receipts carry,
so sessions sign and are verified in memory only.

### SandboxPatch, WorkspaceDrift, AutoThrottle

`sandbox-execute.sh` is four steps, `copy`, `command`, `diff`, `end`; the process
that called it waits, everything else moves. A patch is what a run changed, from
what to what. The script names its temporary patch by the second its run began in, so a run
takes a new name or the newest one's (`Copied`), and its container may then fail to start
(`CommandFails` from `copy`); `Merge` applies it if its context still fits the workspace, one hunk
per file, and removes it. Exit codes are those the script tells apart (0, failure, 124, 127 and a host
fallback). The sub-agent slots differ in name only; staged changes are not
modelled; `GET /api/sandbox/patch` has no state.

`WorkspaceDrift` cuts detection and reconciliation at their awaits, which exist on
Postgres only. One reconcile runs at a time. `AutoThrottle` measures an execution once, or twice when its
command succeeded and the log or the drift detection after it fails (`Succeed`, `Logged`,
`MeasuredAgain`). It counts time in steps of five seconds: that
an execution ended exactly five or thirty seconds ago is not told apart from just
after. Its threshold is the 8000 ms of `index.ts` 231; `README.md` 288 says 2000.

## 3. Runs

States are those of the last run, with two workers; each takes less than three minutes.

Consensus. The sessions are one person per role; `json_votes` adds a second
administrator, because a dangerous command needs three votes besides its initiator.

| Run | Question | Result |
|---|---|---|
| `json_votes` | Two requests race over one dangerous command while it may expire, be overridden, be reset, or lose its process. Are votes impartial and distinct, does the block hold, is an approval spent once, does only a pending row become approved, and does it all implement `QuorumGate`, in which nothing runs without its votes? | holds, 765,000 states |
| `json_settles` | Two actions of one WASI command that is not on the allowlist, swept by the expiry worker through a restart. Is each settled, whatever voters do? | holds, 127,000 |
| `postgres_races` | Two requests interleave by statement over both routes, with overrides, expiries and resets between any two statements. Does nothing run without the quorum of the route that granted it? | holds, 4.1 million |
| `postgres_double_vote` | One vote per role and approver, on Postgres | violated |

Table store and ledger.

| Run | Question | Result |
|---|---|---|
| `store_races` | Three calls, write failures and timeouts: exclusion, and an implementation of `AtomicFile`? | holds |
| `store_one_crash` | One process dies anywhere in its call, or cannot remove its lock, and resets overtake the other: can that one break the lock safely, lose nothing, and does it come back? | holds |
| `chain_json` | Two submitters, seeds, overridden decisions, failures and resets on the file: does what was added verify as one chain? | holds, 13,000 |
| `chain_postgres` | Two submitters on Postgres, with any issuing times, failures and resets between the two statements: does an insert fork the chain only if another overtook its look-up, or if the receipt with the greatest time is not the last one added? | holds, 117,000 |

The rest of the gateway.

| Run | Question | Result |
|---|---|---|
| `authorization` | Two calls, in two processes, against edits, files cut short, a failing quarantine file, reloads, quarantines and releases: is a full counter handled or left by a failure of the file, a quarantined agent confined to reading, each decision one of a policy in force, and does memory come back to the file? And over requests and contexts: do the gates of `policy.cedar` hold, and does failing over never allow more? | holds, 452,000 |
| `trackers` | Along each pipeline (a DevOps audit, a requirement, a commit, a release, sub-agent budgets), with resets, restarts and the other process's saves: is an open gate newer than what should have closed it, do the totals add up, was every release gated? And: is no budget above what was approved? | holds, 448,000 |
| `tool_calls` | Two calls with two store failures or crashes: do records tell the truth, is each decision receipted, does an edit close the gate, is each call answered? A message is routed as it declares, a patch touches one spot, the key in use is the one on file, what was signed verifies | holds, 385,000 |
| `console` | Two sandbox runs against edits and merges; two executions' drift detections against restores; a window of latencies against time: are failed runs discarded, offers current, later edits kept, known drifts open, the throttle lifted? | holds, 661,000 |

A violated run checks one statement the repository makes of the program;
`PROJECT.json` quotes it under "findings": Postgres votes are neither transactional nor
unique, so one person or role votes twice.

Further configurations are kept for reference and are not among the regular runs.
TLC refutes these statements; where a configuration has several, it stops at the first one and
the others are comments, to be uncommented one by one:

| Configuration | Statement | Why it fails |
|---|---|---|
| `ConsensusPostgresRefuted` | `DangerousVotesOverridden` | the legacy route never asks for the administrator's override |
| | `ResetLiftsLockout` | on Postgres `POST /api/reset` clears the rows, then throws, and the lockout stays |
| `ConsensusJsonRefuted` | `ConsoleRunCompletes` | the expiry worker overwrites a row that was approved and completed after its snapshot was read |
| | `AllowlistAlwaysApplies` | the WASI branch of the console comes before the allowlist |
| | `BreakerAlwaysApplies` | background executions never ask the breaker |
| `JsonStoreRefuted` | `NoLostWrite` | two calls that find the same abandoned lock both write |
| | `ResetErases` | a reset takes no lock: a call that had read the table writes the old rows back |
| `AuditChainPostgresRefuted` | `NoForks` | two concurrent submissions extend the same receipt; with one, a receipt with an early `issued_at` is never extended |
| | `UntouchedLedgerVerifies` | the first empty link is read back as undefined |
| `AuditChainJsonRefuted` | `UntouchedLedgerVerifies` | the seeds carry no digest |
| | `RecordedAsSigned` | the payload's decision is changed after the signature was verified |
| `AuthorizationComments` | `OverspentSubagentDenied`, `UnregisteredWritesDenied`, `BootstrapPermitted`, `ReadsAutoApproved` | comments of tiers 6, 7, 3 and 1 of `policy.cedar` that its rules do not keep |
| | `ProcessesAgree` | the tool server watches no file |
| | `EvaluatorsAgree` | the daemon judges the path as submitted and knows no sub-agent; the gateway's local evaluator refuses the empty path of a command |
| | `OwnersOfFilesWrite` | the daemon does not resolve a path before it looks for its owner |
| | `FullCountQuarantines` | the quarantine file fails, and the full count stays without a quarantine |
| | `CutsLetNothingMore` | a file cut short holds permits without the forbids that follow them |
| `TrackersRefuted` | `ApprovedOncePerRequest` | approving never looks at the status, though the route's 404 says "or not pending" |
| | `ApprovalRaisesBudget` | the approval is stored before the budget is raised |
| | `ChargesSurvive`, `ToolEditsInvalidate` | each process saves the whole file from its own copy |
| | `ReleasedWhileOpen` | a release is recorded after its gates were read |
| | `AcceptedEditsInvalidate` | an accepted edit named in the reason, or with `./`, is not a source to the trackers |
| `ToolCallsRefuted` | `NoEffectWithoutReceipt` | the receipt's error is swallowed, and `README.md` says "A tool call without a verifiable receipt did not happen." |
| | `ErrorsAreErrors` | the log of an edit fails after the edit |
| | `ReplacementIsVerbatim`, `PatchedTargetWasUnique` | `$&` in a replacement is expanded; the line range narrows the search |
| | `GatewaysShareKey` | two gateways that start at once make two keys |
| | `OutagesForgiven` | Vault and GCP do not accept what was signed locally while they were away |
| | `SessionReceiptsVerify` | a remote provider signs a session's receipt with its own key |
| `ConsolePatches` | `EditsSurviveMerges` | an edit made while a command runs is undone by its patch |
| | `TimedOutDiscarded` | a timed-out command's half-written patch is left |
| | `KnownDriftIsOpenOnPostgres` | reconcile marks rows that a later detection has just written |

Four more pass, and are not among the regular runs either. `ConsensusJsonRuns` (an ordinary, a WASI
and a refused command use one approval, and one person has two roles) and
`AuthorizationTwoPolicies` (the file changes between two complete policies; 1.84 million
states in five minutes; `OwnersWrite`, that files with an owner are written by that owner only, and
`NoEventNoDrift` too) are larger instances. `TrackersTypes` and `ConsoleTypes` check what the
regular runs of these instances leave out: the type invariants and `OldTimesAreForgotten`, which are proved too, and
`RunsEnd`, that every sandbox run ends. The type invariants of the other modules are proved.

## 4. Bounds

- **Actions** (`MaxActions`): two with one request in flight (`json_settles`), so that the
  snapshot holds an older and a newer row of one command and a sweep has two to
  expire; one with two requests in flight elsewhere. Two actions and two requests at once are beyond
  a run of minutes; actions share no state but that snapshot and the order of the sweep,
  and the theorems are for any number of both. Two requests are enough for a race
  between what one read and the other wrote; the worker, the timers and the
  environment are concurrent with both.
- **Sessions**: a dangerous command needs three roles besides the initiator's
  identity, hence four; a double vote needs one person with two roles or two
  persons with one. In `postgres_races` a dangerous command with three people can
  be granted by the legacy route, and by the other one only after a double vote.
- `ViolationLimit` is 3 in the code. Runs in which the breaker only matters as
  locked or not use 1; `ConsensusJsonRuns`, where consumed approvals are refused, uses 3.
- `MaxRestarts` is at most 1: what survives one restart is what survives each.
- **Three calls** in `JsonStore`: one holds, one waits, one arrives; also a dead
  owner and two that find its lock, the least that can lose a row, which is why
  `store_one_crash` has two. `MaxResets` 2, so that a reset follows one already
  overwritten.
- **Ledger**: four receipts, two submitters, two of the three seeds. `Times`
  includes one later than any clock; a backdated fork needs three.
- **Authorization**: one agent and two calls, which is a denial behind its await while
  another is counted or forgotten; the calls may be in different processes.
  `DenialLimit` is 2 (3 in the code): a first denial, and one that reaches the limit.
  The requests of the calls are a read and an edit of a package with an owner, which is what
  quarantine, and a cut that leaves out the owner's rule (`Cuts`), tell apart. `FailingUpTo` 2: the
  quarantine file fails a count that has just reached the limit; a higher count changes nothing more. `PolicyVerdicts` has one request per tool,
  principal, path or command that some rule names, about 250, among them paths whose submitted form
  hides what they come to or shows what they do not, one that escapes, and requests without a path; and the contexts that differ from the open one in at most two
  entries, about 130: no rule but the release's looks at more than two that fail.
- **Trackers**: the kinds of submission are split by `FocusKinds`, because a tracker reads its
  own fields only; two submissions interleave in the DevOps pipeline, one elsewhere. `FocusNames` has the
  ways to name an edit where the verification gates and the synthesis are at stake.
  `MaxTokens` 7 is a whole budget: a commit takes five evaluations, a release six. One
  directive and one sub-agent with a budget of one suffice for both sides of each limit.
  Two extensions, two reviews and three approvals let one be approved twice and another
  once.
- **Tool calls**: two calls, two faults, so that a failure can follow a failure (the log,
  then the receipt). All messages. Texts of up to four characters over
  two letters and the line break, with lines 0 to 3: a line before, in and after a
  range. Two gateways that may start at once, one tool server, two keys, one session.
  `TextLimit` 5 cuts what a replacement makes longer. Empty targets and
  negative end lines are outside this instance.
- **Console**: a tracked and an untracked file, one slot, two runs and one edit: the second
  run replaces the first one's patch. Two executions whose detections overlap.
  A `Window` of 3 latencies (10 in the code) and two callers; durations of 1, 9
  and 40 s are below the threshold of 8 s, above it, and above it on average over the
  whole window.

## 5. Fairness, deadlock

`Consensus!Fairness`: time passes (`TimeRunsOut`) and the 10 s interval of the expiry
worker keeps firing, and the store answers it in the end (`SweepRead`, `SweepExpire`; a sweep
that fails is tried again at the next interval, `cron-worker.ts` 25-27). No user, request, vote or
timer of a background execution is assumed to act, which is what makes
`EveryRequestIsSettled` say something: the worker alone settles a request.

`JsonStore!Fairness`: a call that has begun is carried on by its event loop (`Step`),
and five seconds pass (`GetsLate`). That a lock file is ever seen to be old is
not assumed: a waiting call must come back by its timeout even if its process's
clock and the file's disagree.

`Authorization`: a file event is handled (`Watch`), for `HotReloadConverges`; that nobody
edits the file again is in the property. `McpToolCall!ToolFairness`: a call that is
under way goes on, as its event loop runs what is ready and its awaits end or throw.
`SandboxPatch!SandboxFairness`: the script's own steps end, and `timeout` ends the command;
that a command ends by itself is not assumed. `AutoThrottle!ThrottleFairness`: time passes.
Nobody is assumed to read the average, so the gate must reopen at whatever reading
comes. An instance module repeats the fairness of its components for the one that moves.

Deadlock is checked in every consensus run and in `trackers`. The other instances have finitely many calls,
receipts, judgements or runs and stop when these are used up.

## 6. What is proved

For every value of the constants, under the assumptions of the modules.

- `ConsensusProofs!TypeCorrect`, `TypesHold`. The strengthening is `HandlersPoint`: a
  handler past its first read refers to a row.
- `QuorumSafety`: nothing runs without its votes, on either store. The quorum is
  counted once, when the last vote is cast, and acted upon steps later, so the
  invariant `QuorumInv` carries it: `FreshInv` (a row not yet created is empty and nothing
  refers to it), `QuorumSeen` (a handler about to mark or run a row knows that it
  has its votes), and the property. Votes only grow while a row exists, so what a
  handler saw stays true; `RowHistory` is the lemma that says what one step may
  do to a row, used by all theorems.
- `SeparationOfDuties`: no vote is its initiator's, on either store, by
  `VotersEligible`: a handler about to vote is not its row's initiator, and rows
  never change hands.
- `JsonVotesUnique`, `JsonBlockHolds`: votes are distinct and a dangerous action's
  votes come after its override, on the file; the test is repeated under the
  lock there, and an override is never taken back (`VotersUnlocked`). On Postgres
  both are violated (section 3).
- `JsonApprovals`: on the file an expired or completed row stays so; `JsonStatus` says what
  one step may make of a status. `JsonApprovalsSpent`: the console runs of an
  action are no more than the requests that were in flight when it was consumed. The
  invariant `SpentInv` counts those that still hold the approval (`Holders`) with those
  that have run; once the row is no longer approved nobody new reads it (`NobodyReads`).
- `JsonImplementsGate`: on the file `Consensus` implements `QuorumGate`. The mapping makes a
  sequence of approvals a set, and the gate counts that set, so the proof needs
  `OneVotePerRoleAndApprover`: the sequence is injective, hence as long as the set is large
  (`VotesCounted`). It also needs that a handler about to vote still may (`VotersInvariant`)
  and that a row about to run has its votes (`QuorumInv`). Each step of `Next` is then a vote,
  an opening, a closing, a run, the discarding of a reset, or a stutter of the gate
  (`JsonGateStep`). On Postgres the double vote of `postgres_double_vote` has no counterpart
  in the gate.
- `JsonStoreProofs!StoreTypeCorrect`, `ExclusionThroughDeaths`, `RowsKeptThroughDeaths`,
  `AtomicityThroughDeaths`, for any number of calls and of processes that die in them. The lock
  file is its holder's and not stale, or nobody's and its maker is dead (`Orphaned`); `LockInv`
  says which, `RowsInv` that what the holder has read is not older than any committed row a reset has
  not removed, and, without resets, `CopyInv` that it is the table. `AtomicityThroughDeaths` is the
  refinement of `AtomicFile`, step by step: a call that dies has taken its
  one atomic step or none. They assume that nobody holds the lock for 10 s (`SlowCalls = {}`), and
  `OneWaiter`: while the lock on file was left behind, by a call that died or one that could not
  remove it, one call at most waits for it.
  Both are what the code needs and does not see to: two calls that
  judge the same lock stale remove it one after the other, and the second removes
  the first one's new lock (`JsonStoreRefuted` has the counterexample); a slow holder is taken for a dead
  one. The corollaries say where `OneWaiter` holds by itself: of two calls one
  at most is left to wait (`RowsOfTwoKept`, which is `store_one_crash` for any number
  of resets), and when nobody dies and every lock is removed none is left behind (`Exclusion`, `RowsKept`, `Atomicity`,
  under `Quiet`).
- `AuditChainProofs!JsonLedgerVerifies`: what was added to the file verifies, by
  `ChainInv`: the rows are additions above the seeds, each linked to the one below
  (`Linked`), and a submission in flight is one of those numbered so far (`Numbered`).
  `JsonNeverForks`: no two receipts extend the same one, since the digest a receipt
  extends covers all those below it (`LengthInv`). `PostgresForksAreRaces`: on Postgres, whatever
  overlaps, fails or is reset and whatever times the issuers give, an insert forks the chain only if another insert
  has overtaken its look-up, or over a receipt that was not the latest when it was stored. Nothing is assumed of
  writers and times; both excepted cases do fork (section 3). `RaceInv` says that no receipt extends itself or a later one
  and that a submission that has looked up and was not overtaken found the latest
  receipt there is, or one a reset has removed since (`Found`).
  `LedgerTypeCorrect` holds on both stores.
- `AuthorizationProofs`: `AuthTypesHold`, `FullCountsHandled` and `NoDrift` by the invariant
  `AuthInv`; `DecidedInForce` and `QuarantineHolds` are action properties over it. What a
  call has seen of the policies since it began is history; `WaitsInv` says
  that it is complete while the call waits for an answer: any policy that now permits it is one it
  has seen, and one that was confined throughout has met the rule in each.
- `AuthorizationProofs!VerdictsRespectGates`, `VerdictsRespectOwners`, `FailoverGainsNothing`,
  `SimulatorAgrees`: what TLC tries on about 250 requests and 130 contexts, for every request
  and context. Permits and forbids have names of their own (`RulesApart`), so each rule of the
  full policy holds by its own condition; what the daemon's context lacks decides no gate. Owners are kept
  by the resolved path where the local evaluator decides and by the submitted one where
  the daemon does. For a path submitted in its canonical form the local evaluator
  allows no more than the daemon, and refuses more in two cases: a path that does not resolve, and
  a sub-agent over its budget. The simulator says what the tool server's engine does, and what the
  gateway's does if the request names a path.
- `TrackersProofs!TrackerTypesHold`, `GatesVerifiedSinceEdit`, `SynthesisAfterEdit`,
  `PlmStaysConsistent`, `ReleasesAreGated`, for any number of submissions in flight, by
  `TrackerInv`. A release passes on a context taken steps earlier, so the invariant keeps
  what it was taken from (`Known`): whatever it says of the version and the changelog, their files are in the
  call's history (`Recorded`), and a context with every gate open was taken with
  every gate open. `PassedReleases` is the lemma about the policy: what either
  evaluator allows of a release has every gate of its context open.
- `TrackersProofs!SubagentTotals`, for any number of sub-agents: a charge adds at most one
  token to `Spent` and one to the session (`ChargeAddsUp`), every other step keeps or clears both
  counters of the copy it saves, and a restart loads a file that adds up (`TotalsInv`).
- `TrackersProofs!BudgetTypesHold`, `BudgetIsAccounted`: no copy of the budget is above
  the first budget plus what stored approvals grant, which the strengthening `Accounted` gets by
  adding to each copy the raises still in flight.
- `McpToolCallProofs!ToolTypesHold`, `EditsCloseGate`, `RecordsAreTrue`, `ReceiptsMatchDecisions`,
  for any number of calls, failures and crashes, by `ToolInv`: a call's locals fit its point and tell the truth
  (`CallsInv`), logs and receipts come after the effect they name (`LogsInv`,
  `ReceiptsInv`), and a call answered undisturbed has left its receipt
  (`OwedInv`).
- `McpToolCallProofs!RoutingDeclared`: `RoutedAsDeclared`, for every message.
- `McpToolCallProofs!OneSpotPatched`: `PatchTouchesOneSpot`, for every text, target and replacement, and all
  lines counted from 1, as the tool's schema declares them. A negative `endLine` is one from the end to
  `slice`, and then the range is not the lines the caller named. The argument: the line of a
  position grows by one at each line break (`LineSteps`), so a line begins where its number is
  reached first (`Begins`); the range and what is put back around it are three pieces that make up
  the text (`AroundRange`); the target is in the range where it is in the text within the
  lines given (`PlacesOfPiece`, `WithinLines`); and replacing in the piece is
  replacing in the text (`ReplacedInPiece`). That `Expand` gives a text is
  an induction along a recursive function, done by the least index at which it would
  fail (`Least`, `FlattenType`).
- `ReceiptSigningProofs!SigningTypesHold`, `KeyOnFile`, `SignedVerify`: by `SigningInv`, every key in use is
  the one on file (`KeysInv`) and every signature is by it, by a session it attests, or by the provider
  (`SignaturesInv`). It assumes what `~disturbed` says: no two gateways generate at once and no
  file operation fails. `ToolCallsRefuted` has the counterexample without it (`GatewaysShareKey`).
- `ConsoleProofs!SandboxTypesHold`, `FailuresDiscarded`, `OffersStayCurrent`, `LaterEditsSurvive`,
  for any number of runs, slots, files and edits, by `SandboxInv`. A merge was decided when its
  patch was taken, so the invariant says of every patch, copy and file what it may hold: contents of runs past
  their command, which can no longer fail (`Settled`), and edits that were made;
  no patch replaces an edit younger than its diff (`PatchFine`). `RunMoves` is the
  lemma on what one step of a script may do; it assumes that the names of runs and edits differ.
- `ConsoleProofs!DriftTypesHold`, `OpenListComplete`: on the file a recorded drift is open
  until its file is restored.
- `ConsoleProofs!ThrottleTypesHold`, `OldTimesForgotten`, for every window, threshold and set of
  durations. The window is cleared late, when somebody reads the average; `ThrottleInv` says why
  that does no harm: the quiet spell is never longer than the time since the last execution
  whose duration is still in the window, and the window is the end of what was measured
  since the last spell of half a minute (`Ends`, which is `IsSuffix` without its reversals).

Only model-checked:

- the liveness properties (`EveryRequestIsSettled`, `EveryCallEnds`, `HotReloadConverges`,
  `CallsAreAnswered`, `RunsEnd`, `ThrottleLifts`): what fairness implies is out of the prover's
  reach;
- the store with a slow holder, or with several calls waiting on a lock left behind: there
  the properties fail (`JsonStoreRefuted`);
- patches with negative line numbers.

## 7. What is left

1. Two agents in `Authorization`, and two submissions in every focus of the trackers: both
   are beyond a run of minutes as the modules stand.
2. A composition of `McpToolCall` with `AuditChain` in one state, in place of the common
   step that stands for `addAuditReceipt` in each.

## 8. Not modelled, and why

- Cryptography is taken as correct: a signature is its key, a digest what it covers.
- `command-auditor.ts`, `consensus-auditor.ts`, `ai-firewall.ts`, `security-sanitize.ts`
  (but for the allowlists of the tool routes): pattern matching over text. `Consensus`
  quantifies over their verdicts.
- `circuit-breaker-gate.ts` (the kill switch), `production-auth.ts`, `principal-signature.ts`,
  `production-profile.ts`, `proxy-verifier.ts`: stateless tests of one request or of the
  environment. Every request of a model has passed them.
- Where a Postgres deployment refuses the JSON fallback, every read of the quarantine table fails and
  with it every decision, which is a property of one configuration. A tracker save that
  fails is caught and logged, and leaves memory ahead of the file: not an action.
- `interview-engine.ts` and the routes for transactions, registration, health and
  system configuration: queries, and single table operations that `JsonStore` covers.
- `wasi-runner.ts`, `model-router.ts`, `ebpf-monitor.ts`, the container runtime, the daemon's
  transport: external processes, whose answers and failures are choices of the models.
- Dashboard, GitHub action, other scripts, skills, archives: no part of the gateway's
  own state.

## 9. Running it

    tlc -workers 2 -config ConsensusJsonVotes.cfg MCConsensus.tla
    tlc -workers 2 -config Console.cfg MCConsole.tla
    tlapm ConsensusProofs.tla

Each run of `PROJECT.json` names its module and configuration.
