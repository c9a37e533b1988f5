----------------------------- MODULE AuditChain -----------------------------
(***************************************************************************)
(* The signed receipt ledger: POST /api/receipts and mintToolCallReceipt,  *)
(* which add receipts, addAuditReceipt and getAuditReceipts of             *)
(* packages/database/src/index.ts, which chain and return them, and        *)
(* verifyAuditChain of packages/crypto-utils, which checks the chain.      *)
(*                                                                         *)
(* On the JSON file addAuditReceipt is one atomic step (JsonStore); on     *)
(* Postgres it looks the last receipt up and inserts in two statements     *)
(* with no transaction.  A receipt's SHA-256 digest is modelled by what it *)
(* commits to: the receipt and, through previousReceiptHash, every earlier *)
(* one, as a sequence of receipt numbers.  Signatures are those of trusted *)
(* issuers; the trackers a receipt advances are another component.         *)
(***************************************************************************)
EXTENDS Naturals, Sequences

CONSTANTS
    Writers,      \* submissions in flight at the same time
    MaxReceipts,  \* bound: receipts ever submitted
    Times,        \* the issued_at an issuer may put on a receipt
    Clocked,      \* TRUE: issuers submit at once and stamp the current time
    Enforce,      \* config.mode is 'enforce', not 'audit'
    SeedRows,     \* INITIAL_RECEIPTS of the JSON store (3 in the code)
    Store         \* "json" or "postgres"

ASSUME LedgerAssumption ==
    /\ MaxReceipts \in Nat \ {0}
    /\ Times \subseteq Nat /\ 0..MaxReceipts \subseteq Times
    /\ Clocked \in BOOLEAN
    /\ Enforce \in BOOLEAN
    /\ SeedRows \in Nat
    /\ Store \in {"json", "postgres"}

VARIABLES
    ledger,   \* the stored receipts, last inserted first
    writers,  \* the submissions in flight
    count     \* receipts submitted so far

chainVars == <<ledger, writers, count>>

Decisions == {"allow", "deny"}
Points == {"idle", "evaluate", "add", "insert"}
Hash == Seq(0..MaxReceipts)

\* claim is the decision the signature covers, decision the one in the payload.
\* overtaken is history: another receipt was inserted since the last was looked up.
Receipt == [id : 0..MaxReceipts, issued : Times, claim : Decisions, decision : Decisions]
Row == [receipt : Receipt, prev : Hash, hash : Hash]
Writer == [pc : Points, receipt : Receipt, prev : Hash, overtaken : BOOLEAN]

TypeOK ==
    /\ ledger \in Seq(Row)
    /\ writers \in [Writers -> Writer]
    /\ count \in 0..MaxReceipts

---------------------------------------------------------------------------
\* The digest '' of nothing, and the absent digest of an unchained receipt.
Empty == <<>>
Undefined == <<0, 0>>

NoReceipt == [id |-> 0, issued |-> 0, claim |-> "allow", decision |-> "allow"]
Idle == [pc |-> "idle", receipt |-> NoReceipt, prev |-> Empty, overtaken |-> FALSE]

\* INITIAL_RECEIPTS carry neither digest.
Seed == [receipt |-> NoReceipt, prev |-> Undefined, hash |-> Undefined]
Seeds == IF Store = "json" THEN [k \in 1..SeedRows |-> Seed] ELSE <<>>

Init ==
    /\ ledger = Seeds
    /\ writers = [w \in Writers |-> Idle]
    /\ count = 0

Return(w) == writers' = [writers EXCEPT ![w] = Idle]

\* hash || ''
OrEmpty(hash) == IF hash = Undefined THEN Empty ELSE hash

\* calculateReceiptHash over payload, signature and previousReceiptHash.
Digest(receipt, prev) == <<receipt.id>> \o prev

Chained(receipt, prev) ==
    [receipt |-> receipt, prev |-> prev, hash |-> Digest(receipt, prev)]

Submit(w, pc, issued, claim) ==
    /\ writers[w].pc = "idle"
    /\ count < MaxReceipts
    /\ Clocked => issued = count + 1
    /\ count' = count + 1
    /\ writers' = [writers EXCEPT ![w] =
            [pc |-> pc, prev |-> Empty, overtaken |-> FALSE,
             receipt |-> [id |-> count + 1, issued |-> issued,
                          claim |-> claim, decision |-> claim]]]
    /\ UNCHANGED ledger

\* POST /api/receipts: a receipt whose signature verifies.
Post(w, issued, claim) == Submit(w, "evaluate", issued, claim)

\* mintToolCallReceipt: the gateway signs and stores its own receipt.
Mint(w, claim) == Submit(w, "add", count + 1, claim)

\* The policy decides; a refused ALLOW is not recorded in enforce mode, any
\* other receipt gets the policy's decision.
Evaluate(w, decision) ==
    LET r == writers[w].receipt IN
    /\ writers[w].pc = "evaluate"
    /\ IF Enforce /\ decision = "deny" /\ r.claim = "allow"
       THEN Return(w)
       ELSE writers' = [writers EXCEPT ![w] =
                            [@ EXCEPT !.pc = "add", !.receipt.decision = decision]]
    /\ UNCHANGED <<ledger, count>>

\* Mutant of LastHash: the oldest row is taken for the last.
OldestHash == IF ledger = <<>> THEN Empty ELSE OrEmpty(ledger[Len(ledger)].hash)

\* The digest of list[0].
LastHash == IF ledger = <<>> THEN Empty ELSE OrEmpty(ledger[1].hash)

\* addAuditReceipt on the JSON file.
AddJson(w) ==
    /\ Store = "json"
    /\ writers[w].pc = "add"
    /\ ledger' = <<Chained(writers[w].receipt, LastHash)>> \o ledger
    /\ Return(w)
    /\ UNCHANGED count

Positions == 1..Len(ledger)

\* Mutant of IsLatest: any row will do.
IsAnyRow(k) == k \in Positions

\* findFirst ordered by issued_at, descending; equal times in any order.
IsLatest(k) ==
    /\ k \in Positions
    /\ \A j \in Positions : ledger[j].receipt.issued <= ledger[k].receipt.issued

LatestHashes ==
    IF ledger = <<>> THEN {Empty}
    ELSE {OrEmpty(ledger[k].hash) : k \in {j \in Positions : IsLatest(j)}}

\* addAuditReceipt on Postgres: look the last receipt up, then insert.
FindLast(w) ==
    /\ Store = "postgres"
    /\ writers[w].pc = "add"
    /\ \E prev \in LatestHashes :
          writers' = [writers EXCEPT ![w].pc = "insert", ![w].prev = prev]
    /\ UNCHANGED <<ledger, count>>

Insert(w) ==
    /\ writers[w].pc = "insert"
    /\ ledger' = <<Chained(writers[w].receipt, writers[w].prev)>> \o ledger
    /\ writers' = [v \in Writers |->
                      IF v = w THEN Idle
                      ELSE [writers[v] EXCEPT !.overtaken = @ \/ writers[v].pc = "insert"]]
    /\ UNCHANGED count

\* The store throws, or the process dies: the receipt is not recorded.
Fails(w) ==
    /\ writers[w].pc # "idle"
    /\ Return(w)
    /\ UNCHANGED <<ledger, count>>

\* POST /api/reset
Reset ==
    /\ ledger' = Seeds
    /\ UNCHANGED <<writers, count>>

Write(w) ==
    \/ \E t \in Times, d \in Decisions : Post(w, t, d)
    \/ \E d \in Decisions : Mint(w, d) \/ Evaluate(w, d)
    \/ AddJson(w)
    \/ FindLast(w)
    \/ Insert(w)
    \/ Fails(w)

Next == (\E w \in Writers : Write(w)) \/ Reset

Spec == Init /\ [][Next]_chainVars

---------------------------------------------------------------------------
(* Reading and verifying *)

\* A row as getAuditReceipts returns it: the Postgres mapping turns '' into
\* undefined.
Viewed(row) ==
    IF Store = "postgres" /\ row.prev = Empty THEN [row EXCEPT !.prev = Undefined] ELSE row

\* What getAuditReceipts may return: the file as it is, or the rows by
\* issued_at, descending.
Views ==
    IF Store = "json" THEN {ledger}
    ELSE {[k \in Positions |-> Viewed(ledger[p[k]])] :
             p \in {q \in [Positions -> Positions] :
                      \A j, k \in Positions : j < k =>
                         /\ q[j] # q[k]
                         /\ ledger[q[k]].receipt.issued <= ledger[q[j]].receipt.issued}}

\* verifyAuditChain
Verifies(v) ==
    \A k \in DOMAIN v :
        /\ v[k].hash = Digest(v[k].receipt, OrEmpty(v[k].prev))
        /\ v[k].prev = IF k < Len(v) THEN v[k + 1].hash ELSE Empty

---------------------------------------------------------------------------
(* Properties *)

Added == Len(ledger) - Len(Seeds)

\* On the JSON file, the receipts added since the seeds form a chain that
\* verifyAuditChain accepts: each digest is its receipt's over the one below,
\* and the first starts from nothing, however submissions interleave and fail.
AddedReceiptsVerify == Added > 0 => Verifies(SubSeq(ledger, 1, Added))

\* The receipt stored last is the only one with the latest issued_at.
TopIsLatest == \A k \in Positions \ {1} : ledger[k].receipt.issued < ledger[1].receipt.issued

\* On Postgres a receipt extends one that nothing extends yet, unless another was
\* inserted between its two statements, or the receipt stored last was not the
\* latest by the time its issuer gave it.  Resets and failures fork nothing.
OnlyRacesFork ==
    [][\A w \in Writers : Insert(w) /\ ~writers[w].overtaken /\ TopIsLatest
          => \A k \in Positions : ledger[k].prev # writers[w].prev]_chainVars

\* No two receipts extend the same one: the ledger is one chain, not a tree.
\* docs/walkthrough.md: "fetch the previous receipt in the ledger, inject its
\* digest block as `previousReceiptHash`, calculate the new chain digest, and
\* atomically write the receipt."
NoForks ==
    \A j, k \in Positions : j # k /\ ledger[j].receipt.id # 0 /\ ledger[k].receipt.id # 0
                            => ledger[j].prev # ledger[k].prev

\* GET /api/receipts/verify-chain accepts a ledger that only the gateway wrote;
\* README.md, on tampering: "making retro-active history modification visible".
UntouchedLedgerVerifies == Added > 0 => \A v \in Views : Verifies(v)

\* A recorded receipt still carries the decision its signature covers: the
\* handler is to "Verify and record a signed receipt" (index.ts).
RecordedAsSigned ==
    \A k \in Positions : ledger[k].receipt.decision = ledger[k].receipt.claim

=============================================================================
