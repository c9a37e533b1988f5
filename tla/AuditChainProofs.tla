-------------------------- MODULE AuditChainProofs --------------------------
(***************************************************************************)
(* The receipts added to the JSON ledger form one hash chain, whatever the *)
(* number of submissions, failures and resets; on Postgres two receipts    *)
(* extend the same one only by a race of inserts or of the issuers' times. *)
(***************************************************************************)
EXTENDS AuditChain, TLAPS

\* What an addition does to the positions of a ledger.
LEMMA Prepending ==
    ASSUME NEW S, NEW x \in S, NEW s \in Seq(S)
    PROVE  /\ <<x>> \o s \in Seq(S)
           /\ Len(<<x>> \o s) = Len(s) + 1
           /\ (<<x>> \o s)[1] = x
           /\ \A k \in 1..Len(s) : (<<x>> \o s)[k + 1] = s[k]
OBVIOUS

LEMMA SeedsType == Seeds \in Seq(Row) /\ Len(Seeds) \in Nat
<1>1. Undefined \in Hash
  BY LedgerAssumption DEF Undefined, Hash
<1>2. NoReceipt \in Receipt
  BY LedgerAssumption DEF NoReceipt, Receipt, Decisions
<1>3. Seed \in Row
  BY <1>1, <1>2 DEF Seed, Row
<1>4. SeedRows \in Nat /\ [k \in 1..SeedRows |-> Seed] \in Seq(Row)
  BY <1>3, LedgerAssumption
<1> QED
  BY <1>4 DEF Seeds

LEMMA ChainedType ==
    ASSUME NEW r \in Receipt, NEW p \in Hash PROVE Chained(r, p) \in Row
<1>1. Digest(r, p) \in Hash
  <2>1. r.id \in 0..MaxReceipts
    BY DEF Receipt
  <2> QED
    BY <2>1, Prepending DEF Digest, Hash
<1> QED
  BY <1>1 DEF Chained, Row

LEMMA LastHashType == ASSUME TypeOK PROVE LastHash \in Hash
<1>1. Empty \in Hash
  BY DEF Empty, Hash
<1>2. CASE ledger = <<>>
  BY <1>1, <1>2 DEF LastHash
<1>3. CASE ledger # <<>>
  <2>1. ledger[1] \in Row
    BY <1>3 DEF TypeOK
  <2> QED
    BY <1>1, <1>3, <2>1 DEF LastHash, OrEmpty, Row
<1> QED
  BY <1>2, <1>3

\* Every submission and every row of the ledger keeps its type.
THEOREM LedgerTypeCorrect == Spec => []TypeOK
<1>1. Init => TypeOK
  BY LedgerAssumption, SeedsType
  DEF Init, TypeOK, Writer, Points, Idle, NoReceipt, Receipt, Decisions, Empty, Hash
<1>2. TypeOK /\ [Next]_chainVars => TypeOK'
  <2> SUFFICES ASSUME TypeOK, [Next]_chainVars PROVE TypeOK'
    OBVIOUS
  <2> USE DEF TypeOK
  <2>0. Idle \in Writer /\ Empty \in Hash
    BY LedgerAssumption
    DEF Writer, Points, Idle, NoReceipt, Receipt, Decisions, Empty, Hash
  <2>1. ASSUME NEW w \in Writers, NEW pc \in {"evaluate", "add"}, NEW t \in Times,
               NEW d \in Decisions, Submit(w, pc, t, d)
        PROVE  TypeOK'
    <3>1. count + 1 \in 0..MaxReceipts
      BY <2>1, LedgerAssumption DEF Submit
    <3>2. [pc |-> pc, prev |-> Empty, overtaken |-> FALSE,
           receipt |-> [id |-> count + 1, issued |-> t, claim |-> d, decision |-> d]]
          \in Writer
      BY <2>0, <3>1 DEF Writer, Points, Receipt
    <3> QED
      BY <2>1, <3>1, <3>2 DEF Submit
  <2>2. ASSUME NEW w \in Writers, NEW t \in Times, NEW d \in Decisions, Post(w, t, d)
        PROVE  TypeOK'
    BY <2>1, <2>2 DEF Post
  <2>3. ASSUME NEW w \in Writers, NEW d \in Decisions, Mint(w, d) PROVE TypeOK'
    <3>1. count + 1 \in Times
      BY <2>3, LedgerAssumption DEF Mint, Submit
    <3> QED
      BY <2>1, <2>3, <3>1 DEF Mint
  <2>4. ASSUME NEW w \in Writers, NEW d \in Decisions, Evaluate(w, d) PROVE TypeOK'
    <3> DEFINE decided == [writers[w] EXCEPT !.pc = "add", !.receipt.decision = d]
    <3>1. decided \in Writer
      BY DEF Writer, Points, Receipt
    <3> HIDE DEF decided
    <3>2. CASE Return(w)
      BY <2>0, <2>4, <3>2 DEF Evaluate, Return
    <3>3. CASE writers' = [writers EXCEPT ![w] = decided]
      BY <2>4, <3>1, <3>3 DEF Evaluate
    <3>4. Return(w) \/ writers' = [writers EXCEPT ![w] = decided]
      BY <2>4 DEF Evaluate, decided
    <3> QED
      BY <3>2, <3>3, <3>4
  <2>5. ASSUME NEW w \in Writers, AddJson(w) PROVE TypeOK'
    <3>1. writers[w].receipt \in Receipt
      BY DEF Writer
    <3>2. Chained(writers[w].receipt, LastHash) \in Row
      BY <3>1, LastHashType, ChainedType
    <3>3. ledger' \in Seq(Row)
      BY <2>5, <3>2, Prepending DEF AddJson
    <3> QED
      BY <2>0, <2>5, <3>3 DEF AddJson, Return
  <2>6. ASSUME NEW w \in Writers, FindLast(w) PROVE TypeOK'
    <3>1. ASSUME NEW k \in Positions PROVE OrEmpty(ledger[k].hash) \in Hash
      <4>1. ledger[k] \in Row
        BY DEF Positions
      <4>2. ledger[k].hash \in Hash
        BY <4>1 DEF Row
      <4> QED
        BY <2>0, <4>2 DEF OrEmpty
    <3>2. PICK prev \in LatestHashes :
             writers' = [writers EXCEPT ![w].pc = "insert", ![w].prev = prev]
      BY <2>6 DEF FindLast
    <3>3. prev \in Hash
      BY <2>0, <3>1 DEF LatestHashes
    <3>4. [writers[w] EXCEPT !.pc = "insert", !.prev = prev] \in Writer
      BY <3>3 DEF Writer, Points
    <3>5. writers' \in [Writers -> Writer]
      BY <3>2, <3>4
    <3> QED
      BY <2>6, <3>5 DEF FindLast
  <2>7. ASSUME NEW w \in Writers, Insert(w) PROVE TypeOK'
    <3>1. writers[w].receipt \in Receipt /\ writers[w].prev \in Hash
      BY DEF Writer
    <3>2. ledger' \in Seq(Row)
      BY <2>7, <3>1, ChainedType, Prepending DEF Insert
    <3>3. ASSUME NEW v \in Writers PROVE writers'[v] \in Writer
      <4> DEFINE late == writers[v].overtaken \/ writers[v].pc = "insert"
      <4>1. writers'[v] = Idle \/ writers'[v] = [writers[v] EXCEPT !.overtaken = late]
        BY <2>7 DEF Insert
      <4>2. late \in BOOLEAN
        OBVIOUS
      <4> HIDE DEF late
      <4> QED
        BY <2>0, <4>1, <4>2 DEF Writer
    <3> QED
      BY <2>7, <3>2, <3>3 DEF Insert
  <2>8. ASSUME NEW w \in Writers, Fails(w) PROVE TypeOK'
    BY <2>0, <2>8 DEF Fails, Return
  <2>9. CASE Reset
    BY <2>9, SeedsType DEF Reset
  <2>10. CASE UNCHANGED chainVars
    BY <2>10 DEF chainVars
  <2> QED
    BY <2>2, <2>3, <2>4, <2>5, <2>6, <2>7, <2>8, <2>9, <2>10 DEF Next, Write
<1> QED
  BY <1>1, <1>2, PTL DEF Spec

---------------------------------------------------------------------------
(* The chain *)

\* Position k holds a receipt chained to what is below it.
Linked(k) ==
    /\ ledger[k].receipt.id # 0
    /\ ledger[k].hash = Digest(ledger[k].receipt, ledger[k].prev)
    /\ ledger[k].prev = IF k < Added THEN ledger[k + 1].hash ELSE Empty

\* A submission in flight has a number, and no Postgres insert under way.
Numbered(w) ==
    /\ writers[w].pc # "idle" => writers[w].receipt.id # 0
    /\ writers[w].pc # "insert"

\* The seeds stay at the bottom, everything above them is linked, and whatever
\* is about to be added is a receipt that was submitted.
ChainInv ==
    /\ Len(Seeds) <= Len(ledger)
    /\ \A k \in Positions : k > Added => ledger[k] = Seed
    /\ \A k \in 1..Added : Linked(k)
    /\ \A w \in Writers : Numbered(w)

\* The digest of a submitted receipt is not that of an unchained one.
LEMMA DigestDefined ==
    ASSUME NEW r \in Receipt, NEW p \in Hash, r.id # 0
    PROVE  Digest(r, p) # Undefined /\ OrEmpty(Digest(r, p)) = Digest(r, p)
<1>1. r.id \in 0..MaxReceipts
  BY DEF Receipt
<1>2. Digest(r, p)[1] = r.id
  BY <1>1, Prepending DEF Digest, Hash
<1>3. Undefined[1] = 0
  BY DEF Undefined
<1> QED
  BY <1>2, <1>3 DEF OrEmpty

\* An addition links to the newest receipt, or to nothing above the seeds.
LEMMA LastHashLinks ==
    ASSUME TypeOK, ChainInv
    PROVE  LastHash = IF Added > 0 THEN ledger[1].hash ELSE Empty
<1>1. Added \in Nat /\ Len(ledger) \in Nat /\ Len(Seeds) \in Nat
  BY SeedsType DEF TypeOK, ChainInv, Added
<1>2. CASE Added > 0
  <2>1. 1 \in 1..Added /\ 1 \in Positions /\ ledger # <<>>
    BY <1>1, <1>2 DEF Added, Positions
  <2>2. ledger[1] \in Row /\ Linked(1)
    BY <2>1 DEF TypeOK, ChainInv, Positions
  <2> QED
    BY <1>2, <2>1, <2>2, DigestDefined DEF Linked, LastHash, Row
<1>3. CASE Added = 0 /\ ledger # <<>>
  <2>1. ledger[1] = Seed
    BY <1>1, <1>3 DEF ChainInv, Positions, TypeOK
  <2> QED
    BY <1>3, <2>1 DEF LastHash, Seed, OrEmpty
<1>4. CASE ledger = <<>>
  BY <1>1, <1>4 DEF LastHash, Added
<1> QED
  BY <1>1, <1>2, <1>3, <1>4

\* An addition keeps the chain.
LEMMA AddKeepsChain ==
    ASSUME TypeOK, ChainInv, NEW w \in Writers, AddJson(w)
    PROVE  ChainInv'
<1> DEFINE new == Chained(writers[w].receipt, LastHash)
<1>1. Added \in Nat /\ Len(ledger) \in Nat /\ Len(Seeds) \in Nat
  BY SeedsType DEF TypeOK, ChainInv, Added
<1>2. writers[w].receipt \in Receipt /\ writers[w].receipt.id # 0
  BY DEF TypeOK, Writer, AddJson, ChainInv, Numbered
<1>3. new \in Row
  BY <1>2, LastHashType, ChainedType
<1>4. /\ Len(ledger') = Len(ledger) + 1
      /\ ledger'[1] = new
      /\ \A k \in 1..Len(ledger) : ledger'[k + 1] = ledger[k]
  BY <1>3, Prepending DEF AddJson, TypeOK
<1>5. Seeds' = Seeds /\ Added' = Added + 1
  BY <1>1, <1>4 DEF Seeds, Added
<1>6. ASSUME NEW k \in Positions', k > Added' PROVE ledger'[k] = Seed
  <2>1. k - 1 \in Positions /\ k - 1 > Added /\ (k - 1) + 1 = k
    BY <1>1, <1>4, <1>5, <1>6 DEF Positions
  <2>2. ledger[k - 1] = Seed
    BY <2>1 DEF ChainInv
  <2>3. ledger'[(k - 1) + 1] = ledger[k - 1]
    BY <1>4, <2>1 DEF Positions
  <2> QED
    BY <2>1, <2>2, <2>3
<1>7. ASSUME NEW k \in 1..Added' PROVE Linked(k)'
  <2>1. CASE k = 1
    <3>1. Added > 0 => ledger'[2] = ledger[1]
      <4>1. Added > 0 => 1 \in 1..Len(ledger) /\ 1 + 1 = 2
        BY <1>1 DEF Added
      <4> QED
        BY <1>4, <4>1
    <3>2. LastHash = IF k < Added' THEN ledger'[k + 1].hash ELSE Empty
      <4>1. 1 < Added' <=> Added > 0
        BY <1>1, <1>5
      <4>2. 1 + 1 = 2
        OBVIOUS
      <4> QED
        BY <2>1, <3>1, <4>1, <4>2, LastHashLinks
    <3>3. /\ new.receipt = writers[w].receipt
          /\ new.prev = LastHash
          /\ new.hash = Digest(new.receipt, new.prev)
      BY DEF Chained
    <3> QED
      BY <1>2, <1>4, <2>1, <3>2, <3>3 DEF Linked
  <2>2. CASE k # 1
    <3>1. /\ k - 1 \in 1..Added /\ k - 1 \in 1..Len(ledger)
          /\ (k - 1) + 1 = k
          /\ k < Added' <=> k - 1 < Added
          /\ k < Added' => k \in 1..Len(ledger)
      BY <1>1, <1>5, <2>2 DEF Added
    <3>2. Linked(k - 1)
      BY <3>1 DEF ChainInv
    <3>3. ledger'[k] = ledger[k - 1]
      BY <1>4, <3>1
    <3>4. k < Added' => ledger'[k + 1] = ledger[k]
      BY <1>4, <3>1
    <3> QED
      BY <3>1, <3>2, <3>3, <3>4 DEF Linked
  <2> QED
    BY <2>1, <2>2
<1>8. Len(Seeds') <= Len(ledger')
  BY <1>1, <1>4, <1>5 DEF ChainInv
<1>9. \A v \in Writers : Numbered(v)'
  BY DEF AddJson, Return, Idle, ChainInv, Numbered, TypeOK
<1> QED
  BY <1>6, <1>7, <1>8, <1>9 DEF ChainInv

\* Steps that leave the ledger alone keep the chain, if what they submit has
\* a number.
LEMMA IdleLedgerKeepsChain ==
    ASSUME ChainInv, UNCHANGED ledger,
           \A w \in Writers : Numbered(w)'
    PROVE  ChainInv'
BY DEF ChainInv, Linked, Added, Positions, Seeds

LEMMA SeedsChained == ASSUME ledger = Seeds PROVE
    /\ Len(Seeds) <= Len(ledger)
    /\ Added = 0
    /\ \A k \in Positions : k > Added => ledger[k] = Seed
<1>1. Len(Seeds) \in Nat
  BY SeedsType
<1>2. \A k \in 1..Len(Seeds) : Seeds[k] = Seed
  BY LedgerAssumption DEF Seeds
<1> QED
  BY <1>1, <1>2 DEF Added, Positions

LEMMA ChainInvariant == ASSUME Store = "json" PROVE Spec => []ChainInv
<1>1. Init => ChainInv
  <2> SUFFICES ASSUME Init PROVE ChainInv
    OBVIOUS
  <2>1. \A w \in Writers : writers[w].pc = "idle"
    BY DEF Init, Idle
  <2> QED
    BY <2>1, SeedsChained DEF Init, ChainInv, Numbered
<1>2. TypeOK /\ ChainInv /\ [Next]_chainVars => ChainInv'
  <2> SUFFICES ASSUME TypeOK, ChainInv, [Next]_chainVars PROVE ChainInv'
    OBVIOUS
  <2>1. ASSUME NEW w \in Writers, NEW pc \in {"evaluate", "add"}, NEW t, NEW d,
               Submit(w, pc, t, d)
        PROVE  ChainInv'
    <3>1. count + 1 # 0
      BY DEF TypeOK
    <3>2. \A v \in Writers : Numbered(v)'
      BY <2>1, <3>1 DEF Submit, TypeOK, ChainInv, Numbered
    <3> QED
      BY <2>1, <3>2, IdleLedgerKeepsChain DEF Submit
  <2>2. ASSUME NEW w \in Writers, NEW d \in Decisions, Evaluate(w, d) PROVE ChainInv'
    <3>1. \A v \in Writers : Numbered(v)'
      <4>1. CASE Return(w)
        BY <4>1 DEF Return, Idle, TypeOK, ChainInv, Numbered
      <4>2. CASE writers' = [writers EXCEPT ![w] =
                                [@ EXCEPT !.pc = "add", !.receipt.decision = d]]
        <5>1. writers'[w].receipt.id = writers[w].receipt.id
          BY <4>2 DEF TypeOK, Writer, Receipt
        <5>2. writers[w].pc # "idle"
          BY <2>2 DEF Evaluate
        <5> QED
          BY <4>2, <5>1, <5>2 DEF TypeOK, ChainInv, Numbered
      <4> QED
        BY <2>2, <4>1, <4>2 DEF Evaluate
    <3> QED
      BY <2>2, <3>1, IdleLedgerKeepsChain DEF Evaluate
  <2>3. ASSUME NEW w \in Writers, AddJson(w) PROVE ChainInv'
    BY <2>3, AddKeepsChain
  <2>4. ASSUME NEW w \in Writers, FindLast(w) PROVE ChainInv'
    BY <2>4 DEF FindLast
  <2>5. ASSUME NEW w \in Writers, Insert(w) PROVE ChainInv'
    BY <2>5 DEF Insert, ChainInv, Numbered
  <2>6. ASSUME NEW w \in Writers, Fails(w) PROVE ChainInv'
    <3>1. \A v \in Writers : Numbered(v)'
      BY <2>6 DEF Fails, Return, Idle, TypeOK, ChainInv, Numbered
    <3> QED
      BY <2>6, <3>1, IdleLedgerKeepsChain DEF Fails
  <2>7. CASE Reset
    <3>1. ledger' = Seeds /\ Seeds' = Seeds /\ Len(Seeds) \in Nat
      BY <2>7, SeedsType DEF Reset, Seeds
    <3>2. Added' = 0 /\ Len(Seeds') <= Len(ledger')
      BY <3>1 DEF Added
    <3>3. \A k \in Positions' : ledger'[k] = Seed
      BY <3>1, LedgerAssumption DEF Positions, Seeds
    <3>4. \A w \in Writers : Numbered(w)'
      BY <2>7 DEF Reset, ChainInv, Numbered
    <3> QED
      BY <3>2, <3>3, <3>4 DEF ChainInv
  <2>8. CASE UNCHANGED chainVars
    BY <2>8, IdleLedgerKeepsChain DEF chainVars, ChainInv, Numbered
  <2> QED
    BY <2>1, <2>2, <2>3, <2>4, <2>5, <2>6, <2>7, <2>8
    DEF Next, Write, Post, Mint
<1> QED
  BY <1>1, <1>2, LedgerTypeCorrect, PTL DEF Spec

\* Whatever submissions interleave, fail or are cut short by a reset, the
\* receipts added to the JSON ledger since its seeds form one chain that
\* verifyAuditChain accepts.
THEOREM JsonLedgerVerifies ==
    ASSUME Store = "json" PROVE Spec => []AddedReceiptsVerify
<1>1. TypeOK /\ ChainInv => AddedReceiptsVerify
  <2> SUFFICES ASSUME TypeOK, ChainInv, Added > 0
               PROVE  Verifies(SubSeq(ledger, 1, Added))
    BY DEF AddedReceiptsVerify
  <2> DEFINE v == SubSeq(ledger, 1, Added)
  <2>1. Added \in Nat /\ Len(ledger) \in Nat /\ Added <= Len(ledger)
    BY SeedsType DEF TypeOK, ChainInv, Added
  <2>2. Len(v) = Added /\ DOMAIN v = 1..Added /\ \A k \in 1..Added : v[k] = ledger[k]
    BY <2>1 DEF TypeOK
  <2>3. ASSUME NEW k \in 1..Added PROVE ledger[k] \in Row /\ Linked(k)
    BY <2>1 DEF TypeOK, ChainInv
  <2>4. ASSUME NEW k \in 1..Added PROVE OrEmpty(ledger[k].prev) = ledger[k].prev
    <3>1. CASE k < Added
      <4>1. k + 1 \in 1..Added
        BY <2>1, <3>1
      <4>2. ledger[k + 1] \in Row /\ Linked(k + 1)
        BY <2>3, <4>1
      <4>3. OrEmpty(ledger[k + 1].hash) = ledger[k + 1].hash
        BY <4>2, DigestDefined DEF Linked, Row
      <4> QED
        BY <2>3, <3>1, <4>3 DEF Linked
    <3>2. CASE ~(k < Added)
      BY <2>3, <3>2 DEF Linked, OrEmpty
    <3> QED
      BY <3>1, <3>2
  <2>5. ASSUME NEW k \in 1..Added
        PROVE  /\ v[k].hash = Digest(v[k].receipt, OrEmpty(v[k].prev))
               /\ v[k].prev = IF k < Len(v) THEN v[k + 1].hash ELSE Empty
    <3>1. k < Added => k + 1 \in 1..Added
      BY <2>1
    <3> QED
      BY <2>2, <2>3, <2>4, <3>1 DEF Linked
  <2> QED
    BY <2>2, <2>5 DEF Verifies
<1> QED
  BY <1>1, LedgerTypeCorrect, ChainInvariant, PTL

\* A digest covers as many receipts as the chain has below it, and its own.
LengthInv ==
    \A k \in 1..Added : /\ Len(ledger[k].prev) = Added - k
                        /\ Len(ledger[k].hash) = Added - k + 1

LEMMA AddKeepsLengths ==
    ASSUME TypeOK, ChainInv, LengthInv, NEW w \in Writers, AddJson(w)
    PROVE  LengthInv'
<1> DEFINE new == Chained(writers[w].receipt, LastHash)
<1>1. Added \in Nat /\ Len(ledger) \in Nat /\ Added <= Len(ledger)
  BY SeedsType DEF TypeOK, ChainInv, Added
<1>2. writers[w].receipt \in Receipt /\ LastHash \in Hash
  BY LastHashType DEF TypeOK, Writer
<1>3. /\ Len(ledger') = Len(ledger) + 1
      /\ ledger'[1] = new
      /\ \A k \in 1..Len(ledger) : ledger'[k + 1] = ledger[k]
  BY <1>2, ChainedType, Prepending DEF AddJson, TypeOK
<1>4. Added' = Added + 1
  BY <1>1, <1>3, SeedsType DEF Added, Seeds
<1>5. Len(LastHash) = Added
  <2>1. CASE Added > 0
    BY <1>1, <2>1, LastHashLinks DEF LengthInv
  <2>2. CASE ~(Added > 0)
    BY <1>1, <2>2, LastHashLinks DEF Empty
  <2> QED
    BY <2>1, <2>2
<1>6. Len(new.prev) = Added /\ Len(new.hash) = Added + 1
  <2>1. <<writers[w].receipt.id>> \in Hash
    BY <1>2 DEF Receipt, Hash
  <2>2. Len(Digest(writers[w].receipt, LastHash)) = Len(LastHash) + 1
    BY <1>2, <2>1 DEF Digest, Hash
  <2> QED
    BY <1>5, <2>2 DEF Chained
<1>7. ASSUME NEW k \in 1..Added', k # 1
      PROVE  k - 1 \in 1..Added /\ ledger'[k] = ledger[k - 1]
  <2>1. k - 1 \in 1..Added /\ k - 1 \in 1..Len(ledger) /\ (k - 1) + 1 = k
    BY <1>1, <1>4, <1>7
  <2> QED
    BY <1>3, <2>1
<1>8. ASSUME NEW k \in 1..Added'
      PROVE  /\ Len(ledger'[k].prev) = Added' - k
             /\ Len(ledger'[k].hash) = Added' - k + 1
  <2>1. CASE k = 1
    BY <1>1, <1>3, <1>4, <1>6, <2>1
  <2>2. CASE k # 1
    <3> DEFINE below == k - 1
    <3>1. below \in 1..Added /\ ledger'[k] = ledger[below]
      BY <1>7, <2>2
    <3>2. Len(ledger[below].prev) = Added - below /\ Len(ledger[below].hash) = Added - below + 1
      BY <3>1 DEF LengthInv
    <3>3. Added - below = Added' - k
      BY <1>1, <1>4
    <3> QED
      BY <3>1, <3>2, <3>3
  <2> QED
    BY <2>1, <2>2
<1> QED
  BY <1>8 DEF LengthInv

\* Nor does any addition to the file fork the chain: however submissions and
\* resets interleave, no two receipts extend the same one.
THEOREM JsonNeverForks ==
    ASSUME Store = "json" PROVE Spec => []NoForks
<1>1. Init => LengthInv
  BY SeedsChained DEF Init, LengthInv
<1>2. TypeOK /\ ChainInv /\ LengthInv /\ [Next]_chainVars => LengthInv'
  <2> SUFFICES ASSUME TypeOK, ChainInv, LengthInv, [Next]_chainVars PROVE LengthInv'
    OBVIOUS
  <2>1. ASSUME NEW w \in Writers, AddJson(w) PROVE LengthInv'
    BY <2>1, AddKeepsLengths
  <2>2. CASE Reset
    <3>1. ledger' = Seeds /\ Seeds' = Seeds /\ Len(Seeds) \in Nat
      BY <2>2, SeedsType DEF Reset, Seeds
    <3> QED
      BY <3>1 DEF Added, LengthInv
  <2>3. CASE UNCHANGED ledger
    BY <2>3 DEF LengthInv, Added, Seeds
  <2>4. ASSUME NEW w \in Writers PROVE ~Insert(w)
    BY DEF ChainInv, Numbered, Insert
  <2> QED
    BY <2>1, <2>2, <2>3, <2>4
    DEF Next, Write, Post, Mint, Submit, Evaluate, FindLast, Fails, chainVars
<1>3. TypeOK /\ ChainInv /\ LengthInv => NoForks
  <2> SUFFICES ASSUME TypeOK, ChainInv, LengthInv, NEW j \in Positions, NEW k \in Positions,
                      j # k, ledger[j].receipt.id # 0, ledger[k].receipt.id # 0
               PROVE  ledger[j].prev # ledger[k].prev
    BY DEF NoForks
  <2>1. Added \in Nat /\ Len(ledger) \in Nat
    BY SeedsType DEF TypeOK, ChainInv, Added
  <2>2. Seed.receipt.id = 0
    BY DEF Seed, NoReceipt
  <2>3. j \in 1..Added /\ k \in 1..Added
    BY <2>1, <2>2 DEF ChainInv, Positions
  <2> QED
    BY <2>1, <2>3 DEF LengthInv
<1> QED
  BY <1>1, <1>2, <1>3, LedgerTypeCorrect, ChainInvariant, PTL DEF Spec

---------------------------------------------------------------------------
(* The two statements of Postgres *)

\* The receipt a digest belongs to; that of the empty digest is before them all.
Extends(hash) == IF hash = Empty THEN 0 ELSE hash[1]

Stamped(k) ==
    /\ ledger[k].receipt.id \in 1..count
    /\ ledger[k].hash # Empty
    /\ Extends(ledger[k].hash) = ledger[k].receipt.id
    /\ Extends(ledger[k].prev) \in 0..count

\* A receipt in flight is none of those stored, extended or in flight besides.
Fresh(w) ==
    LET id == writers[w].receipt.id IN
    /\ id \in 1..count
    /\ \A k \in Positions : ledger[k].receipt.id # id /\ Extends(ledger[k].prev) # id
    /\ \A v \in Writers : v # w /\ writers[v].pc # "idle" => writers[v].receipt.id # id

\* What a submission looked up is no receipt in flight, and still the latest one
\* if no other was inserted since, unless a reset erased it.
Found(w) ==
    /\ Extends(writers[w].prev) \in 0..count
    /\ \A v \in Writers :
          writers[v].pc # "idle" => Extends(writers[w].prev) # writers[v].receipt.id
    /\ ~writers[w].overtaken =>
          \/ ledger = <<>>
          \/ \E k \in Positions : IsLatest(k) /\ writers[w].prev = ledger[k].hash

\* A receipt extends none that was stored with it or after it.
RaceInv ==
    /\ \A k \in Positions : Stamped(k)
    /\ \A j, k \in Positions : j <= k => Extends(ledger[k].prev) # ledger[j].receipt.id
    /\ \A w \in Writers : writers[w].pc # "idle" => Fresh(w)
    /\ \A w \in Writers : writers[w].pc = "insert" => Found(w)

\* Steps that store nothing and send nothing new.
LEMMA SameLedgerKeepsRaces ==
    ASSUME TypeOK, RaceInv, UNCHANGED <<ledger, count>>,
           \A w \in Writers : writers'[w].pc # "idle" =>
               writers[w].pc # "idle" /\ writers'[w].receipt.id = writers[w].receipt.id,
           \A w \in Writers : writers'[w].pc = "insert" => Found(w)'
    PROVE  RaceInv'
<1>1. Positions' = Positions
  BY DEF Positions
<1>2. ASSUME NEW k \in Positions PROVE Stamped(k)'
  BY DEF RaceInv, Stamped, Extends, Empty
<1>3. ASSUME NEW w \in Writers, writers'[w].pc # "idle" PROVE Fresh(w)'
  <2>1. Fresh(w) /\ writers'[w].receipt.id = writers[w].receipt.id
    BY <1>3 DEF RaceInv
  <2> QED
    BY <1>1, <2>1 DEF Fresh, Extends, Empty
<1> QED
  BY <1>1, <1>2, <1>3 DEF RaceInv, Extends, Empty

\* The statement looks up a latest receipt, or nothing.
LEMMA LookupFinds ==
    ASSUME TypeOK, RaceInv, NEW prev \in LatestHashes
    PROVE  /\ ledger = <<>> \/ \E k \in Positions : IsLatest(k) /\ prev = ledger[k].hash
           /\ Extends(prev) = 0 \/ \E k \in Positions : Extends(prev) = ledger[k].receipt.id
<1>1. CASE ledger = <<>>
  BY <1>1 DEF LatestHashes, Extends
<1>2. CASE ledger # <<>>
  <2>1. PICK k \in Positions : IsLatest(k) /\ prev = OrEmpty(ledger[k].hash)
    BY <1>2 DEF LatestHashes
  <2>2. Stamped(k)
    BY DEF RaceInv
  <2>3. Extends(Undefined) = 0
    BY DEF Extends, Undefined, Empty
  <2>4. prev = ledger[k].hash
    BY <2>1, <2>2, <2>3 DEF Stamped, OrEmpty
  <2> QED
    BY <2>1, <2>2, <2>4 DEF Stamped
<1> QED
  BY <1>1, <1>2

LEMMA FindLastKeepsRaces ==
    ASSUME TypeOK, RaceInv, NEW w \in Writers, FindLast(w)
    PROVE  RaceInv'
<1>1. PICK prev \in LatestHashes :
         writers' = [writers EXCEPT ![w].pc = "insert", ![w].prev = prev]
  BY DEF FindLast
<1>2. UNCHANGED <<ledger, count>> /\ writers[w].pc = "add" /\ count \in Nat
  BY DEF FindLast, TypeOK
<1>3. ASSUME NEW v \in Writers
      PROVE  /\ writers'[v].receipt = writers[v].receipt
             /\ writers'[v].overtaken = writers[v].overtaken
             /\ writers'[v].pc = IF v = w THEN "insert" ELSE writers[v].pc
             /\ writers'[v].prev = IF v = w THEN prev ELSE writers[v].prev
  BY <1>1 DEF TypeOK, Writer
<1>4. \A v \in Writers : writers'[v].pc # "idle" =>
          writers[v].pc # "idle" /\ writers'[v].receipt.id = writers[v].receipt.id
  BY <1>2, <1>3
<1>5. ASSUME NEW v \in Writers, writers'[v].pc = "insert" PROVE Found(v)'
  <2>1. CASE v = w
    <3>1. Extends(prev) = 0 \/ \E k \in Positions : Extends(prev) = ledger[k].receipt.id
      BY LookupFinds
    <3>2. \A k \in Positions : ledger[k].receipt.id \in 1..count
      BY DEF RaceInv, Stamped
    <3>3. Extends(prev) \in 0..count
      BY <1>2, <3>1, <3>2
    <3>4. ASSUME NEW u \in Writers, writers'[u].pc # "idle"
          PROVE  Extends(prev) # writers'[u].receipt.id
      <4>1. Fresh(u) /\ writers'[u].receipt.id = writers[u].receipt.id
        BY <1>4, <3>4 DEF RaceInv
      <4> QED
        BY <1>2, <3>1, <4>1 DEF Fresh
    <3>5. ledger' = <<>> \/ \E k \in Positions' : IsLatest(k)' /\ prev = ledger'[k].hash
      BY <1>2, LookupFinds DEF Positions, IsLatest
    <3> QED
      BY <1>2, <1>3, <2>1, <3>3, <3>4, <3>5 DEF Found, Extends, Empty
  <2>2. CASE v # w
    <3>1. Found(v) /\ writers'[v].prev = writers[v].prev /\ writers'[v].overtaken = writers[v].overtaken
      BY <1>3, <1>5, <2>2 DEF RaceInv
    <3> QED
      BY <1>2, <1>4, <3>1 DEF Found, Extends, Empty, Positions, IsLatest
  <2> QED
    BY <2>1, <2>2
<1> QED
  BY <1>2, <1>4, <1>5, SameLedgerKeepsRaces

LEMMA SubmitKeepsRaces ==
    ASSUME TypeOK, RaceInv, NEW w \in Writers, NEW pc \in {"evaluate", "add"}, NEW t, NEW d,
           Submit(w, pc, t, d)
    PROVE  RaceInv'
<1>1. /\ ledger' = ledger /\ count \in Nat /\ count' = count + 1 /\ Positions' = Positions
      /\ count + 1 \notin 0..count /\ 0..count \subseteq 0..count' /\ 1..count \subseteq 1..count'
  BY DEF Submit, TypeOK, Positions
<1>2. writers'[w].receipt.id = count + 1 /\ writers'[w].pc # "insert"
  BY DEF Submit, TypeOK
<1>3. \A v \in Writers : v # w => writers'[v] = writers[v]
  BY DEF Submit, TypeOK
<1>4. ASSUME NEW k \in Positions
      PROVE  Stamped(k)' /\ ledger[k].receipt.id # count + 1 /\ Extends(ledger[k].prev) # count + 1
  <2>1. Stamped(k)
    BY DEF RaceInv
  <2> QED
    BY <1>1, <2>1 DEF Stamped, Extends, Empty
<1>5. ASSUME NEW v \in Writers, writers'[v].pc # "idle" PROVE Fresh(v)'
  <2>1. CASE v = w
    <3>1. ASSUME NEW u \in Writers, u # w, writers'[u].pc # "idle"
          PROVE  writers'[u].receipt.id # count + 1
      <4>1. Fresh(u) /\ writers'[u] = writers[u]
        BY <1>3, <3>1 DEF RaceInv
      <4> QED
        BY <1>1, <4>1 DEF Fresh
    <3>2. count + 1 \in 1..count'
      BY <1>1
    <3> QED
      BY <1>1, <1>2, <1>4, <2>1, <3>1, <3>2 DEF Fresh, Extends, Empty
  <2>2. CASE v # w
    <3>1. Fresh(v) /\ writers'[v] = writers[v]
      BY <1>3, <1>5, <2>2 DEF RaceInv
    <3> QED
      BY <1>1, <1>2, <1>3, <2>2, <3>1 DEF Fresh, Extends, Empty
  <2> QED
    BY <2>1, <2>2
<1>6. ASSUME NEW v \in Writers, writers'[v].pc = "insert" PROVE Found(v)'
  <2>1. v # w /\ writers'[v] = writers[v] /\ Found(v)
    BY <1>2, <1>3, <1>6 DEF RaceInv
  <2> QED
    BY <1>1, <1>2, <1>3, <2>1 DEF Found, Extends, Empty, IsLatest
<1>7. \A j, k \in Positions : j <= k => Extends(ledger[k].prev) # ledger[j].receipt.id
  BY DEF RaceInv
<1> QED
  BY <1>1, <1>4, <1>5, <1>6, <1>7 DEF RaceInv, Extends, Empty

LEMMA InsertKeepsRaces ==
    ASSUME TypeOK, RaceInv, NEW w \in Writers, Insert(w)
    PROVE  RaceInv'
<1> DEFINE r == writers[w].receipt
           p == writers[w].prev
           new == Chained(r, p)
<1>1. r \in Receipt /\ p \in Hash /\ r.id \in 0..MaxReceipts
  BY DEF TypeOK, Writer, Receipt
<1>2. Fresh(w) /\ Found(w) /\ writers[w].pc = "insert"
  BY DEF Insert, RaceInv
<1>3. Len(ledger) \in Nat /\ ledger \in Seq(Row) /\ new \in Row
  BY <1>1, ChainedType DEF TypeOK
<1>4. /\ Len(ledger') = Len(ledger) + 1
      /\ ledger'[1] = new
      /\ \A k \in 1..Len(ledger) : ledger'[k + 1] = ledger[k]
  BY <1>3, Prepending DEF Insert
<1>5. new.hash # Empty /\ Extends(new.hash) = r.id
  <2>1. Len(Digest(r, p)) = Len(p) + 1 /\ Digest(r, p)[1] = r.id /\ Len(p) \in Nat
    BY <1>1, Prepending DEF Digest, Hash
  <2>2. Digest(r, p) # Empty
    BY <2>1 DEF Empty
  <2> QED
    BY <2>1, <2>2 DEF Chained, Extends
<1>6. new.receipt = r /\ new.prev = p
  BY DEF Chained
<1>7. count' = count
  BY DEF Insert
<1>8. \A v \in Writers :
         writers'[v] = IF v = w THEN Idle
                       ELSE [writers[v] EXCEPT !.overtaken = @ \/ writers[v].pc = "insert"]
  BY DEF Insert
<1>9. ASSUME NEW v \in Writers, writers'[v].pc # "idle"
      PROVE  /\ v # w /\ writers[v].pc # "idle" /\ writers'[v].pc = writers[v].pc
             /\ writers'[v].receipt = writers[v].receipt /\ writers'[v].prev = writers[v].prev
             /\ writers[v].pc = "insert" => writers'[v].overtaken
  <2>1. v # w
    <3>1. Idle.pc = "idle" /\ writers'[w] = Idle
      BY <1>8 DEF Idle
    <3> QED
      BY <1>9, <3>1
  <2>2. writers[v] \in Writer /\ (writers[v].overtaken \/ writers[v].pc = "insert") \in BOOLEAN
    BY DEF TypeOK
  <2> QED
    BY <1>8, <1>9, <2>1, <2>2 DEF Writer
<1>10. r.id \in 1..count /\ Extends(p) \in 0..count /\ Extends(p) # r.id
  BY <1>2 DEF Fresh, Found
<1> HIDE DEF r, p, new
<1>11. ASSUME NEW k \in Positions', k # 1
      PROVE  k - 1 \in Positions /\ ledger'[k] = ledger[k - 1]
  <2>1. k - 1 \in 1..Len(ledger) /\ (k - 1) + 1 = k
    BY <1>3, <1>4, <1>11 DEF Positions
  <2> QED
    BY <1>4, <2>1 DEF Positions
<1>12. ASSUME NEW k \in Positions' PROVE Stamped(k)'
  <2>1. CASE k = 1
    BY <1>4, <1>5, <1>6, <1>7, <1>10, <2>1 DEF Stamped, Extends, Empty
  <2>2. CASE k # 1
    <3>1. ledger'[k] = ledger[k - 1] /\ Stamped(k - 1)
      BY <1>11, <2>2 DEF RaceInv
    <3> QED
      BY <1>7, <3>1 DEF Stamped, Extends, Empty
  <2> QED
    BY <2>1, <2>2
<1>13. ASSUME NEW k \in Positions PROVE Extends(ledger[k].prev) # r.id
  BY <1>2 DEF Fresh, r
<1>14. ASSUME NEW j \in Positions', NEW k \in Positions', j <= k
       PROVE  Extends(ledger'[k].prev) # ledger'[j].receipt.id
  <2>1. j \in 1..Len(ledger') /\ k \in 1..Len(ledger')
    BY <1>3, <1>4 DEF Positions
  <2>2. CASE k = 1
    <3>1. j = 1
      BY <1>3, <1>4, <1>14, <2>1, <2>2
    <3> QED
      BY <1>4, <1>6, <1>10, <2>2, <3>1
  <2>3. CASE k # 1 /\ j = 1
    BY <1>4, <1>6, <1>11, <1>13, <2>3
  <2>4. CASE k # 1 /\ j # 1
    <3>1. /\ k - 1 \in Positions /\ ledger'[k] = ledger[k - 1]
          /\ j - 1 \in Positions /\ ledger'[j] = ledger[j - 1] /\ j - 1 <= k - 1
      BY <1>3, <1>4, <1>11, <1>14, <2>1, <2>4
    <3> QED
      BY <3>1 DEF RaceInv
  <2> QED
    BY <2>2, <2>3, <2>4
<1>15. ASSUME NEW v \in Writers, writers'[v].pc # "idle" PROVE Fresh(v)'
  <2>1. /\ v # w /\ writers[v].pc # "idle" /\ Fresh(v)
        /\ writers'[v].receipt.id = writers[v].receipt.id
    BY <1>9, <1>15 DEF RaceInv
  <2>2. r.id # writers[v].receipt.id /\ Extends(p) # writers[v].receipt.id
    BY <1>2, <2>1 DEF Fresh, Found, r, p
  <2>3. ASSUME NEW k \in Positions'
        PROVE  /\ ledger'[k].receipt.id # writers[v].receipt.id
               /\ Extends(ledger'[k].prev) # writers[v].receipt.id
    <3>1. CASE k = 1
      BY <1>4, <1>6, <2>2, <3>1
    <3>2. CASE k # 1
      <4>1. k - 1 \in Positions /\ ledger'[k] = ledger[k - 1]
        BY <1>11, <3>2
      <4> QED
        BY <2>1, <4>1 DEF Fresh
    <3> QED
      BY <3>1, <3>2
  <2>4. ASSUME NEW u \in Writers, u # v, writers'[u].pc # "idle"
        PROVE  writers'[u].receipt.id # writers[v].receipt.id
    <3>1. writers[u].pc # "idle" /\ writers'[u].receipt = writers[u].receipt
      BY <1>9, <2>4
    <3> QED
      BY <2>1, <2>4, <3>1 DEF Fresh
  <2> QED
    BY <1>7, <2>1, <2>3, <2>4 DEF Fresh, Extends, Empty
<1>16. ASSUME NEW v \in Writers, writers'[v].pc = "insert" PROVE Found(v)'
  <2>1. /\ writers[v].pc = "insert" /\ Found(v) /\ writers'[v].overtaken
        /\ writers'[v].prev = writers[v].prev
    BY <1>9, <1>16 DEF RaceInv
  <2>2. ASSUME NEW u \in Writers, writers'[u].pc # "idle"
        PROVE  Extends(writers[v].prev) # writers'[u].receipt.id
    <3>1. writers[u].pc # "idle" /\ writers'[u].receipt = writers[u].receipt
      BY <1>9, <2>2
    <3> QED
      BY <2>1, <3>1 DEF Found
  <2> QED
    BY <1>7, <2>1, <2>2 DEF Found, Extends, Empty
<1> QED
  BY <1>12, <1>14, <1>15, <1>16 DEF RaceInv, Extends, Empty

LEMMA RaceInvariant == ASSUME Store = "postgres" PROVE Spec => []RaceInv
<1>1. Init => RaceInv
  <2> SUFFICES ASSUME Init PROVE RaceInv
    OBVIOUS
  <2>1. Positions = {} /\ \A w \in Writers : writers[w].pc = "idle"
    BY DEF Init, Seeds, Positions, Idle
  <2> QED
    BY <2>1 DEF RaceInv
<1>2. TypeOK /\ RaceInv /\ [Next]_chainVars => RaceInv'
  <2> SUFFICES ASSUME TypeOK, RaceInv, [Next]_chainVars PROVE RaceInv'
    OBVIOUS
  <2>1. ASSUME NEW w \in Writers, Return(w), UNCHANGED <<ledger, count>> PROVE RaceInv'
    <3>1. ASSUME NEW v \in Writers, writers'[v].pc # "idle" PROVE writers'[v] = writers[v]
      BY <2>1, <3>1 DEF Return, Idle, TypeOK
    <3>2. ASSUME NEW v \in Writers, writers'[v].pc = "insert" PROVE Found(v)'
      <4>1. Found(v) /\ writers'[v] = writers[v]
        BY <3>1, <3>2 DEF RaceInv
      <4> QED
        BY <2>1, <3>1, <4>1 DEF Found, Extends, Empty, Positions, IsLatest
    <3> QED
      BY <2>1, <3>1, <3>2, SameLedgerKeepsRaces
  <2>2. ASSUME NEW w \in Writers, NEW d \in Decisions, Evaluate(w, d) PROVE RaceInv'
    <3>1. CASE Return(w)
      BY <2>1, <2>2, <3>1 DEF Evaluate
    <3>2. CASE writers' = [writers EXCEPT ![w] =
                              [@ EXCEPT !.pc = "add", !.receipt.decision = d]]
      <4>1. UNCHANGED <<ledger, count>> /\ writers[w].pc = "evaluate"
        BY <2>2 DEF Evaluate
      <4>2. ASSUME NEW v \in Writers
            PROVE  /\ writers'[v].receipt.id = writers[v].receipt.id
                   /\ v # w => writers'[v] = writers[v]
                   /\ v = w => writers'[v].pc = "add"
        BY <3>2 DEF TypeOK, Writer, Receipt
      <4>3. \A v \in Writers : writers'[v].pc # "idle" => writers[v].pc # "idle"
        BY <4>1, <4>2
      <4>4. ASSUME NEW v \in Writers, writers'[v].pc = "insert" PROVE Found(v)'
        <5>1. Found(v) /\ writers'[v] = writers[v]
          BY <4>2, <4>4 DEF RaceInv
        <5> QED
          BY <4>1, <4>2, <4>3, <5>1 DEF Found, Extends, Empty, Positions, IsLatest
      <4> QED
        BY <4>1, <4>2, <4>3, <4>4, SameLedgerKeepsRaces
    <3> QED
      BY <2>2, <3>1, <3>2 DEF Evaluate
  <2>3. ASSUME NEW w \in Writers, Fails(w) PROVE RaceInv'
    BY <2>1, <2>3 DEF Fails
  <2>4. CASE Reset
    <3>1. ledger' = <<>> /\ Positions' = {} /\ UNCHANGED <<writers, count>>
      BY <2>4 DEF Reset, Seeds, Positions
    <3>2. ASSUME NEW w \in Writers, writers[w].pc # "idle" PROVE Fresh(w)'
      <4>1. Fresh(w)
        BY <3>2 DEF RaceInv
      <4> QED
        BY <3>1, <4>1 DEF Fresh
    <3>3. ASSUME NEW w \in Writers, writers[w].pc = "insert" PROVE Found(w)'
      <4>1. Found(w)
        BY <3>3 DEF RaceInv
      <4> QED
        BY <3>1, <4>1 DEF Found, Extends, Empty
    <3> QED
      BY <3>1, <3>2, <3>3 DEF RaceInv
  <2>5. CASE UNCHANGED chainVars
    <3>1. ASSUME NEW w \in Writers, writers[w].pc = "insert" PROVE Found(w)'
      <4>1. Found(w)
        BY <3>1 DEF RaceInv
      <4> QED
        BY <2>5, <4>1 DEF chainVars, Found, Extends, Empty, Positions, IsLatest
    <3> QED
      BY <2>5, <3>1, SameLedgerKeepsRaces DEF chainVars
  <2>6. ASSUME NEW w \in Writers, AddJson(w) PROVE RaceInv'
    BY <2>6 DEF AddJson
  <2>7. ASSUME NEW w \in Writers, NEW t \in Times, NEW d \in Decisions, Post(w, t, d)
        PROVE  RaceInv'
    BY <2>7, SubmitKeepsRaces DEF Post
  <2>8. ASSUME NEW w \in Writers, NEW d \in Decisions, Mint(w, d) PROVE RaceInv'
    BY <2>8, SubmitKeepsRaces DEF Mint
  <2>9. ASSUME NEW w \in Writers, Write(w) PROVE RaceInv'
    BY <2>2, <2>3, <2>6, <2>7, <2>8, <2>9, FindLastKeepsRaces, InsertKeepsRaces DEF Write
  <2> QED
    BY <2>4, <2>5, <2>9 DEF Next
<1> QED
  BY <1>1, <1>2, LedgerTypeCorrect, PTL DEF Spec

\* Whatever overlaps, fails or is reset, and whatever times the issuers give, two
\* receipts of the Postgres ledger extend the same one only by an insert that
\* another overtook, or over a receipt that was not the latest when it was stored.
THEOREM PostgresForksAreRaces == ASSUME Store = "postgres" PROVE Spec => OnlyRacesFork
<1> DEFINE Forkless ==
               \A w \in Writers : Insert(w) /\ ~writers[w].overtaken /\ TopIsLatest
                   => \A k \in Positions : ledger[k].prev # writers[w].prev
<1>1. TypeOK /\ RaceInv => Forkless
  <2> SUFFICES ASSUME TypeOK, RaceInv, NEW w \in Writers, Insert(w), ~writers[w].overtaken,
                      TopIsLatest, NEW k \in Positions
               PROVE  ledger[k].prev # writers[w].prev
    OBVIOUS
  <2>1. k \in 1..Len(ledger) /\ Len(ledger) \in Nat /\ ledger # <<>>
    BY DEF Positions, TypeOK
  <2>2. PICK j \in Positions : IsLatest(j) /\ writers[w].prev = ledger[j].hash
    BY <2>1 DEF Insert, RaceInv, Found
  <2>3. 1 \in Positions /\ j = 1
    <3>1. 1 \in Positions
      BY <2>1 DEF Positions
    <3>2. ledger[1] \in Row /\ ledger[j] \in Row
      BY <2>2, <3>1 DEF Positions, TypeOK
    <3>3. ledger[1].receipt.issued \in Nat /\ ledger[j].receipt.issued \in Nat
      BY <3>2, LedgerAssumption DEF Row, Receipt
    <3>4. ledger[1].receipt.issued <= ledger[j].receipt.issued
      BY <2>2, <3>1 DEF IsLatest
    <3>5. j # 1 => ledger[j].receipt.issued < ledger[1].receipt.issued
      BY <2>2 DEF TopIsLatest
    <3> QED
      BY <3>1, <3>3, <3>4, <3>5
  <2>4. Extends(ledger[k].prev) # ledger[1].receipt.id
    BY <2>1, <2>3 DEF RaceInv
  <2>5. Extends(writers[w].prev) = ledger[1].receipt.id
    BY <2>2, <2>3 DEF RaceInv, Stamped
  <2> QED
    BY <2>4, <2>5
<1>2. Spec => [](TypeOK /\ RaceInv)
  BY LedgerTypeCorrect, RaceInvariant, PTL
<1> QED
  BY <1>1, <1>2, PTL DEF OnlyRacesFork

=============================================================================
