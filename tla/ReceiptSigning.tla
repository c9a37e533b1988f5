--------------------------- MODULE ReceiptSigning ---------------------------
(***************************************************************************)
(* Who signs receipts, and what verifies them.  A gateway takes its master *)
(* key from packages/database/data/test-keys.json or makes one and leaves  *)
(* it there; a tool server only reads it.  A session of a gateway has a    *)
(* key of its own, attested by the master key.  signPayload goes through   *)
(* the configured KMS, which may be out of reach, and verifyReceipt        *)
(* through the same or, for an attested receipt, past it.                  *)
(*                                                                         *)
(* A signature is modelled by the key that made it.  The three remote      *)
(* providers are one key, Remote, that does not leave them.                *)
(***************************************************************************)
EXTENDS FiniteSets

CONSTANTS
    Gateways, Servers,  \* processes
    Keys,      \* bound: master keys ever generated
    Sessions,  \* bound: sessions ever attested
    Remote,
    Keyless

ASSUME SigningAssumption ==
    /\ Gateways \cap Servers = {}
    /\ Keyless \notin Keys \cup Sessions \cup {Remote}
    /\ Remote \notin Keys

VARIABLES
    provider,    \* what getKMSProvider returns
    production,
    reachable,   \* the KMS answers
    file,        \* test-keys.json
    processes,
    sessions,
    signed,      \* every receipt signed so far
    generated,   \* history: keys generated so far
    disturbed    \* history: two gateways started at once, or could not read or save

signVars == <<provider, production, reachable, file, processes, sessions, signed,
              generated, disturbed>>

Providers == {"local", "vault", "gcp", "aws"}
Process == [pc : {"down", "save", "up"}, key : Keys \cup {Keyless}]

\* holder is the process that has the session's key in memory.
Session == [state : {"none", "live", "expired"},
            holder : Gateways \cup {Keyless}, root : Keys \cup {Keyless}]

SignedReceipt == [by : Keys \cup Sessions \cup {Remote}, attests : Sessions \cup {Keyless}]

SigningTypeOK ==
    /\ provider \in Providers
    /\ production \in BOOLEAN /\ reachable \in BOOLEAN /\ disturbed \in BOOLEAN
    /\ file \in Keys \cup {Keyless}
    /\ processes \in [Gateways \cup Servers -> Process]
    /\ sessions \in [Sessions -> Session]
    /\ signed \subseteq SignedReceipt
    /\ generated \subseteq Keys

Down == [pc |-> "down", key |-> Keyless]

SigningInit ==
    /\ provider \in Providers
    /\ production \in BOOLEAN
    /\ reachable \in BOOLEAN
    /\ file = Keyless
    /\ processes = [p \in Gateways \cup Servers |-> Down]
    /\ sessions = [s \in Sessions |-> [state |-> "none", holder |-> Keyless, root |-> Keyless]]
    /\ signed = {}
    /\ generated = {}
    /\ disturbed = FALSE

---------------------------------------------------------------------------
(* Startup *)

SetProcess(p, pc, key) == processes' = [processes EXCEPT ![p] = [pc |-> pc, key |-> key]]
Elsewhere == UNCHANGED <<provider, production, reachable, sessions, signed>>

Saving == {p \in Gateways : processes[p].pc = "save"}

\* No key could be read: one is generated.
Generate(p, unread) ==
    \E key \in Keys \ generated :
        /\ SetProcess(p, "save", key)
        /\ generated' = generated \cup {key}
        /\ disturbed' = (disturbed \/ unread \/ Saving # {})
        /\ UNCHANGED file

\* Mutant of Read: the key is made anew at every start.
ReadNothing(p) ==
    /\ processes[p].pc = "down" /\ ~production
    /\ Generate(p, FALSE)
    /\ Elsewhere

\* A gateway starts; none does in production (assertProductionAuthConfiguration).
Read(p) ==
    /\ processes[p].pc = "down" /\ ~production
    /\ IF file = Keyless
       THEN Generate(p, FALSE)
       ELSE SetProcess(p, "up", file) /\ UNCHANGED <<file, generated, disturbed>>
    /\ Elsewhere

\* A file that cannot be read or parsed is replaced.
ReadFails(p) ==
    /\ processes[p].pc = "down" /\ ~production
    /\ file # Keyless
    /\ Generate(p, TRUE)
    /\ Elsewhere

Save(p) ==
    /\ processes[p].pc = "save"
    /\ file' = processes[p].key
    /\ SetProcess(p, "up", processes[p].key)
    /\ UNCHANGED <<generated, disturbed>> /\ Elsewhere

\* It is not kept on file; nothing says so.
SaveFails(p) ==
    /\ processes[p].pc = "save"
    /\ disturbed' = TRUE
    /\ SetProcess(p, "up", processes[p].key)
    /\ UNCHANGED <<file, generated>> /\ Elsewhere

\* loadDemoReceiptKey, at startup or before a receipt.
ServerLoads(p) ==
    /\ processes[p].key = Keyless /\ file # Keyless
    /\ SetProcess(p, "up", file)
    /\ UNCHANGED <<file, generated, disturbed>> /\ Elsewhere

\* The keys of its sessions go with a process.
Stop(p) ==
    /\ processes[p].pc # "down"
    /\ processes' = [processes EXCEPT ![p] = Down]
    /\ sessions' = [s \in Sessions |->
          IF sessions[s].holder = p THEN [sessions[s] EXCEPT !.holder = Keyless] ELSE sessions[s]]
    /\ UNCHANGED <<provider, production, reachable, file, signed, generated, disturbed>>

---------------------------------------------------------------------------
(* Signing *)

InService == UNCHANGED <<provider, production, file, processes, generated, disturbed>>

\* signPayload with a key: by the KMS, else with the key itself, else not at all.
Signers(key) ==
    IF provider # "local" /\ reachable THEN {Remote}
    ELSE IF production THEN {} ELSE {key}

Sign(key, attests) ==
    /\ \E by \in Signers(key) : signed' = signed \cup {[by |-> by, attests |-> attests]}
    /\ UNCHANGED <<reachable, sessions>> /\ InService

\* mintToolCallReceipt
MintReceipt(p) == processes[p].key # Keyless /\ Sign(processes[p].key, Keyless)

\* POST /api/sessions/bootstrap
Bootstrap(p, s) ==
    /\ processes[p].pc = "up"
    /\ sessions[s].state = "none"
    /\ sessions' = [sessions EXCEPT ![s] =
                       [state |-> "live", holder |-> p, root |-> processes[p].key]]
    /\ UNCHANGED <<reachable, signed>> /\ InService

\* POST /api/sessions/sign; an expired session signs on.
SessionSign(s) == sessions[s].holder # Keyless /\ Sign(s, s)

---------------------------------------------------------------------------
(* Verification *)

\* LocalKMSProvider, and the fallback of the others outside production.
LocalVerifies(r, root) == r.by = root

\* Mutant of AwsVerifies: an answer is final, as it is Vault's.
AwsVerifiesFinal(r, root) ==
    IF reachable THEN r.by = Remote ELSE ~production /\ LocalVerifies(r, root)

\* SignatureValid = false and no answer at all are one error.
AwsVerifies(r, root) ==
    \/ reachable /\ r.by = Remote
    \/ ~production /\ LocalVerifies(r, root)

\* Vault and GCP: the answer, false or not, is final.
RemoteVerifies(r, root) ==
    IF reachable THEN r.by = Remote ELSE ~production /\ LocalVerifies(r, root)

AttestedVerifies(r, root) ==
    LET session == sessions[r.attests] IN
    session.state = "live" /\ session.root = root /\ r.by = r.attests

\* verifyReceipt against a master key.
Verifies(r, root) ==
    IF r.attests # Keyless THEN AttestedVerifies(r, root)
    ELSE CASE provider = "local" -> ~production /\ LocalVerifies(r, root)
           [] provider = "aws"   -> AwsVerifies(r, root)
           [] OTHER              -> RemoteVerifies(r, root)

---------------------------------------------------------------------------

\* The service comes and goes.
Flap ==
    /\ reachable' = ~reachable
    /\ UNCHANGED <<sessions, signed>> /\ InService

Expire(s) ==
    /\ sessions[s].state = "live"
    /\ sessions' = [sessions EXCEPT ![s].state = "expired"]
    /\ UNCHANGED <<reachable, signed>> /\ InService

SigningNext ==
    \/ \E p \in Gateways : Read(p) \/ ReadFails(p) \/ Save(p) \/ SaveFails(p)
                           \/ \E s \in Sessions : Bootstrap(p, s)
    \/ \E p \in Servers : ServerLoads(p) \/ MintReceipt(p)
    \/ \E p \in Gateways \cup Servers : Stop(p)
    \/ \E s \in Sessions : SessionSign(s) \/ Expire(s)
    \/ Flap

SigningSpec == SigningInit /\ [][SigningNext]_signVars

---------------------------------------------------------------------------
(* Properties *)

InUse == {p \in Gateways \cup Servers : processes[p].pc = "up" /\ processes[p].key # Keyless}

\* Every key in use is the one on file, so that it outlives its process and is
\* every other's: unless two gateways started at once or a file operation failed.
SigningKeyOnFile == ~disturbed => \A p \in InUse : processes[p].key = file

\* Whatever was signed, by whichever process, before whichever restarts and in
\* whichever outages, verifies at every gateway: with the local provider all of
\* it, a session's until it expires; with AWS what no session signed, once it
\* answers again.
SignedReceiptsVerify ==
    ~disturbed => \A r \in signed, p \in InUse \cap Gateways :
        (\/ provider = "local" /\ (r.attests # Keyless => sessions[r.attests].state = "live")
         \/ provider = "aws" /\ reachable /\ r.attests = Keyless)
        => Verifies(r, processes[p].key)

\* With every provider: what was signed during an outage verifies after it.
OutagesForgiven ==
    ~disturbed => \A r \in signed, p \in InUse \cap Gateways :
        r.attests = Keyless /\ reachable => Verifies(r, processes[p].key)

\* With every provider: what a session signed verifies until it expires.
SessionReceiptsVerify ==
    ~disturbed => \A r \in signed, p \in InUse \cap Gateways :
        r.attests # Keyless /\ sessions[r.attests].state = "live" => Verifies(r, processes[p].key)

\* However the gateways start, all of them have one key.
GatewaysShareKey == \A p, q \in InUse \cap Gateways : processes[p].key = processes[q].key

=============================================================================
