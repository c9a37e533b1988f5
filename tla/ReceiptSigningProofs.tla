------------------------ MODULE ReceiptSigningProofs ------------------------
(***************************************************************************)
(* Theorems of ReceiptSigning, for any number of processes, keys and       *)
(* sessions.  SigningInv says what a key on file is worth while no two     *)
(* gateways have started at once and no file operation has failed: it is   *)
(* the only key there is, and no gateway is about to replace it.           *)
(***************************************************************************)
EXTENDS ReceiptSigning, TLAPS

All == Gateways \cup Servers

LEMMA ProcessesKeepTypes ==
    ASSUME SigningTypeOK, NEW p \in All, NEW pc \in {"down", "save", "up"},
           NEW key \in Keys \cup {Keyless}, SetProcess(p, pc, key)
    PROVE  processes' \in [All -> Process]
<1>1. [pc |-> pc, key |-> key] \in Process
  BY DEF Process
<1> QED BY <1>1 DEF SigningTypeOK, SetProcess, All

LEMMA GenerateKeepsTypes ==
    ASSUME SigningTypeOK, NEW p \in Gateways, NEW unread \in BOOLEAN, Generate(p, unread), Elsewhere
    PROVE  SigningTypeOK'
<1> PICK key \in Keys \ generated :
        /\ SetProcess(p, "save", key)
        /\ generated' = generated \cup {key}
        /\ disturbed' = (disturbed \/ unread \/ Saving # {})
        /\ UNCHANGED file
  BY DEF Generate
<1>1. processes' \in [All -> Process]
  BY ProcessesKeepTypes DEF All
<1>2. disturbed' \in BOOLEAN
  BY DEF SigningTypeOK
<1> QED BY <1>1, <1>2 DEF SigningTypeOK, Elsewhere, All

LEMMA StartsKeepTypes ==
    ASSUME SigningTypeOK, NEW p \in Gateways,
           Read(p) \/ ReadFails(p) \/ Save(p) \/ SaveFails(p)
    PROVE  SigningTypeOK'
<1>1. p \in All /\ processes[p] \in Process
  BY DEF SigningTypeOK, All
<1>2. CASE Read(p)
  <2>1. CASE file = Keyless
    BY <1>2, <2>1, GenerateKeepsTypes DEF Read
  <2>2. CASE file # Keyless
    <3>1. SetProcess(p, "up", file) /\ file \in Keys \cup {Keyless}
      BY <1>2, <2>2 DEF Read, SigningTypeOK
    <3>2. processes' \in [All -> Process]
      BY <1>1, <3>1, ProcessesKeepTypes
    <3> QED BY <1>2, <2>2, <3>2 DEF Read, SigningTypeOK, Elsewhere, All
  <2> QED BY <2>1, <2>2
<1>3. CASE ReadFails(p)
  BY <1>3, GenerateKeepsTypes DEF ReadFails
<1>4. CASE Save(p) \/ SaveFails(p)
  <2>1. SetProcess(p, "up", processes[p].key) /\ processes[p].key \in Keys \cup {Keyless}
    BY <1>1, <1>4 DEF Save, SaveFails, Process
  <2>2. processes' \in [All -> Process]
    BY <1>1, <2>1, ProcessesKeepTypes
  <2> QED BY <1>4, <2>1, <2>2 DEF Save, SaveFails, SigningTypeOK, Elsewhere, All
<1> QED BY <1>2, <1>3, <1>4

LEMMA StopKeepsTypes ==
    ASSUME SigningTypeOK, NEW p \in All, Stop(p)
    PROVE  SigningTypeOK'
<1>1. processes' \in [All -> Process]
  BY DEF Stop, SigningTypeOK, Down, Process, All
<1>2. sessions' \in [Sessions -> Session]
  <2>1. \A s \in Sessions : [sessions[s] EXCEPT !.holder = Keyless] \in Session
    BY DEF SigningTypeOK, Session
  <2> QED BY <2>1 DEF Stop, SigningTypeOK
<1> QED BY <1>1, <1>2 DEF Stop, SigningTypeOK, All

LEMMA SignKeepsTypes ==
    ASSUME SigningTypeOK, NEW key \in Keys \cup Sessions, NEW attests \in Sessions \cup {Keyless},
           Sign(key, attests)
    PROVE  SigningTypeOK'
<1>1. PICK by \in Signers(key) : signed' = signed \cup {[by |-> by, attests |-> attests]}
  BY DEF Sign
<1>2. by \in Keys \cup Sessions \cup {Remote}
  BY <1>1 DEF Signers
<1>3. signed' \subseteq SignedReceipt
  BY <1>1, <1>2 DEF SigningTypeOK, SignedReceipt
<1> QED BY <1>3 DEF Sign, SigningTypeOK, InService

LEMMA SigningNextKeepsTypes ==
    ASSUME SigningTypeOK, [SigningNext]_signVars
    PROVE  SigningTypeOK'
<1>1. ASSUME NEW p \in Gateways, Read(p) \/ ReadFails(p) \/ Save(p) \/ SaveFails(p)
      PROVE  SigningTypeOK'
  BY <1>1, StartsKeepTypes
<1>2. ASSUME NEW p \in Gateways, NEW s \in Sessions, Bootstrap(p, s)
      PROVE  SigningTypeOK'
  <2>1. [state |-> "live", holder |-> p, root |-> processes[p].key] \in Session
    BY DEF SigningTypeOK, Process, Session
  <2>2. sessions' \in [Sessions -> Session]
    BY <1>2, <2>1 DEF Bootstrap, SigningTypeOK
  <2> QED BY <1>2, <2>2 DEF Bootstrap, SigningTypeOK, InService
<1>3. ASSUME NEW p \in Servers, ServerLoads(p)
      PROVE  SigningTypeOK'
  <2>1. processes' \in [All -> Process]
    BY <1>3, ProcessesKeepTypes DEF ServerLoads, SigningTypeOK, All
  <2> QED BY <1>3, <2>1 DEF ServerLoads, SigningTypeOK, Elsewhere, All
<1>4. ASSUME NEW p \in Servers, MintReceipt(p)
      PROVE  SigningTypeOK'
  <2>1. processes[p].key \in Keys
    BY <1>4 DEF MintReceipt, SigningTypeOK, Process
  <2> QED BY <1>4, <2>1, SignKeepsTypes DEF MintReceipt
<1>5. ASSUME NEW p \in All, Stop(p)
      PROVE  SigningTypeOK'
  BY <1>5, StopKeepsTypes
<1>6. ASSUME NEW s \in Sessions, SessionSign(s)
      PROVE  SigningTypeOK'
  BY <1>6, SignKeepsTypes DEF SessionSign
<1>7. ASSUME NEW s \in Sessions, Expire(s)
      PROVE  SigningTypeOK'
  <2>1. [sessions[s] EXCEPT !.state = "expired"] \in Session
    BY DEF SigningTypeOK, Session
  <2>2. sessions' \in [Sessions -> Session]
    BY <1>7, <2>1 DEF Expire, SigningTypeOK
  <2> QED BY <1>7, <2>2 DEF Expire, SigningTypeOK, InService
<1>8. CASE Flap
  BY <1>8 DEF Flap, SigningTypeOK, InService
<1>9. CASE UNCHANGED signVars
  BY <1>9 DEF signVars, SigningTypeOK
<1> QED
  BY <1>1, <1>2, <1>3, <1>4, <1>5, <1>6, <1>7, <1>8, <1>9 DEF SigningNext, All

\* Keys, sessions and receipts keep their types: nothing is signed by no key.
THEOREM SigningTypesHold == SigningSpec => []SigningTypeOK
<1>1. ASSUME SigningInit PROVE SigningTypeOK
  <2>1. processes \in [All -> Process]
    BY <1>1 DEF SigningInit, Process, Down, All
  <2>2. sessions \in [Sessions -> Session]
    BY <1>1 DEF SigningInit, Session
  <2> QED BY <1>1, <2>1, <2>2 DEF SigningInit, SigningTypeOK, All
<1> QED BY <1>1, SigningNextKeepsTypes, PTL DEF SigningSpec

---------------------------------------------------------------------------

\* A process that is up has the key on file; while a gateway is about to save
\* one there is no other such gateway, no key in use, and so no session.
KeysInv ==
    /\ \A p \in Gateways : processes[p].pc # "down" => processes[p].key # Keyless
    /\ \A p \in Servers : processes[p].pc # "save"
    /\ \A p \in All : processes[p].pc = "down" => processes[p].key = Keyless
    /\ ~disturbed =>
        /\ \A p \in All : processes[p].pc = "up" /\ processes[p].key # Keyless => processes[p].key = file
        /\ Saving # {} => file = Keyless
        /\ \A p, q \in Saving : p = q

\* Attestations are by the key on file, and what was signed is signed by it, by
\* the session it names, or by a remote KMS.
SignaturesInv ==
    ~disturbed =>
        /\ \A s \in Sessions : sessions[s].state # "none" => sessions[s].root = file /\ file # Keyless
        /\ \A s \in Sessions : sessions[s].holder # Keyless => sessions[s].state # "none"
        /\ \A r \in signed :
            IF r.attests = Keyless
            THEN \/ r.by = file /\ file # Keyless /\ ~production
                 \/ r.by = Remote /\ provider # "local"
            ELSE /\ sessions[r.attests].state # "none"
                 /\ r.by = r.attests \/ provider # "local"

SigningInv == KeysInv /\ SignaturesInv

LEMMA GenerateKeepsInv ==
    ASSUME SigningTypeOK, SigningInv, NEW p \in Gateways, NEW unread \in BOOLEAN,
           file = Keyless \/ unread, Generate(p, unread), Elsewhere
    PROVE  SigningInv'
<1> USE SigningAssumption
<1> PICK key \in Keys \ generated :
        /\ SetProcess(p, "save", key)
        /\ generated' = generated \cup {key}
        /\ disturbed' = (disturbed \/ unread \/ Saving # {})
        /\ UNCHANGED file
  BY DEF Generate
<1>1. /\ p \in All /\ p \notin Servers /\ key # Keyless
      /\ \A q \in All : processes'[q] = IF q = p THEN [pc |-> "save", key |-> key] ELSE processes[q]
  BY DEF SetProcess, SigningTypeOK, All
<1>2. ~disturbed' => /\ ~disturbed /\ Saving = {} /\ file' = Keyless /\ file = Keyless
                     /\ Saving' = {p}
  <2>1. ~disturbed' => ~disturbed /\ ~unread /\ Saving = {}
    OBVIOUS
  <2>2. Saving = {} => Saving' = {p}
    BY <1>1 DEF Saving, All
  <2> QED BY <2>1, <2>2
<1>3. KeysInv'
  BY <1>1, <1>2 DEF SigningInv, KeysInv, All
<1>4. SignaturesInv'
  BY <1>2 DEF SigningInv, SignaturesInv, Elsewhere
<1> QED BY <1>3, <1>4 DEF SigningInv

LEMMA StartsKeepInv ==
    ASSUME SigningTypeOK, SigningInv, NEW p \in Gateways,
           Read(p) \/ ReadFails(p) \/ Save(p) \/ SaveFails(p)
    PROVE  SigningInv'
<1> USE SigningAssumption
<1>1. p \in All /\ p \notin Servers
  BY DEF All
<1>2. CASE Read(p)
  <2>1. CASE file = Keyless
    BY <1>2, <2>1, GenerateKeepsInv DEF Read
  <2>2. CASE file # Keyless
    <3>1. /\ UNCHANGED <<file, generated, disturbed>> /\ Elsewhere
          /\ \A q \in All : processes'[q] = IF q = p THEN [pc |-> "up", key |-> file] ELSE processes[q]
      BY <1>1, <1>2, <2>2 DEF Read, SetProcess, SigningTypeOK, All
    <3>2. Saving' \subseteq Saving
      BY <3>1 DEF Saving, All
    <3>3. KeysInv'
      BY <1>1, <2>2, <3>1, <3>2 DEF SigningInv, KeysInv, All
    <3>4. SignaturesInv'
      BY <3>1 DEF SigningInv, SignaturesInv, Elsewhere
    <3> QED BY <3>3, <3>4 DEF SigningInv
  <2> QED BY <2>1, <2>2
<1>3. CASE ReadFails(p)
  BY <1>3, GenerateKeepsInv DEF ReadFails
<1>4. CASE Save(p) \/ SaveFails(p)
  <2>1. /\ processes[p].pc = "save" /\ processes[p].key # Keyless
        /\ UNCHANGED generated /\ Elsewhere
        /\ \A q \in All : processes'[q] = IF q = p THEN [pc |-> "up", key |-> processes[p].key]
                                           ELSE processes[q]
    BY <1>1, <1>4 DEF Save, SaveFails, SetProcess, SigningTypeOK, All, SigningInv, KeysInv
  <2>2. ~disturbed' => ~disturbed /\ file' = processes[p].key
    BY <1>4 DEF Save, SaveFails
  <2>3. ~disturbed => /\ p \in Saving /\ file = Keyless
                      /\ \A q \in All : processes[q].pc = "up" => processes[q].key = Keyless
    BY <1>1, <2>1 DEF SigningInv, KeysInv, Saving
  <2>4. ~disturbed => Saving' = {}
    BY <1>1, <2>1, <2>3 DEF SigningInv, KeysInv, Saving, All
  <2>5. KeysInv'
    BY <1>1, <2>1, <2>2, <2>3, <2>4 DEF SigningInv, KeysInv, All
  <2>6. SignaturesInv'
    BY <2>1, <2>2, <2>3 DEF SigningInv, SignaturesInv, Elsewhere
  <2> QED BY <2>5, <2>6 DEF SigningInv
<1> QED BY <1>2, <1>3, <1>4

LEMMA StopKeepsInv ==
    ASSUME SigningTypeOK, SigningInv, NEW p \in All, Stop(p)
    PROVE  SigningInv'
<1>1. /\ UNCHANGED <<provider, production, file, signed, disturbed>>
      /\ \A q \in All : processes'[q] = IF q = p THEN Down ELSE processes[q]
      /\ \A s \in Sessions : /\ sessions'[s].state = sessions[s].state
                             /\ sessions'[s].root = sessions[s].root
                             /\ sessions'[s].holder # Keyless => sessions[s].holder # Keyless
  BY DEF Stop, SigningTypeOK, Session, All
<1>2. Saving' \subseteq Saving
  BY <1>1 DEF Saving, Down, All
<1>3. KeysInv'
  BY <1>1, <1>2 DEF SigningInv, KeysInv, Down, All
<1>4. \A r \in signed : r.attests # Keyless => r.attests \in Sessions
  BY DEF SigningTypeOK, SignedReceipt
<1>5. SignaturesInv'
  BY <1>1, <1>4 DEF SigningInv, SignaturesInv
<1> QED BY <1>3, <1>5 DEF SigningInv

LEMMA ServiceKeepsKeys ==
    ASSUME SigningInv, UNCHANGED <<file, processes, disturbed>>
    PROVE  KeysInv'
BY DEF SigningInv, KeysInv, Saving

LEMMA SignKeepsInv ==
    ASSUME SigningTypeOK, SigningInv, NEW key, NEW attests \in Sessions \cup {Keyless},
           Sign(key, attests),
           ~disturbed => IF attests = Keyless THEN key = file /\ file # Keyless
                         ELSE key = attests /\ sessions[attests].state # "none"
    PROVE  SigningInv'
<1>1. PICK by \in Signers(key) : signed' = signed \cup {[by |-> by, attests |-> attests]}
  BY DEF Sign
<1>2. (by = Remote /\ provider # "local") \/ (by = key /\ ~production)
  BY <1>1 DEF Signers
<1>3. UNCHANGED <<provider, production, file, processes, sessions, disturbed>>
  BY DEF Sign, InService
<1>4. SignaturesInv'
  BY <1>1, <1>2, <1>3 DEF SigningInv, SignaturesInv
<1> QED BY <1>3, <1>4, ServiceKeepsKeys DEF SigningInv

LEMMA SigningNextKeepsInv ==
    ASSUME SigningTypeOK, SigningInv, [SigningNext]_signVars
    PROVE  SigningInv'
<1> USE SigningAssumption
<1>1. ASSUME NEW p \in Gateways, Read(p) \/ ReadFails(p) \/ Save(p) \/ SaveFails(p)
      PROVE  SigningInv'
  BY <1>1, StartsKeepInv
<1>2. ASSUME NEW p \in Gateways, NEW s \in Sessions, Bootstrap(p, s)
      PROVE  SigningInv'
  <2>1. /\ UNCHANGED <<provider, production, file, processes, signed, disturbed>>
        /\ \A t \in Sessions : sessions'[t] =
              IF t = s THEN [state |-> "live", holder |-> p, root |-> processes[p].key]
              ELSE sessions[t]
    BY <1>2 DEF Bootstrap, InService, SigningTypeOK
  <2>2. processes[p].key # Keyless /\ (~disturbed => processes[p].key = file)
    BY <1>2 DEF Bootstrap, SigningInv, KeysInv, All
  <2>3. \A r \in signed : r.attests # Keyless => r.attests \in Sessions
    BY DEF SigningTypeOK, SignedReceipt
  <2>4. SignaturesInv'
    BY <2>1, <2>2, <2>3 DEF SigningInv, SignaturesInv
  <2> QED BY <2>1, <2>4, ServiceKeepsKeys DEF SigningInv
<1>3. ASSUME NEW p \in Servers, ServerLoads(p)
      PROVE  SigningInv'
  <2>1. /\ file # Keyless /\ UNCHANGED <<file, generated, disturbed>> /\ Elsewhere
        /\ p \in All /\ p \notin Gateways
        /\ \A q \in All : processes'[q] = IF q = p THEN [pc |-> "up", key |-> file] ELSE processes[q]
    BY <1>3 DEF ServerLoads, SetProcess, SigningTypeOK, All
  <2>2. Saving' = Saving
    BY <2>1 DEF Saving, All
  <2>3. KeysInv'
    BY <2>1, <2>2 DEF SigningInv, KeysInv, All
  <2>4. SignaturesInv'
    BY <2>1 DEF SigningInv, SignaturesInv, Elsewhere
  <2> QED BY <2>3, <2>4 DEF SigningInv
<1>4. ASSUME NEW p \in Servers, MintReceipt(p)
      PROVE  SigningInv'
  <2>1. p \in All /\ Sign(processes[p].key, Keyless) /\ processes[p].key # Keyless
    BY <1>4 DEF MintReceipt, All
  <2>2. processes[p].pc = "up"
    BY <1>4, <2>1 DEF SigningInv, KeysInv, SigningTypeOK, Process, All
  <2>3. ~disturbed => processes[p].key = file /\ file # Keyless
    BY <2>1, <2>2 DEF SigningInv, KeysInv
  <2> QED BY <2>1, <2>3, SignKeepsInv
<1>5. ASSUME NEW p \in All, Stop(p)
      PROVE  SigningInv'
  BY <1>5, StopKeepsInv
<1>6. ASSUME NEW s \in Sessions, SessionSign(s)
      PROVE  SigningInv'
  BY <1>6, SignKeepsInv DEF SessionSign, SigningInv, SignaturesInv
<1>7. ASSUME NEW s \in Sessions, Expire(s)
      PROVE  SigningInv'
  <2>1. /\ UNCHANGED <<provider, production, file, processes, signed, disturbed>>
        /\ sessions[s].state # "none"
        /\ \A t \in Sessions : /\ sessions'[t].root = sessions[t].root
                               /\ sessions'[t].holder = sessions[t].holder
                               /\ sessions'[t].state = IF t = s THEN "expired" ELSE sessions[t].state
    BY <1>7 DEF Expire, InService, SigningTypeOK, Session
  <2>2. \A r \in signed : r.attests # Keyless => r.attests \in Sessions
    BY DEF SigningTypeOK, SignedReceipt
  <2>3. SignaturesInv'
    BY <2>1, <2>2 DEF SigningInv, SignaturesInv
  <2> QED BY <2>1, <2>3, ServiceKeepsKeys DEF SigningInv
<1>8. CASE Flap
  BY <1>8 DEF Flap, InService, SigningInv, KeysInv, SignaturesInv, Saving
<1>9. CASE UNCHANGED signVars
  BY <1>9 DEF signVars, SigningInv, KeysInv, SignaturesInv, Saving
<1> QED
  BY <1>1, <1>2, <1>3, <1>4, <1>5, <1>6, <1>7, <1>8, <1>9 DEF SigningNext, All

LEMMA SigningInvHolds == SigningSpec => []SigningInv
<1>1. SigningInit => SigningInv
  BY DEF SigningInit, SigningInv, KeysInv, SignaturesInv, Saving, Down, All
<1> QED BY <1>1, SigningTypesHold, SigningNextKeepsInv, PTL DEF SigningSpec

\* Unless two gateways started at once or a file operation failed, every key in
\* use is the one on file, for any number of gateways, servers and restarts.
THEOREM KeyOnFile == SigningSpec => []SigningKeyOnFile
<1>1. SigningInv => SigningKeyOnFile
  BY DEF SigningInv, KeysInv, SigningKeyOnFile, InUse, All
<1> QED BY <1>1, SigningInvHolds, PTL

\* And what was signed verifies at every gateway: all of it with the local
\* provider, a session's until it expires, and with AWS what no session signed.
THEOREM SignedVerify == SigningSpec => []SignedReceiptsVerify
<1>1. ASSUME SigningTypeOK, SigningInv PROVE SignedReceiptsVerify
  <2> SUFFICES ASSUME ~disturbed, NEW r \in signed, NEW p \in InUse \cap Gateways,
                      \/ provider = "local" /\ (r.attests # Keyless => sessions[r.attests].state = "live")
                      \/ provider = "aws" /\ reachable /\ r.attests = Keyless
               PROVE  Verifies(r, processes[p].key)
    BY DEF SignedReceiptsVerify
  <2>1. processes[p].key = file /\ file # Keyless
    BY <1>1 DEF InUse, SigningInv, KeysInv, All
  <2>2. CASE r.attests = Keyless
    BY <1>1, <2>1, <2>2 DEF SigningInv, SignaturesInv, Verifies, LocalVerifies, AwsVerifies
  <2>3. CASE r.attests # Keyless
    <3>1. r.attests \in Sessions
      BY <1>1, <2>3 DEF SigningTypeOK, SignedReceipt
    <3>2. provider = "local" /\ sessions[r.attests].state = "live"
      BY <2>3
    <3> QED BY <1>1, <2>1, <2>3, <3>1, <3>2 DEF SigningInv, SignaturesInv, Verifies, AttestedVerifies
  <2> QED BY <2>2, <2>3
<1> QED BY <1>1, SigningTypesHold, SigningInvHolds, PTL

=============================================================================
