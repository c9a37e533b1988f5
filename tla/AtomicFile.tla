----------------------------- MODULE AtomicFile -----------------------------
(***************************************************************************)
(* What a JSON table of packages/database/src/index.ts promises: each call *)
(* that returns has added its row in one step, at some moment between its  *)
(* invocation and its return, to everything the table held then; a call    *)
(* that fails has added nothing.                                           *)
(***************************************************************************)
CONSTANT Callers

VARIABLES rows,   \* the callers whose row the table holds
          phase   \* "idle", "invoked", "applied", "returned" or "failed"

fileVars == <<rows, phase>>

FileInit ==
    /\ rows = {}
    /\ phase = [c \in Callers |-> "idle"]

Moves(c, from, to) ==
    /\ phase[c] = from
    /\ phase' = [phase EXCEPT ![c] = to]

Invoke(c) == Moves(c, "idle", "invoked") /\ UNCHANGED rows
Apply(c)  == Moves(c, "invoked", "applied") /\ rows' = rows \cup {c}
Answer(c) == Moves(c, "applied", "returned") /\ UNCHANGED rows
Refuse(c) == Moves(c, "invoked", "failed") /\ UNCHANGED rows

FileNext == \E c \in Callers : Invoke(c) \/ Apply(c) \/ Answer(c) \/ Refuse(c)

FileSpec == FileInit /\ [][FileNext]_fileVars

=============================================================================
