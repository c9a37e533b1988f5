---------------------------- MODULE MCToolCalls ----------------------------
(***************************************************************************)
(* Instances of McpToolCall, McpHttp, PatchText and ReceiptSigning for     *)
(* TLC: one run checks the four, focus, chosen at the start, says which    *)
(* one moves.                                                              *)
(***************************************************************************)
EXTENDS McpToolCall, McpHttp, PatchText, ReceiptSigning, TLC

CONSTANTS t1, t2, g1, g2, server, k1, k2, s1

VARIABLE focus

mcVars == <<focus, toolVars, httpVars, patchVars, signVars>>

\* Texts of up to four characters over one letter, another and line breaks.
Strings(n) == UNION {[1..k -> {"a", "b", Newline}] : k \in 0..n}
ShortTexts == Strings(4)
ShortTargets == {<<"a">>, <<"a", "a">>, <<"a", "b">>, <<"a", Newline>>, <<Newline>>}
SomeReplacements == {<<>>, <<"b">>, <<Newline>>, <<"b", Matched>>}

AllMessages == Message

AMessage == [version |-> TRUE, headerMethod |-> "tools/list", headerName |-> Missing,
             bodyMethod |-> "tools/list", bodyName |-> Missing]
APatch == [text |-> <<>>, target |-> <<"a">>, replacement |-> <<>>,
           startLine |-> 0, endLine |-> 0]

MCInit ==
    /\ focus \in {"calls", "http", "patch", "signing"}
    /\ ToolInit /\ (focus = "calls" \/ keyed)
    /\ IF focus = "http" THEN HttpInit ELSE message = AMessage /\ routed = Unrouted
    /\ SigningInit
    /\ focus = "signing" \/ (provider = "local" /\ reachable /\ ~production)
    /\ IF focus = "patch" THEN PatchInit ELSE patch = APatch /\ outcome = Pending

MCNext ==
    /\ \/ focus = "calls" /\ ToolNext /\ UNCHANGED <<httpVars, patchVars, signVars>>
       \/ focus = "http" /\ Route /\ UNCHANGED <<toolVars, patchVars, signVars>>
       \/ focus = "patch" /\ Patch /\ UNCHANGED <<toolVars, httpVars, signVars>>
       \/ focus = "signing" /\ SigningNext /\ UNCHANGED <<toolVars, httpVars, patchVars>>
    /\ UNCHANGED focus

CallsGoOn(c) ==
    focus = "calls" /\ CallGoesOn(c) /\ UNCHANGED <<focus, httpVars, patchVars, signVars>>

MCSpec == MCInit /\ [][MCNext]_mcVars /\ \A c \in Calls : WF_mcVars(CallsGoOn(c))

=============================================================================
