----------------------------- MODULE MCTrackers -----------------------------
(***************************************************************************)
(* Instances of ComplianceTrackers for TLC.  The three trackers have files *)
(* and fields of their own, so one run checks them in turn: focus, chosen  *)
(* at the start, says which kinds are submitted and which routes are used. *)
(* Another focus is the budget extensions.                                 *)
(***************************************************************************)
EXTENDS ComplianceTrackers, BudgetExtensions, TLC

CONSTANTS s1, p1, p2, x1, x2, r1, r2

VARIABLE focus

mcVars == <<focus, trackerVars, budgetVars>>

Focuses == {"devops", "plm", "publish", "ibp", "commit"}

FocusKinds(f) ==
    CASE f = "devops" -> {"source", "ci"}
      [] f = "plm" -> {"contract", "test", "commit"}
      [] f = "publish" -> {"package", "changelog", "test", "ci", "ham", "publish"}
      [] f = "ibp" -> {"source", "commit"}
      [] f = "commit" -> {"contract", "test", "ci", "ham", "commit"}

\* Ways to name the file, where the verification gates and the synthesis are at stake.
FocusNames(f) ==
    CASE f = "devops" -> {"plain", "elsewhere"}
      [] f = "ibp" -> {"plain", "dotted"}
      [] OTHER -> {"plain"}

FocusSubs(f) == IF f = "ibp" THEN Subagents \cup {"none"} ELSE {"none"}

\* Two submissions interleave where the state is small, one elsewhere; a whole
\* way to a commit takes five evaluations, to a publish six, a full budget seven;
\* two take a sub-agent past its budget.
FocusSubmissions(f) == IF f = "devops" THEN Submissions ELSE {p1}
FocusTokens(f) ==
    CASE f = "commit" -> MaxTokens [] f = "publish" -> 6 [] f = "plm" -> 3 [] OTHER -> 2

FocusStep ==
    \/ \E c \in FocusSubmissions(focus) :
          /\ SubmissionStep(c, FocusKinds(focus), FocusNames(focus), FocusSubs(focus))
          /\ mem'["gateway"].ibp.consumed <= FocusTokens(focus)
    \/ focus \notin {"plm", "publish"} /\ Synthesize("gateway")
    \/ focus \in {"devops", "commit", "publish"} /\ \E high \in BOOLEAN : ReportFindings(high)
    \/ focus = "plm" /\ SetRequirement
    \/ focus \in {"plm", "commit"} /\ VerifyDrift
    \/ focus = "plm" /\ FeedbackStep
    \/ focus = "ibp" /\ ToolServerStep
    \/ ResetTrackers
    \/ Restart("gateway")

MCInit == focus \in Focuses \cup {"budget"} /\ TrackerInit /\ BudgetInit

MCNext ==
    /\ IF focus = "budget" THEN BudgetNext /\ UNCHANGED trackerVars
                           ELSE FocusStep /\ UNCHANGED budgetVars
    /\ UNCHANGED focus

MCSpec == MCInit /\ [][MCNext]_mcVars

=============================================================================
