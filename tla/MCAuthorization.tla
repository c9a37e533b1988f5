-------------------------- MODULE MCAuthorization --------------------------
(***************************************************************************)
(* Instances of Authorization and PolicyVerdicts for TLC.  One run checks  *)
(* either: focus, chosen at the start, says which of the two moves.        *)
(***************************************************************************)
EXTENDS Authorization, PolicyVerdicts, FiniteSets, TLC

CONSTANTS a1, a2, c1, c2

VARIABLE focus

mcVars == <<focus, authVars, verdictVars>>

\* A path submitted as it is canonical, and a command, which names none.
Ask(tool, who, path, command) ==
    [tool |-> tool, who |-> who, path |-> path, canonical |-> path,
     given |-> tool # "execute_command", escapes |-> FALSE, command |-> command]

\* A read and a source edit.
TwoRequests == {Ask("read_file", "developer", {}, {}),
                Ask("write_file", "developer", {"packages/"}, {})}

\* A read and an edit of the database's package by somebody else than its owner.
OwnedRequests == {Ask("read_file", "developer", {}, {}),
                  Ask("write_file", "developer", {"packages/", "database/"}, {})}

\* The policy of the repository alone.
OnePolicy == {FullPolicy}

\* A file that ends inside the rule after the permit of source edits.
SourcesCut == {<<3, FALSE>>}

\* The policy of the repository and one that no longer permits source edits.
TwoPolicies == {FullPolicy, FullPolicy \ {"sources"}}

AllOpen == ContextOf(NoCall)

\* Contexts that differ from the open one in at most two entries.
Entries == {[AllOpen EXCEPT !.quarantined = TRUE], [AllOpen EXCEPT !.pipeline = FALSE],
            [AllOpen EXCEPT !.audited = FALSE], [AllOpen EXCEPT !.ham = FALSE],
            [AllOpen EXCEPT !.synthesized = FALSE], [AllOpen EXCEPT !.exhausted = TRUE],
            [AllOpen EXCEPT !.subagent = "aligned"], [AllOpen EXCEPT !.subagent = "overspent"],
            [AllOpen EXCEPT !.requirement = "null"], [AllOpen EXCEPT !.requirement = "empty"],
            [AllOpen EXCEPT !.tests = FALSE], [AllOpen EXCEPT !.drift = TRUE],
            [AllOpen EXCEPT !.drift = TRUE, !.driftVerified = FALSE],
            [AllOpen EXCEPT !.version = FALSE], [AllOpen EXCEPT !.changelog = FALSE],
            [AllOpen EXCEPT !.feedback = TRUE],
            [AllOpen EXCEPT !.feedback = TRUE, !.aligned = FALSE]}

Merge(x, y) == [e \in DOMAIN AllOpen |-> IF x[e] # AllOpen[e] THEN x[e] ELSE y[e]]

SomeContexts == {AllOpen} \cup {Merge(x, y) : x, y \in Entries}

\* Paths and command lines an agent submits.
SomePaths == {{}, {"apps/", "gateway/"}, {"apps/", "dashboard/"}, {"packages/"},
              {"packages/", "database/"}, {"packages/", "test"}, {"packages/", "database/", "test"},
              {".memory/"}, {"policy"}, {"scripts/"}, {".env"}, {"workflows"}, {"CHANGELOG.md"}}

SomeCommands == {{}, {"launches"}, {"launches", "download"}, {"launches", "git commit"},
                 {"launches", "npm publish"}, {"mentions", "git commit"}, {"bootstrap"},
                 {"git commit"}}

\* Paths whose submitted form hides what they come to, or shows what they do not:
\* ./packages/x, packages/../policy.cedar, .//apps/x.test.ts, packages/database/../x.
Dotted == {<<{}, {"packages/"}>>, <<{"packages/"}, {"policy"}>>,
           <<{"test"}, {"apps/", "test"}>>, <<{"packages/", "database/"}, {"packages/"}>>}

SomeRequests ==
    {Ask(t, w, p, {}) : t \in {"read_file", "write_file"}, w \in Principals,
                        p \in SomePaths}
    \cup {[Ask("patch_file", w, d[1], {}) EXCEPT !.canonical = d[2]] : w \in Principals, d \in Dotted}
    \cup {Ask("execute_command", "developer", {}, c) : c \in SomeCommands}
    \cup {Ask(t, "mcp-agent", {}, {}) : t \in Foreign}
    \cup {[Ask("read_file", "developer", {}, {}) EXCEPT !.escapes = TRUE],
          [Ask("search_code", "developer", {}, {}) EXCEPT !.given = FALSE]}

CallSymmetry == Permutations(Calls)

MCInit ==
    /\ focus \in {"calls", "verdicts"}
    /\ IF focus = "calls"
       THEN AuthInit /\ verdicts = Unjudged /\ context = AllOpen /\ request = AnyRequest
       ELSE /\ VerdictInit
            /\ file = File(FullPolicy, TRUE) /\ loaded = [i \in Instances |-> FullPolicy]
            /\ notified = FALSE /\ fallback = FALSE
            /\ records = [a \in Agents |-> "none"]
            /\ denials = [i \in Instances |-> [a \in Agents |-> 0]]
            /\ failed = [i \in Instances |-> [a \in Agents |-> FALSE]]
            /\ calls = [c \in Calls |-> NoCall]

MCNext ==
    \/ focus = "calls" /\ AuthNext /\ UNCHANGED <<focus, verdictVars>>
    \/ focus = "verdicts" /\ Judge /\ UNCHANGED <<focus, authVars>>

MCSpec == MCInit /\ [][MCNext]_mcVars /\ WF_mcVars(focus = "calls" /\ Watch /\ UNCHANGED <<focus, verdictVars>>)

=============================================================================
