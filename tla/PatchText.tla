----------------------------- MODULE PatchText -----------------------------
(***************************************************************************)
(* patchFileHelper of mcp-server.ts: the search and replace behind the     *)
(* tool patch_file, over texts that are sequences of characters.  A line   *)
(* number of 0 is one that was not given.                                  *)
(***************************************************************************)
EXTENDS Integers, SequencesExt

CONSTANTS
    Texts, Targets, Replacements,  \* of characters, see the two below
    LineNumbers,                   \* startLine and endLine
    TextLimit                      \* untaintText's limit (5000000 in the code)

ASSUME PatchAssumption ==
    /\ Texts \cup Targets \cup Replacements \subseteq Seq(STRING)
    /\ LineNumbers \subseteq Int
    /\ TextLimit \in Nat

Newline == "n"
Matched == "$&"   \* in a replacement: what String.replace turns into the target

VARIABLES patch, outcome

patchVars == <<patch, outcome>>

---------------------------------------------------------------------------
(* The string operations of the code, by what they do *)

\* The line of a position: one more than the line breaks before it.
LineOf(text, i) == Cardinality({j \in 1..(i - 1) : text[j] = Newline}) + 1
LineCount(text) == LineOf(text, Len(text) + 1)

\* Where lines[k] begins, which is line k + 1.
Begin(text, k) == Min({i \in 1..(Len(text) + 1) : LineOf(text, i) > k})

\* slice counts a negative position from the end, and stays within n elements.
Place(i, n) == IF i < 0 THEN Max({0, n + i}) ELSE Min({i, n})

\* lines.slice(from, to).join('\n'), where lines is text.split('\n'): the text
\* from the first of these lines to the last, without the line break after it.
Joined(text, from, to) ==
    LET n == LineCount(text)
        first == Place(from, n)
        past == Place(to, n) IN
    IF first >= past THEN <<>>
    ELSE SubSeq(text, Begin(text, first),
                IF past = n THEN Len(text) ELSE Begin(text, past) - 2)

JoinedFrom(text, from) == Joined(text, from, LineCount(text))

\* Positions of a nonempty target.
At(text, target, i) == SubSeq(text, i, i + Len(target) - 1) = target
Places(text, target) ==
    {i \in 1..(Len(text) - Len(target) + 1) : At(text, target, i)}

\* text.split(target).length - 1; 2 stands for two or more.  The second
\* occurrence is looked for where the first has ended.
Occurrences(text, target) ==
    LET places == Places(text, target) IN
    IF target = <<>> THEN Len(text) - 1
    ELSE IF places = {} THEN 0
    ELSE IF \A i \in places : i < Min(places) + Len(target) THEN 1 ELSE 2

Expand(replacement, target) ==
    FlattenSeq([k \in DOMAIN replacement |->
        IF replacement[k] = Matched THEN target ELSE <<replacement[k]>>])

\* text.replace(target, replacement), where the target occurs.
ReplaceFirst(text, target, replacement) ==
    LET i == IF target = <<>> THEN 1 ELSE Min(Places(text, target)) IN
    SubSeq(text, 1, i - 1) \o Expand(replacement, target) \o SubSeq(text, i + Len(target), Len(text))

---------------------------------------------------------------------------
(* patchFileHelper *)

Found(text, target) == target = <<>> \/ Places(text, target) # {}

Refusal == [status |-> "refused", text |-> <<>>]
Patched(text) == [status |-> "patched", text |-> SubSeq(text, 1, Min({Len(text), TextLimit}))]

PatchWhole(p) ==
    IF Occurrences(p.text, p.target) # 1 THEN Refusal
    ELSE Patched(ReplaceFirst(p.text, p.target, p.replacement))

\* Mutant of EndIndex: the last line given is left out.
EndIndexExclusive(p) ==
    IF p.endLine # 0 THEN Min({LineCount(p.text), p.endLine}) - 2 ELSE LineCount(p.text) - 1

StartIndex(p) == IF p.startLine # 0 THEN Max({1, p.startLine}) - 1 ELSE 0
EndIndex(p) ==
    IF p.endLine # 0 THEN Min({LineCount(p.text), p.endLine}) - 1 ELSE LineCount(p.text) - 1

PatchRange(p) ==
    LET first == StartIndex(p)
        last == EndIndex(p)
        range == Joined(p.text, first, last + 1)
        before == IF first > 0 THEN Joined(p.text, 0, first) \o <<Newline>> ELSE <<>>
        after == IF last < LineCount(p.text) - 1 THEN <<Newline>> \o JoinedFrom(p.text, last + 1)
                                                 ELSE <<>> IN
    IF ~Found(range, p.target) \/ Occurrences(range, p.target) > 1 THEN Refusal
    ELSE Patched(before \o ReplaceFirst(range, p.target, p.replacement) \o after)

PatchFile(p) == IF p.startLine = 0 /\ p.endLine = 0 THEN PatchWhole(p) ELSE PatchRange(p)

Patches == [text : Texts, target : Targets, replacement : Replacements,
            startLine : LineNumbers, endLine : LineNumbers]

Pending == [status |-> "pending", text |-> <<>>]

PatchInit == patch \in Patches /\ outcome = Pending

Patch == outcome = Pending /\ outcome' = PatchFile(patch) /\ UNCHANGED patch

PatchSpec == PatchInit /\ [][Patch]_patchVars

---------------------------------------------------------------------------
(* Properties *)

\* The places of the target within the lines given, without their last line break.
PlacesInRange(p) ==
    {i \in Places(p.text, p.target) :
        /\ p.startLine # 0 => LineOf(p.text, i) >= p.startLine
        /\ p.endLine # 0 => LineOf(p.text, i + Len(p.target)) <= p.endLine}

Replaced(p, i) ==
    SubSeq(p.text, 1, i - 1) \o Expand(p.replacement, p.target)
    \o SubSeq(p.text, i + Len(p.target), Len(p.text))

\* A patch replaces one occurrence of the target inside the lines given and
\* leaves every other character alone, up to the limit of a text; and a target
\* that occurs there once, on lines that exist, is never refused.
PatchTouchesOneSpot ==
    patch.target # <<>> /\ outcome # Pending =>
        IF outcome.status = "patched"
        THEN \E i \in PlacesInRange(patch) : outcome = Patched(Replaced(patch, i))
        ELSE Cardinality(PlacesInRange(patch)) # 1

\* mcp-server.ts, the schema of patch_file: "The string content to replace
\* targetContent with."
ReplacementIsVerbatim ==
    patch.target # <<>> /\ outcome.status = "patched" =>
        \E i \in PlacesInRange(patch) :
            outcome.text = SubSeq(patch.text, 1, i - 1) \o patch.replacement
                           \o SubSeq(patch.text, i + Len(patch.target), Len(patch.text))

\* patchFileHelper: "Target content is not unique in file".
PatchedTargetWasUnique ==
    patch.target # <<>> /\ outcome.status = "patched" => Cardinality(PlacesInRange(patch)) = 1

=============================================================================
