------------------------------- MODULE FileEdits -------------------------------
(***************************************************************************)
(* The edit and write tools of the agents (floe-bridge/src/tools/edit.ts,  *)
(* edit-diff.ts and write.ts) on one file of the workspace.                *)
(*                                                                         *)
(* A text is a sequence of marks: letters ("a", "b"), a ligature of the    *)
(* two ("w"), white space ("s") and line ends, LF or CRLF ("n" and "r").   *)
(* Fuzzy matching looks at texts in plain writing, in which a ligature is  *)
(* its letters and no line ends with white space: a text in plain writing  *)
(* may be longer or shorter.  A call reads the file, replaces its parts    *)
(* and writes the file in one go.                                          *)
(***************************************************************************)
EXTENDS Integers, Sequences
LOCAL INSTANCE SequencesExt

CONSTANTS
    Marks,        \* marks of a text
    NewMarks,     \* marks of the texts an edit puts in
    MaxText,      \* bounds: marks of the file,
    MaxOld,       \*   of the text a single edit looks for,
    MaxTwo,       \*   of the texts two edits of a call look for,
    MaxNew        \*   of the text an edit puts there

ASSUME EditsAssumption ==
    /\ Marks \subseteq {"a", "b", "w", "s", "n", "r"} /\ Marks # {}
    /\ "w" \in Marks => {"a", "b"} \subseteq Marks
    /\ NewMarks \subseteq Marks \ {"r"}
    /\ {MaxText, MaxOld, MaxTwo, MaxNew} \subseteq Nat

VARIABLE file    \* the text of the file

Texts(marks, n) == UNION {[1..k -> marks] : k \in 0..n}
EditsTypeOK == file \in Texts(Marks, MaxText)

-----------------------------------------------------------------------------
(* edit-diff                                                               *)

\* normalizeToLF, and detectLineEnding: the first line decides.
ToLF(text) == [i \in DOMAIN text |-> IF text[i] = "r" THEN "n" ELSE text[i]]
HasCRLF(text) ==
    \E i \in DOMAIN text : text[i] = "r" /\ \A j \in 1..(i - 1) : text[j] # "n"
RestoreEndings(text, crlf) ==
    [i \in DOMAIN text |-> IF crlf /\ text[i] = "n" THEN "r" ELSE text[i]]

\* normalizeForFuzzyMatch: NFKC, then every line is trimmed at its end, the last one too.
Spelled(text) ==
    FlattenSeq([i \in DOMAIN text |-> IF text[i] = "w" THEN <<"a", "b">> ELSE <<text[i]>>])
Trails(text, i) ==
    \E j \in i..Len(text) : /\ \A k \in i..j : text[k] = "s"
                            /\ j = Len(text) \/ text[j + 1] = "n"
Trimmed(text) ==
    FlattenSeq([i \in DOMAIN text |-> IF Trails(text, i) THEN <<>> ELSE <<text[i]>>])
Plain(text) == Trimmed(Spelled(text))

Occurrences(text, old) ==
    {i \in 1..(Len(text) - Len(old) + 1) : SubSeq(text, i, i + Len(old) - 1) = old}
FirstOf(places) == CHOOSE i \in places : \A j \in places : i <= j

\* Edits, each with its old text in plain writing.  The texts of the agents have LF only:
\* normalizeToLF of what they pass.
Edits(n) == {[old |-> old, plain |-> Plain(old), new |-> new] :
                old \in Texts(Marks \ {"r"}, n), new \in Texts(NewMarks, MaxNew)}
EditCalls ==
    {<<e>> : e \in Edits(MaxOld)} \cup {<<e, f>> : e, f \in Edits(MaxTwo)}

\* fuzzyFindText in a text that is plain in plain writing: exactly, or else the one plain text
\* in the other; at 0 for nowhere.
Find(text, plain, edit) ==
    LET exact == Occurrences(text, edit.old)
        fuzzy == Occurrences(plain, edit.plain)
    IN IF exact # {} THEN [at |-> FirstOf(exact), length |-> Len(edit.old), fuzzy |-> FALSE]
       ELSE IF fuzzy # {} THEN [at |-> FirstOf(fuzzy), length |-> Len(edit.plain), fuzzy |-> TRUE]
       ELSE [at |-> 0, length |-> 0, fuzzy |-> FALSE]

\* countOccurrences > 1: split finds places that do not overlap, and splits at every mark
\* when nothing is left of what it is to split at.
Ambiguous(plain, edit) ==
    IF edit.plain = <<>> THEN Len(plain) > 2
    ELSE \E i, j \in Occurrences(plain, edit.plain) : j - i >= Len(edit.plain)

\* The order of the sorted matches: those at one place as the call has them.
Before(match, i, j) == match[i].at < match[j].at \/ (match[i].at = match[j].at /\ i < j)

\* Mutant of Overlap: edits that touch are let through, and so are those that share a mark.
OverlapByMore(match, i, j) ==
    Before(match, i, j) /\ match[i].at + match[i].length > match[j].at + 1

\* Of two edits of a call, sorted by place, the first reaches into the second.
Overlap(match, i, j) == Before(match, i, j) /\ match[i].at + match[i].length > match[j].at

Replace(text, found, new) ==
    SubSeq(text, 1, found.at - 1) \o new \o SubSeq(text, found.at + found.length, Len(text))

\* applyEditsToNormalizedContent: every edit is looked for in the original, and they are
\* applied from the last place to the first.  One edit that needs the plain text makes the
\* whole file plain, in which all are looked for again.  What is plain stays so.
Applied(text, call) ==
    LET plain == Plain(text)
        base == IF \E i \in DOMAIN call : Find(text, plain, call[i]).fuzzy THEN plain ELSE text
        match == [i \in DOMAIN call |-> Find(base, plain, call[i])]
        order == SetToSortSeq(DOMAIN call, LAMBDA i, j : Before(match, j, i))
        result == FoldLeft(LAMBDA t, i : Replace(t, match[i], call[i].new), base, order)
    IN IF \/ \E i \in DOMAIN call : call[i].old = <<>>
          \/ \E i \in DOMAIN call : match[i].at = 0 \/ Ambiguous(plain, call[i])
          \/ \E i, j \in DOMAIN call : Overlap(match, i, j)
          \/ result = base
       THEN [ok |-> FALSE, text |-> text]
       ELSE [ok |-> TRUE, text |-> result]

\* The edit tool: the file as it would be written.
EditedFile(before, call) ==
    LET done == Applied(ToLF(before), call)
    IN [done EXCEPT !.text = IF done.ok THEN RestoreEndings(@, HasCRLF(before)) ELSE before]

-----------------------------------------------------------------------------
EditsInit == file = <<>>

EditFile(call) ==
    LET after == EditedFile(file, call)
    IN after.ok /\ Len(after.text) <= MaxText /\ file' = after.text

OverwriteFile(text) == file' = text

EditsNext ==
    \/ \E call \in EditCalls : EditFile(call)
    \/ \E text \in Texts(Marks, MaxText) : OverwriteFile(text)

EditsSpec == EditsInit /\ [][EditsNext]_file

-----------------------------------------------------------------------------
(* Properties                                                              *)

\* The text that matching works on: as it is written when every text is in it like that.
Base(text, plain, call) ==
    IF \A i \in DOMAIN call : Occurrences(text, call[i].old) # {} THEN text ELSE plain

\* Where the edits of a call may go: each over its text, as written or in plain writing, and
\* no two over the same mark.
Arrangements(text, call) ==
    LET where == [i \in DOMAIN call |->
                    UNION {{<<at, Len(old)>> : at \in Occurrences(text, old)} :
                             old \in {call[i].old, call[i].plain}}]
    IN {to \in [DOMAIN call -> UNION {where[i] : i \in DOMAIN call}] :
          \A i, j \in DOMAIN call :
             /\ to[i] \in where[i]
             /\ i # j => to[i][1] + to[i][2] <= to[j][1] \/ to[j][1] + to[j][2] <= to[i][1]}

\* The text with every edit in its place at once, mark by mark.
InPlace(text, call, to) ==
    LET New(k) == [i \in DOMAIN call |-> IF to[i][1] = k THEN call[i].new ELSE <<>>]
        Covered(k) == \E i \in DOMAIN call : k \in to[i][1]..(to[i][1] + to[i][2] - 1)
    IN FlattenSeq([k \in 1..(Len(text) + 1) |->
           FlattenSeq(New(k)) \o IF Covered(k) \/ k > Len(text) THEN <<>> ELSE <<text[k]>>])

\* White space only.  Matching sees nothing in it: such a text is put in front of a file it is
\* not in, if that is short, and refused in a longer one wherever it is.
Blank(edit) == edit.plain = <<>>

\* As matching sees it, the text is in one place, or in places that share marks.
IsOnce(plain, edit) ==
    \A p, q \in Occurrences(plain, edit.plain) : p - q < Len(edit.plain)

\* A call that succeeds puts every text in its place at once and leaves the rest of the file
\* as it was, or as it is in plain writing when one of the texts was not found as it is
\* written; and it leaves the lines with the ending of the first.  Each text was in one place
\* only.  A call that fails had a text to look for that is nowhere or not in one place only,
\* or lies over another one's, or would have changed nothing.
\* The exceptions: places that share marks count as one (edit.ts:32 and 40 say that the text
\* must be unique), and a text of white space only is no text (see Blank).  In one place only
\* is meant of the plain writing: "b s" is refused in "b s b", where it is once as written.
EditIsExact(call) ==
    LET after == EditedFile(file, call)
        plain == Plain(ToLF(file))
        text == Base(ToLF(file), plain, call)
        arrangements == Arrangements(text, call)
    IN /\ after.ok =>
            /\ \E to \in arrangements : ToLF(after.text) = InPlace(text, call, to)
            /\ \A i \in DOMAIN call : IsOnce(plain, call[i]) \/ Blank(call[i])
            /\ \A i \in DOMAIN after.text :
                 after.text[i] \in {"n", "r"} => (after.text[i] = "r") = HasCRLF(file)
       /\ ~after.ok =>
            \/ arrangements = {}
            \/ \E i \in DOMAIN call : ~IsOnce(plain, call[i]) \/ Blank(call[i])
            \/ \E to \in arrangements : InPlace(text, call, to) = text

EveryEditIsExact == \A call \in EditCalls : EditIsExact(call)
=============================================================================
