------------------------------ MODULE Snippet ------------------------------
(***************************************************************************)
(* snippetAround of internal/store: the part of a payload that a search    *)
(* result shows.  A text is its length; at is the byte offset of the first *)
(* occurrence of the keyword, -1 if there is none.  Texts whose lower case *)
(* has another length are not represented.                                 *)
(***************************************************************************)
EXTENDS Integers

\* Half of the width before the match, moved right or left to stay in the text.
UnclampedFrom(length, at, width) == at - (width \div 2)
From(length, at, width) ==
    LET start == at - (width \div 2)
    IN IF start < 0 THEN 0
       ELSE IF start + width <= length THEN start
       ELSE IF length - width < 0 THEN 0 ELSE length - width
UptoHalf(length, from, width) ==
    IF from + width > length THEN length ELSE from + (width \div 2)
Upto(length, from, width) == IF from + width > length THEN length ELSE from + width

\* The bytes shown, from `from` up to but without `to`, and the two ellipses.
SnippetAround(length, at, width) ==
    LET from == From(length, at, width)
        to == Upto(length, from, width)
    IN IF length <= width
         THEN [from |-> 0, to |-> length, before |-> FALSE, after |-> FALSE]
       ELSE IF at < 0
         THEN [from |-> 0, to |-> width, before |-> FALSE, after |-> TRUE]
         ELSE [from |-> from, to |-> to, before |-> from > 0, after |-> to < length]

-----------------------------------------------------------------------------
(* What a search result promises.                                          *)

\* The slice is in range and as wide as it may be, and an ellipsis stands
\* exactly where text was cut off.
WellCut(length, at, width) ==
    LET s == SnippetAround(length, at, width)
    IN /\ 0 <= s.from /\ s.from <= s.to /\ s.to <= length
       /\ s.to - s.from = (IF length <= width THEN length ELSE width)
       /\ s.before <=> s.from > 0
       /\ s.after <=> s.to < length

\* The match itself, of a keyword no longer than half the width, is shown.
ShowsMatch(length, at, size, width) ==
    LET s == SnippetAround(length, at, width)
    IN s.from <= at /\ at + size <= s.to
=============================================================================
