------------------------------- MODULE Policy -------------------------------
(***************************************************************************)
(* The policy engine of internal/policy: match and Check.  A string is a   *)
(* sequence of characters, one of which is the wildcard.                   *)
(***************************************************************************)
EXTENDS Integers, Sequences, SequencesExt

CONSTANT Star      \* the wildcard character

-----------------------------------------------------------------------------
(* match: the literal chunks between the stars, looked for from left to    *)
(* right, each where it first occurs.                                      *)

\* strings.Split(pattern, "*")
Split(pattern) ==
    FoldLeft(LAMBDA chunks, c : IF c = Star
                                  THEN Append(chunks, <<>>)
                                  ELSE [chunks EXCEPT ![Len(chunks)] = Append(@, c)],
             << <<>> >>, pattern)

\* The offsets at which chunk occurs in rest.
Occurrences(rest, chunk) ==
    {i \in 0..(Len(rest) - Len(chunk)) : SubSeq(rest, i + 1, i + Len(chunk)) = chunk}

\* What is left of rest after the chunk found at offset i.
AfterStart(rest, chunk, i) == SubSeq(rest, i + 2, Len(rest))
After(rest, chunk, i) == SubSeq(rest, i + Len(chunk) + 1, Len(rest))

Consume(state, chunk) ==
    LET at == Occurrences(state.rest, chunk)
    IN IF ~state.found \/ chunk = <<>> THEN state
       ELSE IF at = {} THEN [state EXCEPT !.found = FALSE]
       ELSE [state EXCEPT !.rest = After(@, chunk, CHOOSE i \in at : \A j \in at : i <= j)]

ChunksInOrder(pattern, dest) ==
    FoldLeft(Consume, [found |-> TRUE, rest |-> dest], Split(pattern)).found

StarFirst(pattern) == IsPrefix(<<Star>>, pattern)
StarLast(pattern) == IsSuffix(<<Star>>, pattern)

Match(pattern, dest) ==
    /\ StarFirst(pattern) \/ IsPrefix(Head(Split(pattern)), dest)
    /\ StarLast(pattern) \/ IsSuffix(Last(Split(pattern)), dest)
    /\ ChunksInOrder(pattern, dest)

\* Check warns unless a rule whose agent pattern fits allows the destination;
\* rules that come before or after it, for the same agent, forbid nothing.
Check(rules, agent, dest) ==
    IF \E i \in DOMAIN rules : /\ Match(rules[i].agent, agent)
                               /\ \E pattern \in rules[i].allow : Match(pattern, dest)
      THEN "none" ELSE "policy_engine"

-----------------------------------------------------------------------------
(* The reference: what a pattern with wildcards means.                     *)

\* The places in dest at which one can be after the first i characters of the
\* pattern: a star stands for any characters, everything else for itself.
Glob(pattern, dest) ==
    LET at[i \in 0..Len(pattern)] ==
            IF i = 0 THEN {1}
            ELSE IF pattern[i] = Star
              THEN {j \in 1..(Len(dest) + 1) : \E k \in at[i - 1] : k <= j}
              ELSE {j \in 2..(Len(dest) + 1) : j - 1 \in at[i - 1] /\ dest[j - 1] = pattern[i]}
    IN Len(dest) + 1 \in at[Len(pattern)]
=============================================================================
