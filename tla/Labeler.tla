------------------------------ MODULE Labeler ------------------------------
(***************************************************************************)
(* The behavior labeler of internal/behavior: Label folds the spans of a   *)
(* closed trace, in order, into a tree of branches, and propagateFlags     *)
(* bubbles errors up.  A span is its type, the keyword groups its prompts  *)
(* mention, the tool it calls and its error flag; a leaf is the index of   *)
(* its span.  Warnings bubble exactly as errors do and are left out, and   *)
(* so is the wording of the root and of the leaves.                        *)
(***************************************************************************)
EXTENDS Integers, Sequences, SequencesExt, FiniteSets

\* classify: the first keyword group that occurs decides; (behavior, sub).
Classify(s) ==
    CASE s.type = "llm_call" /\ "plan" \in s.says -> <<"Planning", "Task decomposition">>
      [] s.type = "llm_call" /\ "plan" \notin s.says /\ "summar" \in s.says
           -> <<"Synthesis", "Summarization">>
      [] s.type = "llm_call" /\ s.says = {"classif"} -> <<"Analysis", "Classification">>
      [] s.type = "llm_call" /\ s.says = {} -> <<"Reasoning", "LLM consultation">>
      [] s.type = "tool_call" -> <<"Tool use", s.tool>>
      [] s.type = "db_call" -> <<"Data access", "Database query">>
      [] s.type = "output" -> <<"Responding", "Deliver result to user">>
      [] s.type = "external" -> <<"External communication", "Uncatalogued destination">>
      [] OTHER -> <<"Activity", "">>

Behavior(s) == Classify(s)[1]
Sub(s) == Classify(s)[2]

Leaf(i, s) == [kind |-> "span", label |-> "", spans |-> <<i>>, error |-> s.error]
Branch(label) == [label |-> label, children |-> <<>>, error |-> FALSE]

\* current is the last branch; a span of another behavior opens a new one,
\* even if an earlier branch has its label.
OpensAnywhere(tree, s) == \A k \in DOMAIN tree : tree[k].label # Behavior(s)
Opens(tree, s) == tree = <<>> \/ Last(tree).label # Behavior(s)

\* The span goes under the sub-behavior of its name in the branch, which is
\* created the first time, or straight under the branch if it has none.
PutLeaf(branch, i, s) ==
    LET same == {k \in DOMAIN branch.children :
                    /\ branch.children[k].kind = "sub_behavior"
                    /\ branch.children[k].label = Sub(s)}
        new == [Leaf(i, s) EXCEPT !.kind = "sub_behavior", !.label = Sub(s), !.error = FALSE]
    IN IF Sub(s) = "" THEN [branch EXCEPT !.children = Append(@, Leaf(i, s))]
       ELSE IF same = {} THEN [branch EXCEPT !.children = Append(@, new)]
       ELSE LET k == CHOOSE x \in same : \A y \in same : x <= y
            IN [branch EXCEPT !.children[k].spans = Append(@, i)]

AddSpan(tree, i, s) ==
    LET grown == IF Opens(tree, s) THEN Append(tree, Branch(Behavior(s))) ELSE tree
    IN [grown EXCEPT ![Len(grown)] = PutLeaf(@, i, s)]

\* propagateFlags, from the leaves up.
Flagged(tree, spans) ==
    LET ofChild(c) == [c EXCEPT !.error = \E i \in DOMAIN c.spans : spans[c.spans[i]].error]
        ofBranch(b) ==
            LET children == [k \in DOMAIN b.children |-> ofChild(b.children[k])]
            IN [b EXCEPT !.children = children,
                         !.error = \E k \in DOMAIN children : children[k].error]
    IN [k \in DOMAIN tree |-> ofBranch(tree[k])]

Label(spans) ==
    Flagged(FoldLeftDomain(LAMBDA tree, i : AddSpan(tree, i, spans[i]), <<>>, spans), spans)

-----------------------------------------------------------------------------
(* The reference: branches are the runs of one behavior.                   *)

\* The maximal runs of consecutive spans with one behavior.
Runs(spans) ==
    {r \in (DOMAIN spans) \X (DOMAIN spans) :
        /\ r[1] <= r[2]
        /\ \A i \in r[1]..r[2] : Behavior(spans[i]) = Behavior(spans[r[1]])
        /\ r[1] = 1 \/ Behavior(spans[r[1] - 1]) # Behavior(spans[r[1]])
        /\ r[2] = Len(spans) \/ Behavior(spans[r[2] + 1]) # Behavior(spans[r[2]])}

\* A branch holds the spans of one run: its children come in the order of
\* their first spans, a sub-behavior occurs once and holds its spans in order.
HoldsRun(branch, run, spans) ==
    LET kids == branch.children
        inRun == run[1]..run[2]
    IN /\ branch.label = Behavior(spans[run[1]])
       /\ branch.error <=> \E i \in inRun : spans[i].error
       /\ UNION {ToSet(kids[k].spans) : k \in DOMAIN kids} = inRun
       /\ \A k \in DOMAIN kids :
             /\ kids[k].error <=> \E i \in ToSet(kids[k].spans) : spans[i].error
             /\ \A m \in 1..(Len(kids[k].spans) - 1) : kids[k].spans[m] < kids[k].spans[m + 1]
             /\ kids[k].kind = "sub_behavior" => ToSet(kids[k].spans) =
                   {i \in inRun : Sub(spans[i]) = kids[k].label}
             /\ kids[k].kind = "span" => Len(kids[k].spans) = 1
             /\ k > 1 => kids[k - 1].spans[1] < kids[k].spans[1]

IsGrouping(tree, spans) ==
    /\ Len(tree) = Cardinality(Runs(spans))
    /\ \A run \in Runs(spans) :
          HoldsRun(tree[Cardinality({r \in Runs(spans) : r[1] <= run[1]})], run, spans)
=============================================================================
