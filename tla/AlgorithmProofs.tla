-------------------------- MODULE AlgorithmProofs --------------------------
(***************************************************************************)
(* Proofs about two algorithms, for every input: Label of the behavior     *)
(* labeler groups any sequence of spans into runs, and match of the policy *)
(* engine takes what the pattern, read as one with wildcards, takes.       *)
(***************************************************************************)
EXTENDS Policy, Labeler, Induction, SequenceTheorems

-----------------------------------------------------------------------------
(* Label: what a tree holds after the first spans.                         *)

\* No sub-behavior.  (The provers take no empty string.)
NoSub == ""

ChildOf(L) == [kind : {"span", "sub_behavior"}, label : L, spans : Seq(Nat), error : BOOLEAN]
BranchOf(L) == [label : L, children : Seq(ChildOf(L)), error : BOOLEAN]

\* The child c holds the j-th span.
HoldsSpan(c, j) == \E m \in 1..Len(c.spans) : c.spans[m] = j

\* A child of a branch that holds the spans from lo to hi.
ChildHolds(c, lo, hi, spans) ==
    /\ c.spans # <<>>
    /\ \A m \in 1..Len(c.spans) : c.spans[m] \in lo..hi
    /\ \A m \in 1..(Len(c.spans) - 1) : c.spans[m] < c.spans[m + 1]
    /\ c.kind = "span" => Len(c.spans) = 1 /\ Sub(spans[c.spans[1]]) = NoSub
    /\ c.kind = "sub_behavior" =>
          c.label # NoSub /\ \A j \in lo..hi : Sub(spans[j]) = c.label => HoldsSpan(c, j)
    /\ c.kind = "sub_behavior" =>
          \A m \in 1..Len(c.spans) : Sub(spans[c.spans[m]]) = c.label

\* No two sub-behaviors of a branch have the same name.
DistinctSubs(children) ==
    \A k, m \in 1..Len(children) :
        k # m /\ children[k].kind = "sub_behavior" /\ children[m].kind = "sub_behavior"
        => children[k].label # children[m].label

BranchHolds(b, lo, hi, spans) ==
    /\ b.label = Behavior(spans[lo])
    /\ \A j \in lo..hi : Behavior(spans[j]) = b.label
    /\ \A j \in lo..hi : \E k \in 1..Len(b.children) : HoldsSpan(b.children[k], j)
    /\ \A k \in 1..Len(b.children) : ChildHolds(b.children[k], lo, hi, spans)
    /\ \A k \in 2..Len(b.children) : b.children[k - 1].spans[1] < b.children[k].spans[1]
    /\ DistinctSubs(b.children)

\* A child that keeps its spans holds them when there is one more that is not its.
LEMMA ChildKept ==
    ASSUME NEW L, NEW c \in ChildOf(L), NEW spans, NEW lo \in Nat, NEW i \in Nat,
           ChildHolds(c, lo, i - 1, spans),
           c.kind = "sub_behavior" => Sub(spans[i]) # c.label
    PROVE  ChildHolds(c, lo, i, spans)
<1>1. \A j \in lo..i : j \in lo..(i - 1) \/ j = i
  OBVIOUS
<1>2. Len(c.spans) \in Nat /\ c.spans \in Seq(Nat)
  BY DEF ChildOf
<1>3. \A m \in 1..Len(c.spans) : c.spans[m] \in lo..i
  <2>1. \A j \in lo..(i - 1) : j \in lo..i
    OBVIOUS
  <2> QED
    BY <2>1 DEF ChildHolds
<1>4. c.kind = "sub_behavior" =>
          c.label # NoSub /\ \A j \in lo..i : Sub(spans[j]) = c.label => HoldsSpan(c, j)
  BY <1>1 DEF ChildHolds
<1> QED
  BY <1>3, <1>4 DEF ChildHolds

\* One span, in a sequence.
LEMMA OneSpan ==
    ASSUME NEW i \in Nat
    PROVE  /\ <<i>> \in Seq(Nat) /\ <<i>> # <<>> /\ Len(<<i>>) = 1 /\ <<i>>[1] = i
           /\ \A m \in 1..Len(<<i>>) : m = 1
           /\ \A m \in 1..(Len(<<i>>) - 1) : FALSE
OBVIOUS

\* A leaf is a child that holds its span.
LEMMA LeafHolds ==
    ASSUME NEW L, NoSub \in L, NEW spans, NEW i \in Nat, NEW lo \in Nat, lo \in 1..i,
           spans[i].error \in BOOLEAN, Sub(spans[i]) = NoSub
    PROVE  /\ Leaf(i, spans[i]) \in ChildOf(L)
           /\ ChildHolds(Leaf(i, spans[i]), lo, i, spans)
           /\ HoldsSpan(Leaf(i, spans[i]), i) /\ Leaf(i, spans[i]).spans[1] = i
<1>0. PICK q : q = <<i>>
  OBVIOUS
<1>1. /\ q \in Seq(Nat) /\ q # <<>> /\ Len(q) = 1 /\ q[1] = i
      /\ \A m \in 1..Len(q) : m = 1
      /\ \A m \in 1..(Len(q) - 1) : FALSE
  BY <1>0, OneSpan, Zenon
<1>2. PICK c : c = [kind |-> "span", label |-> NoSub, spans |-> q, error |-> spans[i].error]
  OBVIOUS
<1>3. Leaf(i, spans[i]) = c
  BY <1>0, <1>2, Zenon DEF Leaf, NoSub
<1>4. c \in ChildOf(L) /\ c.kind = "span" /\ c.spans = q
  BY <1>1, <1>2 DEF ChildOf
<1>5. \A m \in 1..Len(q) : q[m] \in lo..i
  BY <1>1
<1>6. ChildHolds(c, lo, i, spans)
  BY <1>1, <1>4, <1>5 DEF ChildHolds
<1>7. HoldsSpan(c, i)
  BY <1>1, <1>4 DEF HoldsSpan
<1> QED
  BY <1>1, <1>3, <1>4, <1>6, <1>7

\* What PutLeaf makes of the first span of a sub-behavior.
FirstSub(lo, i, spans) == \A j \in lo..(i - 1) : Sub(spans[j]) # Sub(spans[i])
FirstOf(i, s) == [Leaf(i, s) EXCEPT !.kind = "sub_behavior", !.label = Sub(s), !.error = FALSE]

\* A new child of a branch, for its i-th span.
NewChild(c, lo, i, spans, L) ==
    c \in ChildOf(L) /\ ChildHolds(c, lo, i, spans) /\ HoldsSpan(c, i) /\ c.spans[1] = i

LEMMA FirstHolds ==
    ASSUME NEW L, NEW spans, NEW i \in Nat, NEW lo \in Nat, lo \in 1..i,
           Sub(spans[i]) \in L, Sub(spans[i]) # NoSub,
           FirstSub(lo, i, spans)
    PROVE  NewChild(FirstOf(i, spans[i]), lo, i, spans, L)
<1>0. PICK q : q = <<i>>
  OBVIOUS
<1>1. /\ q \in Seq(Nat) /\ q # <<>> /\ Len(q) = 1 /\ q[1] = i
      /\ \A m \in 1..Len(q) : m = 1
      /\ \A m \in 1..(Len(q) - 1) : FALSE
  BY <1>0, OneSpan, Zenon
<1>2. PICK c : c = [kind |-> "sub_behavior", label |-> Sub(spans[i]), spans |-> q, error |-> FALSE]
  OBVIOUS
<1>3. FirstOf(i, spans[i]) = c
  <2>1. Leaf(i, spans[i]) = [kind |-> "span", label |-> NoSub, spans |-> q, error |-> spans[i].error]
    BY <1>0, Zenon DEF Leaf, NoSub
  <2>2. FirstOf(i, spans[i]) =
            [[kind |-> "span", label |-> NoSub, spans |-> q, error |-> spans[i].error]
                EXCEPT !.kind = "sub_behavior", !.label = Sub(spans[i]), !.error = FALSE]
    BY <2>1, Zenon DEF FirstOf
  <2> QED
    BY <1>2, <2>2
<1>4. /\ c \in ChildOf(L) /\ c.kind = "sub_behavior" /\ c.spans = q
      /\ c.label = Sub(spans[i])
  BY <1>1, <1>2 DEF ChildOf
<1>5. HoldsSpan(c, i)
  BY <1>1, <1>4 DEF HoldsSpan
<1>6. \A j \in lo..i : Sub(spans[j]) = c.label => HoldsSpan(c, j)
  <2>1. \A j \in lo..i : j \in lo..(i - 1) \/ j = i
    OBVIOUS
  <2> QED
    BY <1>4, <1>5, <2>1 DEF FirstSub
<1>7. \A m \in 1..Len(q) : q[m] \in lo..i /\ Sub(spans[q[m]]) = c.label
  BY <1>1, <1>4
<1>8. ChildHolds(c, lo, i, spans)
  BY <1>1, <1>4, <1>6, <1>7 DEF ChildHolds
<1> QED
  BY <1>1, <1>3, <1>4, <1>5, <1>8 DEF NewChild

\* What PutLeaf makes of a sub-behavior that gets one more span.
Extended(c, i) == [c EXCEPT !.spans = Append(@, i)]

LEMMA ExtendedHolds ==
    ASSUME NEW L, NEW c \in ChildOf(L), NEW spans, NEW i \in Nat, NEW lo \in Nat, lo \in 1..i,
           ChildHolds(c, lo, i - 1, spans),
           c.kind = "sub_behavior", Sub(spans[i]) = c.label
    PROVE  /\ Extended(c, i) \in ChildOf(L)
           /\ ChildHolds(Extended(c, i), lo, i, spans)
           /\ HoldsSpan(Extended(c, i), i)
           /\ \A j : HoldsSpan(c, j) => HoldsSpan(Extended(c, i), j)
           /\ Extended(c, i).spans[1] = c.spans[1]
<1> PICK q \in Seq(Nat), n \in Nat : q = c.spans /\ n = Len(q)
  BY DEF ChildOf
<1>0. PICK r : r = Append(q, i)
  OBVIOUS
<1>2. /\ r \in Seq(Nat) /\ Len(r) = n + 1
      /\ \A m \in 1..n : r[m] = q[m]
      /\ r[n + 1] = i
  BY <1>0
<1> PICK d : d = [c EXCEPT !.spans = r]
  OBVIOUS
<1>1. /\ d \in ChildOf(L) /\ d.kind = "sub_behavior" /\ d.label = c.label
      /\ d.spans = r
  BY <1>2 DEF ChildOf
<1>3. /\ n > 0 /\ \A m \in 1..n : q[m] \in lo..(i - 1)
  <2>1. q # <<>> /\ \A m \in 1..n : q[m] \in lo..(i - 1)
    BY DEF ChildHolds
  <2>2. n # 0
    BY <2>1
  <2> QED
    BY <2>1, <2>2
<1>4. HoldsSpan(d, i)
  <2>1. n + 1 \in 1..Len(d.spans) /\ d.spans[n + 1] = i
    BY <1>1, <1>2
  <2> QED
    BY <2>1 DEF HoldsSpan
<1>5. \A j : HoldsSpan(c, j) => HoldsSpan(d, j)
  <2>1. \A m \in 1..n : m \in 1..(n + 1)
    OBVIOUS
  <2> QED
    BY <1>1, <1>2, <2>1 DEF HoldsSpan
<1>6. \A m \in 1..Len(d.spans) : d.spans[m] \in lo..i /\ Sub(spans[d.spans[m]]) = d.label
  <2>1. ASSUME NEW m \in 1..(n + 1)
        PROVE  r[m] \in lo..i /\ Sub(spans[r[m]]) = c.label
    <3>1. CASE m = n + 1
      BY <1>2, <3>1
    <3>2. CASE m \in 1..n
      <4>1. r[m] = q[m] /\ q[m] \in lo..(i - 1) /\ Sub(spans[q[m]]) = c.label
        BY <1>2, <1>3, <3>2 DEF ChildHolds
      <4> QED
        BY <4>1
    <3> QED
      BY <3>1, <3>2
  <2> QED
    BY <1>1, <1>2, <2>1
<1>7. \A m \in 1..(Len(d.spans) - 1) : d.spans[m] < d.spans[m + 1]
  <2>1. ASSUME NEW m \in 1..n
        PROVE  r[m] < r[m + 1]
    <3>1. CASE m = n
      BY <1>2, <1>3, <3>1
    <3>2. CASE m # n
      <4>1. m \in 1..(n - 1) /\ m + 1 \in 1..n
        BY <3>2
      <4>2. q[m] < q[m + 1]
        BY <4>1 DEF ChildHolds
      <4> QED
        BY <1>2, <4>1, <4>2
    <3> QED
      BY <3>1, <3>2
  <2> QED
    BY <1>1, <1>2, <2>1
<1>8. d.label # NoSub /\ \A j \in lo..i : Sub(spans[j]) = d.label => HoldsSpan(d, j)
  <2>1. \A j \in lo..i : j \in lo..(i - 1) \/ j = i
    OBVIOUS
  <2>2. c.label # NoSub /\ \A j \in lo..(i - 1) : Sub(spans[j]) = c.label => HoldsSpan(c, j)
    BY DEF ChildHolds
  <2> QED
    BY <1>1, <1>4, <1>5, <2>1, <2>2
<1>9. ChildHolds(d, lo, i, spans)
  <2>1. d.spans # <<>>
    BY <1>1, <1>2, <1>3
  <2> QED
    BY <1>1, <1>6, <1>7, <1>8, <2>1 DEF ChildHolds
<1>10. d.spans[1] = c.spans[1]
  <2>1. 1 \in 1..n
    BY <1>3
  <2> QED
    BY <1>1, <1>2, <2>1
<1>11. d = Extended(c, i)
  BY <1>0 DEF Extended
<1> QED
  BY <1>1, <1>4, <1>5, <1>9, <1>10, <1>11

\* A branch that gets the next span holds it.
LEMMA PutLeafHolds ==
    ASSUME NEW L, NoSub \in L, NEW spans, NEW i \in Nat, NEW lo \in Nat, lo \in 1..i,
           NEW b \in BranchOf(L), BranchHolds(b, lo, i - 1, spans),
           Sub(spans[i]) \in L, spans[i].error \in BOOLEAN, Behavior(spans[i]) = b.label
    PROVE  /\ PutLeaf(b, i, spans[i]) \in BranchOf(L)
           /\ BranchHolds(PutLeaf(b, i, spans[i]), lo, i, spans)
<1>0. PICK q \in Seq(ChildOf(L)), n \in Nat : q = b.children /\ n = Len(q)
  BY DEF BranchOf
<1>1. /\ \A j \in lo..(i - 1) : \E k \in 1..n : HoldsSpan(q[k], j)
      /\ \A k \in 1..n : q[k] \in ChildOf(L) /\ ChildHolds(q[k], lo, i - 1, spans)
      /\ \A k \in 2..n : q[k - 1].spans[1] < q[k].spans[1]
      /\ DistinctSubs(q)
  BY <1>0 DEF BranchHolds
<1>2. \A j \in lo..i : j \in lo..(i - 1) \/ j = i
  OBVIOUS
\* What is left to show is that the new children hold the spans.
<1>3. ASSUME NEW r \in Seq(ChildOf(L)),
             \A j \in lo..i : \E k \in 1..Len(r) : HoldsSpan(r[k], j),
             \A k \in 1..Len(r) : ChildHolds(r[k], lo, i, spans),
             \A k \in 2..Len(r) : r[k - 1].spans[1] < r[k].spans[1],
             DistinctSubs(r)
      PROVE  /\ [b EXCEPT !.children = r] \in BranchOf(L)
             /\ BranchHolds([b EXCEPT !.children = r], lo, i, spans)
  <2> PICK d : d = [b EXCEPT !.children = r]
    OBVIOUS
  <2>1. d \in BranchOf(L) /\ d.label = b.label /\ d.children = r
    BY DEF BranchOf
  <2>2. \A j \in lo..i : Behavior(spans[j]) = b.label
    BY <1>2 DEF BranchHolds
  <2>3. BranchHolds(d, lo, i, spans)
    BY <1>3, <2>1, <2>2 DEF BranchHolds
  <2> QED
    BY <2>1, <2>3
\* A child that is put at the end.
<1>4. ASSUME NEW c \in ChildOf(L), ChildHolds(c, lo, i, spans), HoldsSpan(c, i), c.spans[1] = i,
             \A k \in 1..n : q[k].kind = "sub_behavior" => Sub(spans[i]) # q[k].label
      PROVE  /\ [b EXCEPT !.children = Append(q, c)] \in BranchOf(L)
             /\ BranchHolds([b EXCEPT !.children = Append(q, c)], lo, i, spans)
  <2>0. PICK r : r = Append(q, c)
    OBVIOUS
  <2>1. /\ r \in Seq(ChildOf(L)) /\ Len(r) = n + 1 /\ r[n + 1] = c
        /\ \A k \in 1..n : r[k] = q[k]
    BY <1>0, <2>0
  <2>2. \A k \in 1..n : ChildHolds(q[k], lo, i, spans)
    BY <1>1, <1>4, ChildKept
  <2>3. \A k \in 1..(n + 1) : k \in 1..n \/ k = n + 1
    OBVIOUS
  <2>4. \A k \in 1..Len(r) : ChildHolds(r[k], lo, i, spans)
    BY <1>4, <2>1, <2>2, <2>3
  <2>5. \A j \in lo..i : \E k \in 1..Len(r) : HoldsSpan(r[k], j)
    <3>1. ASSUME NEW j \in lo..(i - 1) PROVE \E k \in 1..Len(r) : HoldsSpan(r[k], j)
      <4>1. PICK k \in 1..n : HoldsSpan(q[k], j)
        BY <1>1
      <4>2. k \in 1..Len(r) /\ r[k] = q[k]
        BY <2>1
      <4> QED
        BY <4>1, <4>2
    <3>2. n + 1 \in 1..Len(r) /\ HoldsSpan(r[n + 1], i)
      BY <1>4, <2>1
    <3> QED
      BY <1>2, <3>1, <3>2
  <2>6. ASSUME NEW k \in 2..Len(r)
        PROVE  r[k - 1].spans[1] < r[k].spans[1]
    <3>1. CASE k \in 2..n
      <4>1. k - 1 \in 1..n /\ k \in 1..n
        BY <3>1
      <4> QED
        BY <1>1, <2>1, <3>1, <4>1
    <3>2. CASE k = n + 1
      <4>1. n \in 1..n /\ k - 1 = n
        BY <2>1, <3>2
      <4>2. ChildHolds(q[n], lo, i - 1, spans) /\ q[n] \in ChildOf(L)
        BY <1>1, <4>1
      <4>3. q[n].spans # <<>> /\ q[n].spans \in Seq(Nat)
        BY <4>2 DEF ChildHolds, ChildOf
      <4>4. 1 \in 1..Len(q[n].spans)
        BY <4>3
      <4>5. q[n].spans[1] \in lo..(i - 1)
        BY <4>2, <4>4 DEF ChildHolds
      <4>6. q[n].spans[1] < i
        BY <4>5
      <4> QED
        BY <1>4, <2>1, <3>2, <4>1, <4>6
    <3> QED
      BY <2>1, <3>1, <3>2
  <2>8. ASSUME NEW k \in 1..Len(r), NEW m \in 1..Len(r), k # m,
               r[k].kind = "sub_behavior", r[m].kind = "sub_behavior"
        PROVE  r[k].label # r[m].label
    <3>1. c.kind = "sub_behavior" => c.label = Sub(spans[i])
      <4>1. Len(c.spans) \in Nat /\ c.spans # <<>> /\ c.spans \in Seq(Nat)
        BY <1>4 DEF ChildHolds, ChildOf
      <4>2. 1 \in 1..Len(c.spans)
        BY <4>1
      <4> QED
        BY <1>4, <4>2 DEF ChildHolds
    <3>2. CASE k = n + 1
      <4>1. m \in 1..n
        BY <2>1, <2>8, <3>2
      <4> QED
        BY <1>4, <2>1, <2>8, <3>1, <3>2, <4>1
    <3>3. CASE m = n + 1
      <4>1. k \in 1..n
        BY <2>1, <2>8, <3>3
      <4> QED
        BY <1>4, <2>1, <2>8, <3>1, <3>3, <4>1
    <3>4. CASE k \in 1..n /\ m \in 1..n
      <4>1. r[k] = q[k] /\ r[m] = q[m]
        BY <2>1, <3>4
      <4>2. q[k].kind = "sub_behavior" /\ q[m].kind = "sub_behavior"
        BY <2>8, <4>1
      <4>3. q[k].label # q[m].label
        BY <1>0, <1>1, <2>8, <3>4, <4>2 DEF DistinctSubs
      <4> QED
        BY <4>1, <4>3
    <3> QED
      BY <2>1, <3>2, <3>3, <3>4
  <2>7. [b EXCEPT !.children = r] \in BranchOf(L) /\ BranchHolds([b EXCEPT !.children = r], lo, i, spans)
    BY <1>3, <2>1, <2>4, <2>5, <2>6, <2>8 DEF DistinctSubs
  <2> QED
    BY <2>0, <2>7
<1> DEFINE same == {k \in DOMAIN b.children : /\ b.children[k].kind = "sub_behavior"
                                              /\ b.children[k].label = Sub(spans[i])}
<1>5. CASE Sub(spans[i]) = NoSub
  <2>1. PICK c : c = Leaf(i, spans[i])
    OBVIOUS
  <2>2. c \in ChildOf(L) /\ ChildHolds(c, lo, i, spans) /\ HoldsSpan(c, i) /\ c.spans[1] = i
    BY <1>5, <2>1, LeafHolds
  <2>3. \A k \in 1..n : q[k].kind = "sub_behavior" => Sub(spans[i]) # q[k].label
    BY <1>1, <1>5 DEF ChildHolds
  <2>4. PutLeaf(b, i, spans[i]) = [b EXCEPT !.children = Append(q, c)]
    BY <1>0, <1>5, <2>1, Zenon DEF PutLeaf, NoSub
  <2> QED
    BY <1>4, <2>2, <2>3, <2>4
<1>6. CASE Sub(spans[i]) # NoSub /\ same = {}
  <2>1. PICK c : c = FirstOf(i, spans[i])
    OBVIOUS
  <2>2. \A k \in 1..n : q[k].kind = "sub_behavior" => Sub(spans[i]) # q[k].label
    <3>1. DOMAIN b.children = 1..n
      BY <1>0
    <3> QED
      BY <1>0, <1>6, <3>1
  <2>3. ASSUME NEW j \in lo..(i - 1) PROVE Sub(spans[j]) # Sub(spans[i])
    <3>1. PICK k \in 1..n : HoldsSpan(q[k], j)
      BY <1>1
    <3>2. PICK m \in 1..Len(q[k].spans) : q[k].spans[m] = j
      BY <3>1 DEF HoldsSpan
    <3>3. ChildHolds(q[k], lo, i - 1, spans) /\ q[k] \in ChildOf(L)
      BY <1>1
    <3>4. CASE q[k].kind = "span"
      <4>1. Len(q[k].spans) = 1 /\ Sub(spans[q[k].spans[1]]) = NoSub
        BY <3>3, <3>4 DEF ChildHolds
      <4>2. m = 1
        BY <4>1
      <4> QED
        BY <1>6, <3>2, <4>1, <4>2
    <3>5. CASE q[k].kind = "sub_behavior"
      <4>1. Sub(spans[q[k].spans[m]]) = q[k].label
        BY <3>3, <3>5 DEF ChildHolds
      <4> QED
        BY <2>2, <3>2, <3>5, <4>1
    <3> QED
      BY <3>3, <3>4, <3>5 DEF ChildOf
  <2>4. c \in ChildOf(L) /\ ChildHolds(c, lo, i, spans) /\ HoldsSpan(c, i) /\ c.spans[1] = i
    <3>1. NewChild(FirstOf(i, spans[i]), lo, i, spans, L)
      <4>1. FirstSub(lo, i, spans) /\ Sub(spans[i]) # NoSub
        BY <1>6, <2>3 DEF FirstSub
      <4> QED
        BY <4>1, FirstHolds
    <3> QED
      BY <2>1, <3>1, Zenon DEF NewChild
  <2>5. PutLeaf(b, i, spans[i]) = [b EXCEPT !.children = Append(q, c)]
    BY <1>0, <1>6, <2>1, Zenon DEF PutLeaf, NoSub, FirstOf
  <2> QED
    BY <1>4, <2>2, <2>4, <2>5
<1>7. CASE Sub(spans[i]) # NoSub /\ same # {}
  <2>1. PICK k : k = CHOOSE x \in same : \A y \in same : x <= y
    OBVIOUS
  <2>2. k \in same
    <3>1. same \subseteq Nat
      BY <1>0
    <3>2. \E x \in same : \A y \in same : x <= y
      BY <1>7, <3>1, LeastElement
    <3> QED
      BY <2>1, <3>2
  <2>3. k \in 1..n /\ q[k].kind = "sub_behavior" /\ q[k].label = Sub(spans[i])
    BY <1>0, <2>2
  <2>15. PICK c : c = Extended(q[k], i)
    OBVIOUS
  <2>4. /\ c \in ChildOf(L) /\ ChildHolds(c, lo, i, spans) /\ HoldsSpan(c, i)
        /\ \A j : HoldsSpan(q[k], j) => HoldsSpan(c, j)
        /\ c.spans[1] = q[k].spans[1]
    <3>1. PICK d \in ChildOf(L) : d = q[k]
      BY <1>1, <2>3
    <3>2. ChildHolds(d, lo, i - 1, spans) /\ d.kind = "sub_behavior" /\ Sub(spans[i]) = d.label
      BY <1>1, <2>3, <3>1
    <3>3. /\ Extended(d, i) \in ChildOf(L)
          /\ ChildHolds(Extended(d, i), lo, i, spans)
          /\ HoldsSpan(Extended(d, i), i)
          /\ \A j : HoldsSpan(d, j) => HoldsSpan(Extended(d, i), j)
          /\ Extended(d, i).spans[1] = d.spans[1]
      BY <3>2, ExtendedHolds
    <3> QED
      BY <2>15, <3>1, <3>3, Zenon
  <2>5. PICK r : r = [q EXCEPT ![k] = c]
    OBVIOUS
  <2>6. /\ r \in Seq(ChildOf(L)) /\ Len(r) = n /\ r[k] = c
        /\ \A m \in 1..n : m # k => r[m] = q[m]
    BY <1>0, <2>3, <2>4, <2>5
  <2>7. PutLeaf(b, i, spans[i]) = [b EXCEPT !.children = r]
    <3>1. PutLeaf(b, i, spans[i]) = [b EXCEPT !.children[k].spans = Append(@, i)]
      BY <1>7, <2>1, Zenon DEF PutLeaf, NoSub
    <3>2. [b EXCEPT !.children[k].spans = Append(@, i)] =
          [b EXCEPT !.children = [q EXCEPT ![k] = [q[k] EXCEPT !.spans = Append(q[k].spans, i)]]]
      BY <1>0
    <3> QED
      BY <2>15, <2>5, <3>1, <3>2, Zenon DEF Extended
  <2>8. ASSUME NEW m \in 1..n, m # k
        PROVE  q[m].kind = "sub_behavior" => Sub(spans[i]) # q[m].label
    BY <1>0, <1>1, <2>3, <2>8 DEF DistinctSubs
  <2>9. \A m \in 1..n : ChildHolds(r[m], lo, i, spans)
    <3>1. ASSUME NEW m \in 1..n, m # k PROVE ChildHolds(q[m], lo, i, spans)
      BY <1>1, <2>8, <3>1, ChildKept
    <3> QED
      BY <2>4, <2>6, <3>1
  <2>10. \A j \in lo..i : \E m \in 1..n : HoldsSpan(r[m], j)
    <3>1. ASSUME NEW j \in lo..(i - 1) PROVE \E m \in 1..n : HoldsSpan(r[m], j)
      <4>1. PICK m \in 1..n : HoldsSpan(q[m], j)
        BY <1>1
      <4>2. HoldsSpan(r[m], j)
        BY <2>4, <2>6, <4>1
      <4> QED
        BY <4>2
    <3> QED
      BY <1>2, <2>3, <2>4, <2>6, <3>1
  <2>11. \A m \in 1..n : /\ r[m].spans[1] = q[m].spans[1]
                         /\ r[m].kind = q[m].kind /\ r[m].label = q[m].label
    <3>1. c.kind = q[k].kind /\ c.label = q[k].label
      BY <1>1, <2>3, <2>15 DEF ChildOf, Extended
    <3> QED
      BY <2>3, <2>4, <2>6, <3>1
  <2>12. \A m \in 2..n : r[m - 1].spans[1] < r[m].spans[1]
    <3>1. \A m \in 2..n : m - 1 \in 1..n /\ m \in 1..n
      BY <1>0
    <3> QED
      BY <1>1, <2>11, <3>1
  <2>13. DistinctSubs(r)
    BY <1>0, <1>1, <2>6, <2>11 DEF DistinctSubs
  <2>14. /\ [b EXCEPT !.children = r] \in BranchOf(L)
         /\ BranchHolds([b EXCEPT !.children = r], lo, i, spans)
    BY <1>3, <2>6, <2>9, <2>10, <2>12, <2>13
  <2> QED
    BY <2>7, <2>14
<1> QED
  BY <1>5, <1>6, <1>7

\* The branches hold the first n spans, the k-th from st[k] to st[k + 1] - 1.
Cuts(tree, st, n, spans) ==
    /\ st \in [1..(Len(tree) + 1) -> 1..(n + 1)]
    /\ st[1] = 1 /\ st[Len(tree) + 1] = n + 1
    /\ \A k \in 1..Len(tree) : st[k] < st[k + 1] /\ BranchHolds(tree[k], st[k], st[k + 1] - 1, spans)
    /\ \A k \in 2..Len(tree) : Behavior(spans[st[k] - 1]) # Behavior(spans[st[k]])

LEMMA NewBranch ==
    ASSUME NEW L, NEW spans, NEW i \in Nat, Behavior(spans[i]) \in L
    PROVE  /\ Branch(Behavior(spans[i])) \in BranchOf(L)
           /\ BranchHolds(Branch(Behavior(spans[i])), i, i - 1, spans)
           /\ Branch(Behavior(spans[i])).label = Behavior(spans[i])
<1> PICK b : b = Branch(Behavior(spans[i]))
  OBVIOUS
<1>0. PICK q : q = <<>>
  OBVIOUS
<1>1. q \in Seq(ChildOf(L)) /\ Len(q) = 0
  BY <1>0
<1>2. b = [label |-> Behavior(spans[i]), children |-> q, error |-> FALSE]
  BY <1>0, Zenon DEF Branch
<1>3. b \in BranchOf(L) /\ b.label = Behavior(spans[i]) /\ b.children = q
  BY <1>1, <1>2 DEF BranchOf
<1>4. /\ \A j \in i..(i - 1) : FALSE
      /\ \A k \in 1..Len(q) : FALSE
      /\ \A k \in 2..Len(q) : FALSE
  BY <1>1
<1>5. BranchHolds(b, i, i - 1, spans)
  BY <1>3, <1>4 DEF BranchHolds, DistinctSubs
<1> QED
  BY <1>3, <1>5

LEMMA AddSpanHolds ==
    ASSUME NEW L, NoSub \in L, NEW spans, NEW i \in Nat \ {0}, NEW tree \in Seq(BranchOf(L)),
           Sub(spans[i]) \in L, Behavior(spans[i]) \in L, spans[i].error \in BOOLEAN,
           NEW st, Cuts(tree, st, i - 1, spans)
    PROVE  /\ AddSpan(tree, i, spans[i]) \in Seq(BranchOf(L))
           /\ \E now : Cuts(AddSpan(tree, i, spans[i]), now, i, spans)
<1>0. PICK n \in Nat : n = Len(tree)
  OBVIOUS
<1>1. /\ st \in [1..(n + 1) -> 1..i] /\ st[1] = 1 /\ st[n + 1] = i
      /\ \A k \in 1..n : st[k] < st[k + 1] /\ BranchHolds(tree[k], st[k], st[k + 1] - 1, spans)
      /\ \A k \in 2..n : Behavior(spans[st[k] - 1]) # Behavior(spans[st[k]])
  BY <1>0 DEF Cuts
<1>2. CASE Opens(tree, spans[i])
  <2>1. PICK b : b = Branch(Behavior(spans[i]))
    OBVIOUS
  <2>2. b \in BranchOf(L) /\ BranchHolds(b, i, i - 1, spans) /\ b.label = Behavior(spans[i])
    BY <2>1, NewBranch
  <2>3. PICK d : d = PutLeaf(b, i, spans[i])
    OBVIOUS
  <2>4. d \in BranchOf(L) /\ BranchHolds(d, i, i, spans)
    <3>1. i \in 1..i /\ i \in Nat
      OBVIOUS
    <3>2. PutLeaf(b, i, spans[i]) \in BranchOf(L) /\ BranchHolds(PutLeaf(b, i, spans[i]), i, i, spans)
      BY <2>2, <3>1, PutLeafHolds
    <3> QED
      BY <2>3, <3>2
  <2>5. PICK g : g = Append(tree, b)
    OBVIOUS
  <2>6. PICK r : r = AddSpan(tree, i, spans[i])
    OBVIOUS
  <2>7. r = [g EXCEPT ![Len(g)] = PutLeaf(g[Len(g)], i, spans[i])]
    BY <1>2, <2>1, <2>5, <2>6, Zenon DEF AddSpan
  <2>8. g \in Seq(BranchOf(L)) /\ Len(g) = n + 1 /\ g[n + 1] = b /\ \A k \in 1..n : g[k] = tree[k]
    BY <1>0, <2>2, <2>5
  <2>9. r = [g EXCEPT ![n + 1] = d]
    BY <2>3, <2>7, <2>8
  <2>10. r \in Seq(BranchOf(L)) /\ Len(r) = n + 1 /\ r[n + 1] = d /\ \A k \in 1..n : r[k] = tree[k]
    BY <2>4, <2>8, <2>9
  <2>11. PICK now : now = [k \in 1..(n + 2) |-> IF k = n + 2 THEN i + 1 ELSE st[k]]
    OBVIOUS
  <2>12. now[n + 2] = i + 1 /\ \A k \in 1..(n + 1) : now[k] = st[k]
    BY <2>11
  <2>13. now \in [1..(n + 2) -> 1..(i + 1)]
    BY <1>1, <2>11
  <2>14. ASSUME NEW k \in 1..(n + 1)
         PROVE  now[k] < now[k + 1] /\ BranchHolds(r[k], now[k], now[k + 1] - 1, spans)
    <3>1. CASE k = n + 1
      <4>1. now[k] = i /\ now[k + 1] = i + 1 /\ (i + 1) - 1 = i
        BY <1>1, <2>12, <3>1
      <4> QED
        BY <2>4, <2>10, <3>1, <4>1
    <3>2. CASE k \in 1..n
      <4>1. k + 1 \in 1..(n + 1)
        BY <3>2
      <4> QED
        BY <1>1, <2>10, <2>12, <3>2, <4>1
    <3> QED
      BY <3>1, <3>2
  <2>15. ASSUME NEW k \in 2..(n + 1)
         PROVE  Behavior(spans[now[k] - 1]) # Behavior(spans[now[k]])
    <3>1. now[k] = st[k]
      BY <2>12
    <3>2. CASE k = n + 1
      <4>1. n \in 1..n /\ n > 0
        BY <3>2
      <4>2. BranchHolds(tree[n], st[n], i - 1, spans) /\ st[n] < i /\ st[n] \in Nat
        BY <1>1, <4>1
      <4>3. Behavior(spans[i - 1]) = tree[n].label
        <5>1. i - 1 \in st[n]..(i - 1)
          BY <4>2
        <5> QED
          BY <4>2, <5>1 DEF BranchHolds
      <4>4. tree # <<>> /\ Last(tree) = tree[n]
        BY <1>0, <4>1 DEF Last
      <4>5. tree[n].label # Behavior(spans[i])
        BY <1>2, <4>4 DEF Opens
      <4> QED
        BY <1>1, <3>1, <3>2, <4>3, <4>5
    <3>3. CASE k \in 2..n
      BY <1>1, <3>1, <3>3
    <3> QED
      BY <3>2, <3>3
  <2>16. now[1] = 1
    BY <1>1, <2>12
  <2>17. Cuts(r, now, i, spans)
    <3>1. Len(r) + 1 = n + 2
      BY <2>10
    <3> QED
      BY <2>10, <2>12, <2>13, <2>14, <2>15, <2>16, <3>1 DEF Cuts
  <2> QED
    BY <2>6, <2>10, <2>17
<1>3. CASE ~Opens(tree, spans[i])
  <2>1. tree # <<>> /\ Last(tree).label = Behavior(spans[i])
    BY <1>3 DEF Opens
  <2>2. n \in 1..n /\ n > 0 /\ tree[n] \in BranchOf(L) /\ Last(tree) = tree[n]
    <3>1. n # 0
      BY <1>0, <2>1
    <3> QED
      BY <1>0, <3>1 DEF Last
  <2>3. PICK b \in BranchOf(L) : b = tree[n]
    BY <2>2
  <2>4. st[n] \in Nat /\ st[n] \in 1..i /\ BranchHolds(b, st[n], i - 1, spans) /\ b.label = Behavior(spans[i])
    BY <1>1, <2>1, <2>2, <2>3
  <2>5. PICK d : d = PutLeaf(b, i, spans[i])
    OBVIOUS
  <2>6. d \in BranchOf(L) /\ BranchHolds(d, st[n], i, spans)
    <3>1. PICK lo \in Nat : lo = st[n]
      BY <2>4
    <3>2. PutLeaf(b, i, spans[i]) \in BranchOf(L) /\ BranchHolds(PutLeaf(b, i, spans[i]), lo, i, spans)
      BY <2>4, <3>1, PutLeafHolds
    <3> QED
      BY <2>5, <3>1, <3>2
  <2>7. PICK r : r = AddSpan(tree, i, spans[i])
    OBVIOUS
  <2>8. r = [tree EXCEPT ![n] = d]
    <3>1. r = [tree EXCEPT ![Len(tree)] = PutLeaf(tree[Len(tree)], i, spans[i])]
      BY <1>3, <2>7, Zenon DEF AddSpan
    <3> QED
      BY <1>0, <2>3, <2>5, <3>1
  <2>9. r \in Seq(BranchOf(L)) /\ Len(r) = n /\ r[n] = d /\ \A k \in 1..(n - 1) : r[k] = tree[k]
    BY <1>0, <2>2, <2>6, <2>8
  <2>10. PICK now : now = [st EXCEPT ![n + 1] = i + 1]
    OBVIOUS
  <2>11. now[n + 1] = i + 1 /\ \A k \in 1..n : now[k] = st[k]
    BY <1>1, <2>10
  <2>12. now \in [1..(n + 1) -> 1..(i + 1)]
    BY <1>1, <2>10
  <2>13. ASSUME NEW k \in 1..n
         PROVE  now[k] < now[k + 1] /\ BranchHolds(r[k], now[k], now[k + 1] - 1, spans)
    <3>1. CASE k = n
      <4>1. now[k] = st[n] /\ now[k + 1] = i + 1 /\ (i + 1) - 1 = i
        BY <2>2, <2>11, <3>1
      <4> QED
        BY <2>4, <2>6, <2>9, <3>1, <4>1
    <3>2. CASE k \in 1..(n - 1)
      <4>1. k + 1 \in 1..n
        BY <3>2
      <4> QED
        BY <1>1, <2>9, <2>11, <3>2, <4>1
    <3> QED
      BY <3>1, <3>2
  <2>14. \A k \in 2..n : Behavior(spans[now[k] - 1]) # Behavior(spans[now[k]])
    BY <1>1, <2>11
  <2>15. now[1] = 1
    BY <1>1, <2>2, <2>11
  <2>16. Cuts(r, now, i, spans)
    BY <2>9, <2>11, <2>12, <2>13, <2>14, <2>15 DEF Cuts
  <2> QED
    BY <2>7, <2>9, <2>16
<1> QED
  BY <1>2, <1>3

-----------------------------------------------------------------------------
(* The branches are the runs of the spans with one behavior.               *)

\* The tree before the errors bubble up, and what Flagged makes of a branch.
Unflagged(spans) == FoldLeftDomain(LAMBDA tree, i : AddSpan(tree, i, spans[i]), <<>>, spans)

\* The first spans of the branches come in order.
LEMMA CutsRise ==
    ASSUME NEW tree, NEW n \in Nat, n = Len(tree), NEW st, NEW N \in Nat, NEW spans,
           Cuts(tree, st, N, spans)
    PROVE  \A m \in 0..n : \A k \in 1..m : st[k] < st[m + 1]
<1> DEFINE T == {m \in 0..n : \A k \in 1..m : st[k] < st[m + 1]}
<1>0. /\ \A k \in 1..(n + 1) : st[k] \in Int
      /\ \A k \in 1..n : st[k] < st[k + 1]
  BY DEF Cuts
<1>1. 0 \in T
  OBVIOUS
<1>2. ASSUME NEW m \in 1..n, m - 1 \in T PROVE m \in T
  <2>1. ASSUME NEW k \in 1..m PROVE st[k] < st[m + 1]
    <3>1. st[m] < st[m + 1] /\ st[m] \in Int /\ st[m + 1] \in Int /\ st[k] \in Int
      BY <1>0
    <3>2. CASE k = m
      BY <3>1, <3>2
    <3>3. CASE k # m
      <4>1. k \in 1..(m - 1) /\ (m - 1) + 1 = m
        BY <3>3
      <4>2. st[k] < st[m]
        BY <1>2, <4>1
      <4> QED
        BY <3>1, <4>2
    <3> QED
      BY <3>2, <3>3
  <2> QED
    BY <2>1
<1> HIDE DEF T
<1>3. \A m \in 0..n : m \in T
  BY <1>1, <1>2, InductionUpTo
<1> QED
  BY <1>3 DEF T

\* Every span is in a branch.
LEMMA CutsCover ==
    ASSUME NEW tree, NEW n \in Nat, n = Len(tree), NEW st, NEW N \in Nat, NEW spans,
           Cuts(tree, st, N, spans), NEW j \in 1..N
    PROVE  \E k \in 1..n : st[k] <= j /\ j < st[k + 1]
<1> DEFINE T == {m \in 0..n : j < st[m + 1] => \E k \in 1..m : st[k] <= j /\ j < st[k + 1]}
<1>0. /\ \A k \in 1..(n + 1) : st[k] \in Int
      /\ st[1] = 1 /\ st[n + 1] = N + 1
  BY DEF Cuts
<1>1. 0 \in T
  BY <1>0
<1>2. ASSUME NEW m \in 1..n, m - 1 \in T PROVE m \in T
  <2>0. m \in 1..m /\ \A k \in 1..(m - 1) : k \in 1..m
    OBVIOUS
  <2>1. CASE st[m] <= j
    BY <2>0, <2>1
  <2>2. CASE ~(st[m] <= j)
    <3>1. st[m] \in Int /\ (m - 1) + 1 = m
      BY <1>0
    <3>2. j < st[m]
      BY <2>2, <3>1
    <3>3. \E k \in 1..(m - 1) : st[k] <= j /\ j < st[k + 1]
      BY <1>2, <3>1, <3>2
    <3> QED
      BY <2>0, <3>3
  <2> QED
    BY <2>1, <2>2
<1> HIDE DEF T
<1>3. \A m \in 0..n : m \in T
  BY <1>1, <1>2, InductionUpTo
<1>4. n \in 0..n
  OBVIOUS
<1> QED
  BY <1>0, <1>3, <1>4 DEF T

RunOf(st, k) == <<st[k], st[k + 1] - 1>>

\* The branches are the runs.
LEMMA RunsOfCuts ==
    ASSUME NEW spans, NEW N \in Nat, N = Len(spans), DOMAIN spans = 1..N,
           NEW tree, NEW n \in Nat, n = Len(tree), NEW st, Cuts(tree, st, N, spans)
    PROVE  Runs(spans) = {RunOf(st, k) : k \in 1..n}
<1>0. /\ \A k \in 1..(n + 1) : st[k] \in 1..(N + 1)
      /\ st[1] = 1 /\ st[n + 1] = N + 1
      /\ \A k \in 1..n : st[k] < st[k + 1] /\ BranchHolds(tree[k], st[k], st[k + 1] - 1, spans)
      /\ \A k \in 2..n : Behavior(spans[st[k] - 1]) # Behavior(spans[st[k]])
  BY DEF Cuts
<1>1. ASSUME NEW k \in 1..n
      PROVE  /\ st[k] \in 1..N /\ st[k + 1] - 1 \in 1..N /\ st[k] <= st[k + 1] - 1
             /\ \A j \in st[k]..(st[k + 1] - 1) : Behavior(spans[j]) = tree[k].label
  <2>1. k \in 1..(n + 1) /\ k + 1 \in 1..(n + 1)
    OBVIOUS
  <2>2. st[k] \in 1..(N + 1) /\ st[k + 1] \in 1..(N + 1) /\ st[k] < st[k + 1]
    BY <1>0, <2>1
  <2>3. BranchHolds(tree[k], st[k], st[k + 1] - 1, spans)
    BY <1>0
  <2> QED
    BY <2>2, <2>3 DEF BranchHolds
<1>2. ASSUME NEW k \in 1..n
      PROVE  RunOf(st, k) \in Runs(spans)
  <2>1. PICK a \in 1..N, z \in 1..N : a = st[k] /\ z = st[k + 1] - 1
    BY <1>1
  <2>2. a <= z /\ \A j \in a..z : Behavior(spans[j]) = tree[k].label
    BY <1>1, <2>1
  <2>3. \A j \in a..z : Behavior(spans[j]) = Behavior(spans[a])
    BY <2>2
  <2>4. a = 1 \/ Behavior(spans[a - 1]) # Behavior(spans[a])
    <3>1. k = 1 \/ k \in 2..n
      OBVIOUS
    <3> QED
      BY <1>0, <2>1, <3>1
  <2>5. z = N \/ Behavior(spans[z + 1]) # Behavior(spans[z])
    <3>1. CASE k = n
      BY <1>0, <2>1, <3>1
    <3>2. CASE k # n
      <4>1. k + 1 \in 2..n
        BY <3>2
      <4>2. Behavior(spans[st[k + 1] - 1]) # Behavior(spans[st[k + 1]])
        BY <1>0, <4>1
      <4>3. z + 1 = st[k + 1]
        <5>1. st[k + 1] \in Int
          BY <1>0, <4>1
        <5> QED
          BY <2>1, <5>1
      <4> QED
        BY <2>1, <4>2, <4>3
    <3> QED
      BY <3>1, <3>2
  <2>6. PICK r : r = <<a, z>>
    OBVIOUS
  <2>7. r \in (DOMAIN spans) \X (DOMAIN spans) /\ r[1] = a /\ r[2] = z
    BY <2>6
  <2>8. r \in Runs(spans)
    BY <2>2, <2>3, <2>4, <2>5, <2>7 DEF Runs
  <2> QED
    BY <2>1, <2>6, <2>8 DEF RunOf
<1>3. ASSUME NEW r \in Runs(spans)
      PROVE  \E k \in 1..n : r = RunOf(st, k)
  <2>1. PICK a \in 1..N, z \in 1..N : r = <<a, z>>
    BY DEF Runs
  <2>2. /\ a <= z /\ \A j \in a..z : Behavior(spans[j]) = Behavior(spans[a])
        /\ a = 1 \/ Behavior(spans[a - 1]) # Behavior(spans[a])
        /\ z = N \/ Behavior(spans[z + 1]) # Behavior(spans[z])
    BY <2>1 DEF Runs
  <2>3. PICK k \in 1..n : st[k] <= a /\ a < st[k + 1]
    BY CutsCover
  <2>4. PICK b \in 1..N, e \in 1..N : b = st[k] /\ e = st[k + 1] - 1
    BY <1>1
  <2>5. st[k + 1] = e + 1
    <3>1. st[k + 1] \in Int
      BY <1>0
    <3> QED
      BY <2>4, <3>1
  <2>6. b <= a /\ a <= e /\ \A j \in b..e : Behavior(spans[j]) = tree[k].label
    BY <1>1, <2>3, <2>4, <2>5
  <2>7. a = b
    <3> SUFFICES ASSUME a # b PROVE FALSE
      OBVIOUS
    <3>1. a - 1 \in b..e /\ a \in b..e /\ a # 1
      BY <2>6
    <3> QED
      BY <2>2, <2>6, <3>1
  <2>8. z >= e
    <3> SUFFICES ASSUME z < e PROVE FALSE
      OBVIOUS
    <3>1. z \in b..e /\ z + 1 \in b..e /\ z # N
      BY <2>2, <2>6
    <3> QED
      BY <2>2, <2>6, <3>1
  <2>9. z <= e
    <3> SUFFICES ASSUME z > e PROVE FALSE
      OBVIOUS
    <3>1. k # n
      BY <1>0, <2>5
    <3>2. k + 1 \in 2..n
      BY <3>1
    <3>3. Behavior(spans[e]) # Behavior(spans[e + 1])
      BY <1>0, <2>4, <2>5, <3>2
    <3>4. e \in a..z /\ e + 1 \in a..z
      BY <2>6
    <3> QED
      BY <2>2, <3>3, <3>4
  <2>10. z = e
    BY <2>8, <2>9
  <2> QED
    BY <2>1, <2>4, <2>7, <2>10 DEF RunOf
<1> QED
  BY <1>2, <1>3

\* There are as many as branches, and the k-th is the k-th to begin.
LEMMA RunsCounted ==
    ASSUME NEW spans, NEW N \in Nat, N = Len(spans), DOMAIN spans = 1..N,
           NEW tree, NEW n \in Nat, n = Len(tree), NEW st, Cuts(tree, st, N, spans),
           NEW m \in 0..n
    PROVE  Cardinality({RunOf(st, k) : k \in 1..m}) = m
<1>0. \A k \in 1..(n + 1) : st[k] \in Int
  BY DEF Cuts
<1>1. PICK T : T = {RunOf(st, k) : k \in 1..m}
  OBVIOUS
<1>2. PICK f : f = [k \in 1..m |-> RunOf(st, k)]
  OBVIOUS
<1>3. ASSUME NEW j \in 1..m, NEW k \in 1..m, RunOf(st, j) = RunOf(st, k)
      PROVE  j = k
  <2>1. st[j] = st[k]
    BY <1>3 DEF RunOf
  <2>2. \A a, b \in 1..m : a < b => st[a] < st[b]
    <3>1. ASSUME NEW a \in 1..m, NEW b \in 1..m, a < b PROVE st[a] < st[b]
      <4>1. b - 1 \in 0..n /\ a \in 1..(b - 1) /\ (b - 1) + 1 = b
        BY <3>1
      <4> QED
        BY <4>1, CutsRise
    <3> QED
      BY <3>1
  <2>3. st[j] \in Int
    BY <1>0
  <2>4. ~(j < k) /\ ~(k < j)
    BY <2>1, <2>2, <2>3
  <2> QED
    BY <2>4
<1>4. f \in Bijection(1..m, T)
  BY <1>1, <1>2, <1>3 DEF Bijection, Injection, Surjection, IsInjective
<1>5. ExistsBijection(1..m, T)
  BY <1>4 DEF ExistsBijection
<1>6. IsFiniteSet(1..m) /\ Cardinality(1..m) = m
  <2>1. 1 \in Int /\ m \in Int /\ m >= 0
    OBVIOUS
  <2>2. IsFiniteSet(1..m) /\ Cardinality(1..m) = IF 1 > m THEN 0 ELSE m - 1 + 1
    BY <2>1, FS_Interval
  <2> QED
    BY <2>1, <2>2
<1> QED
  BY <1>1, <1>5, <1>6, FS_Bijection

-----------------------------------------------------------------------------
(* The errors that bubble up.                                              *)

FlagChild(c, spans) == [c EXCEPT !.error = \E i \in DOMAIN c.spans : spans[c.spans[i]].error]
FlagChildren(b, spans) == [k \in DOMAIN b.children |-> FlagChild(b.children[k], spans)]
FlagBranch(b, spans) ==
    [b EXCEPT !.children = FlagChildren(b, spans),
              !.error = \E k \in DOMAIN FlagChildren(b, spans) : FlagChildren(b, spans)[k].error]

LEMMA FlagsEach ==
    ASSUME NEW tree, NEW spans
    PROVE  Flagged(tree, spans) = [k \in DOMAIN tree |-> FlagBranch(tree[k], spans)]
BY Zenon DEF Flagged, FlagBranch, FlagChildren, FlagChild

\* What a branch holds is a run, and its marks are those of its spans.
LEMMA FlaggedHolds ==
    ASSUME NEW L, NEW spans, NEW lo \in Nat, NEW hi \in Nat, lo <= hi,
           \A j \in lo..hi : spans[j].error \in BOOLEAN,
           NEW b \in BranchOf(L), BranchHolds(b, lo, hi, spans),
           NEW run, run[1] = lo, run[2] = hi
    PROVE  HoldsRun(FlagBranch(b, spans), run, spans)
<1>0. PICK q \in Seq(ChildOf(L)), n \in Nat : q = b.children /\ n = Len(q) /\ DOMAIN q = 1..n
  BY DEF BranchOf
<1>1. /\ \A j \in lo..hi : \E k \in 1..n : HoldsSpan(q[k], j)
      /\ \A k \in 1..n : q[k] \in ChildOf(L) /\ ChildHolds(q[k], lo, hi, spans)
      /\ \A k \in 2..n : q[k - 1].spans[1] < q[k].spans[1]
      /\ b.label = Behavior(spans[lo])
  BY <1>0 DEF BranchHolds
<1>2. PICK kids : kids = [k \in 1..n |-> FlagChild(q[k], spans)]
  OBVIOUS
<1>3. FlagChildren(b, spans) = kids
  BY <1>0, <1>2 DEF FlagChildren
<1>4. PICK f : f = FlagBranch(b, spans)
  OBVIOUS
<1>5. f = [b EXCEPT !.children = kids, !.error = \E k \in DOMAIN kids : kids[k].error]
  BY <1>3, <1>4 DEF FlagBranch
<1>6. f.label = b.label /\ f.children = kids
  BY <1>5 DEF BranchOf
<1>7. f.error = \E k \in 1..n : kids[k].error
  <2>1. f.error = \E k \in DOMAIN kids : kids[k].error
    BY <1>5 DEF BranchOf
  <2>2. DOMAIN kids = 1..n
    BY <1>2
  <2> QED
    BY <2>1, <2>2
\* Each child.
<1>8. ASSUME NEW k \in 1..n
      PROVE  /\ kids[k].kind = q[k].kind /\ kids[k].label = q[k].label /\ kids[k].spans = q[k].spans
             /\ q[k].spans \in Seq(Nat) /\ DOMAIN q[k].spans = 1..Len(q[k].spans)
             /\ Len(q[k].spans) \in Nat \ {0}
             /\ kids[k].error = \E i \in 1..Len(q[k].spans) : spans[q[k].spans[i]].error
  <2>1. PICK c \in ChildOf(L) : c = q[k]
    BY <1>1
  <2>2. kids[k] = [c EXCEPT !.error = \E i \in DOMAIN c.spans : spans[c.spans[i]].error]
    BY <1>2, <2>1 DEF FlagChild
  <2>3. c.spans \in Seq(Nat)
    BY DEF ChildOf
  <2>4. c.spans # <<>>
    BY <1>1, <2>1 DEF ChildHolds
  <2>5. DOMAIN c.spans = 1..Len(c.spans) /\ Len(c.spans) \in Nat \ {0}
    BY <2>3, <2>4
  <2>6. /\ kids[k].kind = c.kind /\ kids[k].label = c.label /\ kids[k].spans = c.spans
        /\ kids[k].error = \E i \in DOMAIN c.spans : spans[c.spans[i]].error
    BY <2>2 DEF ChildOf
  <2> QED
    BY <2>1, <2>3, <2>5, <2>6
<1>9. ASSUME NEW k \in 1..n
      PROVE  ToSet(kids[k].spans) = {q[k].spans[i] : i \in 1..Len(q[k].spans)}
  BY <1>8 DEF ToSet
<1>10. ASSUME NEW k \in 1..n, NEW j
       PROVE  j \in ToSet(kids[k].spans) <=> HoldsSpan(q[k], j)
  BY <1>9 DEF HoldsSpan
<1>11. ASSUME NEW k \in 1..n, NEW j, HoldsSpan(q[k], j)
       PROVE  /\ j \in lo..hi
              /\ q[k].kind = "sub_behavior" => Sub(spans[j]) = q[k].label
  BY <1>1, <1>11 DEF HoldsSpan, ChildHolds
<1>12. UNION {ToSet(kids[k].spans) : k \in DOMAIN kids} = lo..hi
  <2>1. DOMAIN kids = 1..n
    BY <1>2
  <2>2. ASSUME NEW j \in lo..hi PROVE \E k \in 1..n : j \in ToSet(kids[k].spans)
    BY <1>1, <1>10
  <2>3. ASSUME NEW k \in 1..n, NEW j \in ToSet(kids[k].spans) PROVE j \in lo..hi
    BY <1>10, <1>11
  <2> QED
    BY <2>1, <2>2, <2>3
<1>13. ASSUME NEW k \in 1..n
       PROVE  kids[k].error <=> \E i \in ToSet(kids[k].spans) : spans[i].error
  <2>1. kids[k].error <=> \E m \in 1..Len(q[k].spans) : spans[q[k].spans[m]].error
    BY <1>8, Zenon
  <2>2. ASSUME NEW m \in 1..Len(q[k].spans)
        PROVE  q[k].spans[m] \in ToSet(kids[k].spans)
    BY <1>9
  <2>3. ASSUME NEW i \in ToSet(kids[k].spans)
        PROVE  \E m \in 1..Len(q[k].spans) : q[k].spans[m] = i
    BY <1>9
  <2> QED
    BY <2>1, <2>2, <2>3, Zenon
<1>14. f.error <=> \E i \in lo..hi : spans[i].error
  <2>1. ASSUME NEW i \in lo..hi, spans[i].error PROVE \E k \in 1..n : kids[k].error
    BY <1>1, <1>10, <1>13, <2>1
  <2>2. ASSUME NEW k \in 1..n, kids[k].error PROVE \E i \in lo..hi : spans[i].error
    BY <1>10, <1>11, <1>13, <2>2
  <2> QED
    BY <1>7, <2>1, <2>2
<1>15. ASSUME NEW k \in 1..n
       PROVE  /\ \A m \in 1..(Len(kids[k].spans) - 1) : kids[k].spans[m] < kids[k].spans[m + 1]
              /\ kids[k].kind = "span" => Len(kids[k].spans) = 1
  <2>1. ChildHolds(q[k], lo, hi, spans) /\ kids[k].spans = q[k].spans /\ kids[k].kind = q[k].kind
    BY <1>1, <1>8
  <2> QED
    BY <2>1 DEF ChildHolds
<1>16. ASSUME NEW k \in 1..n, kids[k].kind = "sub_behavior"
       PROVE  ToSet(kids[k].spans) = {i \in lo..hi : Sub(spans[i]) = kids[k].label}
  <2>1. ChildHolds(q[k], lo, hi, spans) /\ kids[k].label = q[k].label /\ q[k].kind = "sub_behavior"
    BY <1>1, <1>8, <1>16
  <2>2. \A j \in lo..hi : Sub(spans[j]) = q[k].label => HoldsSpan(q[k], j)
    BY <2>1 DEF ChildHolds
  <2>3. \A j : HoldsSpan(q[k], j) => j \in lo..hi /\ Sub(spans[j]) = q[k].label
    BY <1>11, <2>1
  <2> QED
    BY <1>10, <2>1, <2>2, <2>3
<1>17. ASSUME NEW k \in 1..n, k > 1
       PROVE  kids[k - 1].spans[1] < kids[k].spans[1]
  <2>1. k \in 2..n /\ k - 1 \in 1..n
    BY <1>17
  <2>2. kids[k].spans = q[k].spans /\ kids[k - 1].spans = q[k - 1].spans
    BY <1>8, <2>1
  <2> QED
    BY <1>1, <2>1, <2>2
<1>18. HoldsRun(f, run, spans)
  <2>1. DOMAIN f.children = 1..n
    BY <1>2, <1>6
  <2>2. /\ f.label = Behavior(spans[run[1]])
        /\ f.error <=> \E i \in run[1]..run[2] : spans[i].error
        /\ UNION {ToSet(f.children[k].spans) : k \in DOMAIN f.children} = run[1]..run[2]
    BY <1>1, <1>6, <1>12, <1>14
  <2>3. ASSUME NEW k \in DOMAIN f.children
        PROVE  /\ f.children[k].error <=> \E i \in ToSet(f.children[k].spans) : spans[i].error
               /\ \A m \in 1..(Len(f.children[k].spans) - 1) :
                     f.children[k].spans[m] < f.children[k].spans[m + 1]
               /\ f.children[k].kind = "sub_behavior" => ToSet(f.children[k].spans) =
                     {i \in run[1]..run[2] : Sub(spans[i]) = f.children[k].label}
               /\ f.children[k].kind = "span" => Len(f.children[k].spans) = 1
               /\ k > 1 => f.children[k - 1].spans[1] < f.children[k].spans[1]
    BY <1>6, <1>13, <1>15, <1>16, <1>17, <2>1
  <2> QED
    BY <2>2, <2>3 DEF HoldsRun
<1> QED
  BY <1>4, <1>18

-----------------------------------------------------------------------------
(* Label goes through the spans one at a time.                             *)

\* The names that occur in a tree of the spans.
NamesIn(spans) ==
    {NoSub} \cup {Sub(spans[i]) : i \in DOMAIN spans} \cup {Behavior(spans[i]) : i \in DOMAIN spans}

LEMMA PutLeafTyped ==
    ASSUME NEW L, NoSub \in L, NEW spans, NEW i \in Nat, NEW b \in BranchOf(L),
           Sub(spans[i]) \in L, spans[i].error \in BOOLEAN
    PROVE  PutLeaf(b, i, spans[i]) \in BranchOf(L)
<1>0. PICK q \in Seq(ChildOf(L)), n \in Nat : q = b.children /\ n = Len(q) /\ DOMAIN q = 1..n
  BY DEF BranchOf
<1>1. ASSUME NEW r \in Seq(ChildOf(L)) PROVE [b EXCEPT !.children = r] \in BranchOf(L)
  BY DEF BranchOf
<1>2. PICK one : one = <<i>>
  OBVIOUS
<1>3. one \in Seq(Nat)
  BY <1>2, OneSpan, Zenon
<1>4. PICK c : c = Leaf(i, spans[i])
  OBVIOUS
<1>5. c = [kind |-> "span", label |-> NoSub, spans |-> one, error |-> spans[i].error]
  BY <1>2, <1>4, Zenon DEF Leaf, NoSub
<1>6. c \in ChildOf(L)
  BY <1>3, <1>5 DEF ChildOf
<1>7. PICK d : d = [c EXCEPT !.kind = "sub_behavior", !.label = Sub(spans[i]), !.error = FALSE]
  OBVIOUS
<1>8. d \in ChildOf(L)
  BY <1>3, <1>5, <1>7 DEF ChildOf
<1>9. ASSUME NEW x \in ChildOf(L) PROVE Append(q, x) \in Seq(ChildOf(L))
  OBVIOUS
<1> DEFINE same == {k \in DOMAIN b.children : /\ b.children[k].kind = "sub_behavior"
                                              /\ b.children[k].label = Sub(spans[i])}
<1>10. CASE Sub(spans[i]) = NoSub
  <2>1. PutLeaf(b, i, spans[i]) = [b EXCEPT !.children = Append(q, c)]
    BY <1>0, <1>10, <1>4, Zenon DEF PutLeaf, NoSub
  <2> QED
    BY <1>1, <1>6, <1>9, <2>1
<1>11. CASE Sub(spans[i]) # NoSub /\ same = {}
  <2>1. PutLeaf(b, i, spans[i]) = [b EXCEPT !.children = Append(q, d)]
    BY <1>0, <1>11, <1>4, <1>7, Zenon DEF PutLeaf, NoSub
  <2> QED
    BY <1>1, <1>8, <1>9, <2>1
<1>12. CASE Sub(spans[i]) # NoSub /\ same # {}
  <2>1. PICK k : k = CHOOSE x \in same : \A y \in same : x <= y
    OBVIOUS
  <2>2. k \in same
    <3>1. same \subseteq Nat
      BY <1>0
    <3>2. \E x \in same : \A y \in same : x <= y
      BY <1>12, <3>1, LeastElement
    <3> QED
      BY <2>1, <3>2
  <2>3. k \in 1..n /\ q[k] \in ChildOf(L)
    BY <1>0, <2>2
  <2>4. PICK e : e = Extended(q[k], i)
    OBVIOUS
  <2>5. e \in ChildOf(L)
    <3>1. PICK o \in ChildOf(L) : o = q[k]
      BY <2>3
    <3>2. PICK p \in Seq(Nat) : p = Append(o.spans, i)
      <4>1. PICK v \in Seq(Nat) : v = o.spans
        BY DEF ChildOf
      <4>2. Append(v, i) \in Seq(Nat)
        OBVIOUS
      <4> QED
        BY <4>1, <4>2
    <3>3. [o EXCEPT !.spans = p] \in ChildOf(L)
      BY DEF ChildOf
    <3> QED
      BY <2>4, <3>1, <3>2, <3>3 DEF Extended
  <2>6. PICK r : r = [q EXCEPT ![k] = e]
    OBVIOUS
  <2>7. r \in Seq(ChildOf(L))
    BY <1>0, <2>3, <2>5, <2>6
  <2>8. PutLeaf(b, i, spans[i]) = [b EXCEPT !.children = r]
    <3>1. PutLeaf(b, i, spans[i]) = [b EXCEPT !.children[k].spans = Append(@, i)]
      BY <1>12, <2>1, Zenon DEF PutLeaf, NoSub
    <3>2. [b EXCEPT !.children[k].spans = Append(@, i)] =
          [b EXCEPT !.children = [q EXCEPT ![k] = [q[k] EXCEPT !.spans = Append(q[k].spans, i)]]]
      BY <1>0
    <3> QED
      BY <2>4, <2>6, <3>1, <3>2, Zenon DEF Extended
  <2> QED
    BY <1>1, <2>7, <2>8
<1> QED
  BY <1>10, <1>11, <1>12

LEMMA AddSpanTyped ==
    ASSUME NEW L, NoSub \in L, NEW spans, NEW i \in Nat, NEW tree \in Seq(BranchOf(L)),
           Sub(spans[i]) \in L, Behavior(spans[i]) \in L, spans[i].error \in BOOLEAN
    PROVE  AddSpan(tree, i, spans[i]) \in Seq(BranchOf(L))
<1>1. PICK b : b = Branch(Behavior(spans[i]))
  OBVIOUS
<1>2. b \in BranchOf(L)
  BY <1>1, NewBranch
<1>3. PICK g : g = IF Opens(tree, spans[i]) THEN Append(tree, b) ELSE tree
  OBVIOUS
<1>4. AddSpan(tree, i, spans[i]) = [g EXCEPT ![Len(g)] = PutLeaf(g[Len(g)], i, spans[i])]
  BY <1>1, <1>3, Zenon DEF AddSpan
<1>5. g \in Seq(BranchOf(L)) /\ Len(g) \in 1..Len(g)
  <2>1. CASE Opens(tree, spans[i])
    <3>1. g = Append(tree, b)
      BY <1>3, <2>1
    <3>2. Len(g) = Len(tree) + 1 /\ Len(tree) \in Nat /\ g \in Seq(BranchOf(L))
      BY <1>2, <3>1
    <3> QED
      BY <3>2
  <2>2. CASE ~Opens(tree, spans[i])
    <3>1. g = tree /\ tree # <<>>
      BY <1>3, <2>2 DEF Opens
    <3>2. Len(g) \in Nat \ {0}
      BY <3>1
    <3> QED
      BY <3>1, <3>2
  <2> QED
    BY <2>1, <2>2
<1>6. PICK h \in BranchOf(L) : h = g[Len(g)]
  BY <1>5
<1>7. PutLeaf(h, i, spans[i]) \in BranchOf(L)
  BY PutLeafTyped
<1>8. [g EXCEPT ![Len(g)] = PutLeaf(h, i, spans[i])] \in Seq(BranchOf(L))
  BY <1>5, <1>7
<1> QED
  BY <1>4, <1>6, <1>8

\* The tree grows by one span at a time.
LEMMA TreeSteps ==
    ASSUME NEW X, NEW spans \in Seq(X), \A x \in X : x.error \in BOOLEAN
    PROVE  \E f : /\ f[0] = <<>>
                  /\ \A i \in 1..Len(spans) : f[i] = AddSpan(f[i - 1], i, spans[i])
                  /\ Unflagged(spans) = f[Len(spans)]
<1>1. PICK N \in Nat : N = Len(spans) /\ DOMAIN spans = 1..N
  OBVIOUS
<1>2. PICK L : L = NamesIn(spans)
  OBVIOUS
<1>3. PICK S : S = Seq(BranchOf(L))
  OBVIOUS
<1>4. ASSUME NEW i \in 1..N, NEW t \in S PROVE AddSpan(t, i, spans[i]) \in S
  <2>1. NoSub \in L /\ Sub(spans[i]) \in L /\ Behavior(spans[i]) \in L
    BY <1>1, <1>2 DEF NamesIn
  <2>2. spans[i].error \in BOOLEAN
    BY <1>1
  <2> QED
    BY <1>3, <2>1, <2>2, AddSpanTyped
<1>5. PICK step : step = [i \in 1..N |-> [t \in S |-> AddSpan(t, i, spans[i])]]
  OBVIOUS
<1>6. step \in [1..N -> [S -> S]] /\ <<>> \in S
  BY <1>3, <1>4, <1>5
<1>7. PICK h \in [SUBSET (1..N) -> S] : IsFold(h, N, <<>>, step)
  BY <1>6, FoldExists
<1>8. PICK idx : idx = [i \in DOMAIN spans |-> i]
  OBVIOUS
<1>9. DOMAIN idx = 1..N /\ \A i \in 1..N : idx[i] = i
  BY <1>1, <1>8
<1> DEFINE V(k, s) == IF s = {} THEN <<>>
                      ELSE AddSpan(k[s \ {Max(s)}], idx[Max(s)], spans[idx[Max(s)]])
           Q(k) == k = [s \in SUBSET (DOMAIN idx) |-> V(k, s)]
           it == CHOOSE k : Q(k)
<1>10. Unflagged(spans) = it[DOMAIN idx]
  BY <1>8 DEF Unflagged, FoldLeftDomain, FoldLeft, MapThenFoldSet
<1>11. Q(h)
  <2>1. ASSUME NEW s \in SUBSET (1..N) PROVE h[s] = V(h, s)
    <3>1. h[s] = IF s = {} THEN <<>> ELSE step[Max(s)][h[s \ {Max(s)}]]
      BY <1>7 DEF IsFold
    <3>2. CASE s # {}
      <4>1. Max(s) \in 1..N /\ h[s \ {Max(s)}] \in S
        BY <3>2, LargestIn
      <4>2. step[Max(s)][h[s \ {Max(s)}]] = AddSpan(h[s \ {Max(s)}], Max(s), spans[Max(s)])
        BY <1>5, <4>1
      <4>3. idx[Max(s)] = Max(s)
        BY <1>9, <4>1
      <4> QED
        BY <3>1, <3>2, <4>2, <4>3
    <3> QED
      BY <3>1, <3>2
  <2> HIDE DEF V
  <2> QED
    BY <1>9, <2>1
<1>12. Q(it)
  <2> HIDE DEF Q
  <2> QED
    BY <1>11
<1>13. ASSUME NEW s \in SUBSET (1..N) PROVE it[s] = V(it, s)
  <2> HIDE DEF V, it
  <2> QED
    BY <1>9, <1>12
<1>14. PICK f : f = [i \in 0..N |-> it[1..i]]
  OBVIOUS
<1> HIDE DEF it, Q
<1>15. f[0] = <<>>
  <2>1. 1..0 = {} /\ {} \in SUBSET (1..N) /\ 0 \in 0..N
    OBVIOUS
  <2> QED
    BY <1>13, <1>14, <2>1
<1>16. ASSUME NEW i \in 1..N PROVE f[i] = AddSpan(f[i - 1], i, spans[i])
  <2>1. i \in 0..N /\ i - 1 \in 0..N
    OBVIOUS
  <2>2. /\ 1..i \in SUBSET (1..N) /\ 1..i # {} /\ (1..i) \ {i} = 1..(i - 1)
        /\ Max(1..i) = i
    BY UpToIndex
  <2>3. it[1..i] = AddSpan(it[1..(i - 1)], idx[i], spans[idx[i]])
    BY <1>13, <2>2
  <2> QED
    BY <1>9, <1>14, <2>1, <2>3
<1>17. Unflagged(spans) = f[N]
  <2>1. N \in 0..N
    OBVIOUS
  <2> QED
    BY <1>9, <1>10, <1>14, <2>1
<1> QED
  BY <1>1, <1>15, <1>16, <1>17

\* The branches before the errors bubble up hold the spans.
LEMMA UnflaggedHolds ==
    ASSUME NEW X, NEW spans \in Seq(X), \A x \in X : x.error \in BOOLEAN
    PROVE  /\ Unflagged(spans) \in Seq(BranchOf(NamesIn(spans)))
           /\ \E st : Cuts(Unflagged(spans), st, Len(spans), spans)
<1>1. PICK N \in Nat : N = Len(spans) /\ DOMAIN spans = 1..N
  OBVIOUS
<1>2. PICK L : L = NamesIn(spans)
  OBVIOUS
<1>3. PICK f : /\ f[0] = <<>>
               /\ \A i \in 1..N : f[i] = AddSpan(f[i - 1], i, spans[i])
               /\ Unflagged(spans) = f[N]
  BY <1>1, TreeSteps
<1> DEFINE Good(i) == f[i] \in Seq(BranchOf(L)) /\ \E st : Cuts(f[i], st, i, spans)
<1>4. PICK T : T = {i \in 0..N : Good(i)}
  OBVIOUS
<1>5. Good(0)
  <2>1. PICK t : t = f[0]
    OBVIOUS
  <2>2. t \in Seq(BranchOf(L)) /\ Len(t) = 0
    BY <1>3, <2>1
  <2>3. PICK st : st = [k \in 1..1 |-> 1]
    OBVIOUS
  <2>4. Cuts(t, st, 0, spans)
    BY <2>2, <2>3 DEF Cuts
  <2> QED
    BY <2>1, <2>2, <2>4
<1>6. ASSUME NEW i \in 1..N, Good(i - 1) PROVE Good(i)
  <2>1. PICK t \in Seq(BranchOf(L)) : t = f[i - 1]
    BY <1>6
  <2>2. PICK st : Cuts(t, st, i - 1, spans)
    BY <1>6, <2>1
  <2>3. NoSub \in L /\ Sub(spans[i]) \in L /\ Behavior(spans[i]) \in L
    BY <1>1, <1>2 DEF NamesIn
  <2>4. spans[i].error \in BOOLEAN /\ i \in Nat \ {0}
    BY <1>1
  <2>5. /\ AddSpan(t, i, spans[i]) \in Seq(BranchOf(L))
        /\ \E now : Cuts(AddSpan(t, i, spans[i]), now, i, spans)
    BY <2>2, <2>3, <2>4, AddSpanHolds
  <2> QED
    BY <1>3, <2>1, <2>5
<1> HIDE DEF Good
<1>7. 0 \in T /\ \A i \in 1..N : i - 1 \in T => i \in T
  BY <1>4, <1>5, <1>6
<1>8. \A i \in 0..N : i \in T
  BY <1>7, InductionUpTo
<1>9. Good(N)
  BY <1>4, <1>8
<1> QED
  BY <1>1, <1>2, <1>3, <1>9 DEF Good

\* Whatever the spans of a trace, the labeler loses, moves and duplicates none:
\* the branches of its tree are the runs of spans with one behavior, each with
\* its spans in order under their sub-behaviors, and a branch or a sub-behavior
\* is marked as failed exactly when one of its spans is.
THEOREM LabelsGroupRuns ==
    ASSUME NEW X, NEW spans \in Seq(X), \A x \in X : x.error \in BOOLEAN
    PROVE  IsGrouping(Label(spans), spans)
<1>1. PICK N \in Nat : N = Len(spans) /\ DOMAIN spans = 1..N
  OBVIOUS
<1>2. PICK L : L = NamesIn(spans)
  OBVIOUS
<1>3. PICK t \in Seq(BranchOf(L)) : t = Unflagged(spans)
  BY <1>2, UnflaggedHolds
<1>4. PICK st : Cuts(t, st, N, spans)
  BY <1>1, <1>3, UnflaggedHolds
<1>5. PICK n \in Nat : n = Len(t) /\ DOMAIN t = 1..n
  OBVIOUS
<1>6. PICK r : r = Label(spans)
  OBVIOUS
<1>7. r = [k \in 1..n |-> FlagBranch(t[k], spans)]
  <2>1. r = Flagged(t, spans)
    BY <1>3, <1>6 DEF Label, Unflagged
  <2> QED
    BY <1>5, <2>1, FlagsEach
<1>8. Len(r) = n
  BY <1>7
<1>9. Runs(spans) = {RunOf(st, k) : k \in 1..n}
  BY <1>1, <1>4, <1>5, RunsOfCuts
<1>10. ASSUME NEW m \in 0..n PROVE Cardinality({RunOf(st, k) : k \in 1..m}) = m
  BY <1>1, <1>4, <1>5, RunsCounted
<1>11. /\ \A k \in 1..(n + 1) : st[k] \in 1..(N + 1)
       /\ st[n + 1] = N + 1
       /\ \A k \in 1..n : st[k] < st[k + 1] /\ BranchHolds(t[k], st[k], st[k + 1] - 1, spans)
  BY <1>4, <1>5 DEF Cuts
<1>12. ASSUME NEW k \in 1..n
       PROVE  /\ Cardinality({x \in Runs(spans) : x[1] <= RunOf(st, k)[1]}) = k
              /\ HoldsRun(r[k], RunOf(st, k), spans)
  <2>1. k \in 1..(n + 1) /\ k + 1 \in 1..(n + 1)
    OBVIOUS
  <2>2. PICK lo \in Nat, hi \in Nat : lo = st[k] /\ hi = st[k + 1] - 1 /\ lo \in 1..N /\ hi \in 1..N /\ lo <= hi
    <3>1. st[k] \in 1..(N + 1) /\ st[k + 1] \in 1..(N + 1) /\ st[k] < st[k + 1]
      BY <1>11, <2>1
    <3> QED
      BY <3>1
  <2>3. RunOf(st, k)[1] = lo /\ RunOf(st, k)[2] = hi
    BY <2>2 DEF RunOf
  <2>4. ASSUME NEW j \in 1..n PROVE RunOf(st, j)[1] <= lo <=> j <= k
    <3>1. RunOf(st, j)[1] = st[j] /\ st[j] \in Int
      BY <1>11 DEF RunOf
    <3>2. CASE j < k
      <4>1. k - 1 \in 0..n /\ j \in 1..(k - 1) /\ (k - 1) + 1 = k
        BY <3>2
      <4>2. st[j] < st[k]
        BY <1>4, <1>5, <4>1, CutsRise
      <4> QED
        BY <2>2, <3>1, <3>2, <4>2
    <3>3. CASE k < j
      <4>1. j - 1 \in 0..n /\ k \in 1..(j - 1) /\ (j - 1) + 1 = j
        BY <3>3
      <4>2. st[k] < st[j]
        BY <1>4, <1>5, <4>1, CutsRise
      <4> QED
        BY <2>2, <3>1, <3>3, <4>2
    <3>4. CASE j = k
      BY <2>2, <3>1, <3>4
    <3> QED
      BY <3>2, <3>3, <3>4
  <2>5. {x \in Runs(spans) : x[1] <= lo} = {RunOf(st, j) : j \in 1..k}
    <3>1. \A j \in 1..k : j \in 1..n /\ j <= k
      OBVIOUS
    <3>2. \A j \in 1..n : j <= k => j \in 1..k
      OBVIOUS
    <3>3. ASSUME NEW x \in Runs(spans), x[1] <= lo PROVE \E j \in 1..k : x = RunOf(st, j)
      BY <1>9, <2>4, <3>2, <3>3
    <3>4. ASSUME NEW j \in 1..k PROVE RunOf(st, j) \in Runs(spans) /\ RunOf(st, j)[1] <= lo
      BY <1>9, <2>4, <3>1
    <3> QED
      BY <3>3, <3>4
  <2>6. Cardinality({x \in Runs(spans) : x[1] <= lo}) = k
    <3>1. k \in 0..n
      OBVIOUS
    <3> QED
      BY <1>10, <2>5, <3>1
  <2>7. PICK b \in BranchOf(L) : b = t[k]
    BY <1>5
  <2>8. BranchHolds(b, lo, hi, spans)
    BY <1>11, <2>2, <2>7
  <2>9. \A j \in lo..hi : spans[j].error \in BOOLEAN
    BY <1>1, <2>2
  <2>10. PICK run : run = RunOf(st, k)
    OBVIOUS
  <2>11. HoldsRun(FlagBranch(b, spans), run, spans)
    BY <2>2, <2>3, <2>8, <2>9, <2>10, FlaggedHolds
  <2>12. r[k] = FlagBranch(b, spans)
    BY <1>7, <2>7
  <2> QED
    BY <2>3, <2>6, <2>10, <2>11, <2>12
<1>13. Len(r) = Cardinality(Runs(spans))
  <2>1. n \in 0..n
    OBVIOUS
  <2> QED
    BY <1>8, <1>9, <1>10, <2>1
<1>14. ASSUME NEW run \in Runs(spans)
       PROVE  HoldsRun(r[Cardinality({x \in Runs(spans) : x[1] <= run[1]})], run, spans)
  <2>1. PICK k \in 1..n : run = RunOf(st, k)
    BY <1>9
  <2> QED
    BY <1>12, <2>1
<1> QED
  BY <1>6, <1>13, <1>14 DEF IsGrouping

-----------------------------------------------------------------------------
(* match: strings.Split gives what is between the stars.                   *)

\* Sequences.
LEMMA OneMore ==
    ASSUME NEW X, NEW s \in Seq(X), NEW x \in X
    PROVE  /\ Append(s, x) \in Seq(X) /\ Len(Append(s, x)) = Len(s) + 1
           /\ Append(s, x)[Len(s) + 1] = x
           /\ \A i \in 1..Len(s) : Append(s, x)[i] = s[i]
OBVIOUS

LEMMA EmptySequence ==
    ASSUME NEW X
    PROVE  <<>> \in Seq(X) /\ Len(<<>>) = 0 /\ \A x \in 1..Len(<<>>) : FALSE
OBVIOUS

\* How strings.Split goes: one character at a time.
SplitStep(chunks, c) == IF c = Star THEN Append(chunks, <<>>)
                        ELSE [chunks EXCEPT ![Len(chunks)] = Append(@, c)]

LEMMA SplitStepTyped ==
    ASSUME NEW X, NEW chunks \in Seq(Seq(X)), NEW c \in X
    PROVE  SplitStep(chunks, c) \in Seq(Seq(X))
<1>1. <<>> \in Seq(X)
  OBVIOUS
<1>2. CASE c = Star
  BY <1>1, <1>2 DEF SplitStep
<1>3. CASE c # Star
  <2>1. PICK n \in Nat : n = Len(chunks) /\ DOMAIN chunks = 1..n
    OBVIOUS
  <2>2. ASSUME n \in 1..n PROVE Append(chunks[n], c) \in Seq(X)
    <3>1. PICK t \in Seq(X) : t = chunks[n]
      BY <2>1, <2>2
    <3>2. Append(t, c) \in Seq(X)
      OBVIOUS
    <3> QED
      BY <3>1, <3>2
  <2>3. [chunks EXCEPT ![n] = Append(chunks[n], c)] \in Seq(Seq(X))
    <3>1. CASE n \in 1..n
      <4>1. PICK u \in Seq(X) : u = Append(chunks[n], c)
        BY <2>2, <3>1
      <4>2. [chunks EXCEPT ![n] = u] \in Seq(Seq(X))
        BY <2>1, <3>1
      <4> QED
        BY <4>1, <4>2
    <3>2. CASE n \notin 1..n
      <4>1. [chunks EXCEPT ![n] = Append(chunks[n], c)] = chunks
        BY <2>1, <3>2
      <4> QED
        BY <4>1
    <3> QED
      BY <3>1, <3>2
  <2> QED
    BY <1>3, <2>1, <2>3 DEF SplitStep
<1> QED
  BY <1>2, <1>3

LEMMA SplitSteps ==
    ASSUME NEW X, NEW pattern \in Seq(X)
    PROVE  \E f : /\ f[0] = << <<>> >>
                  /\ \A i \in 1..Len(pattern) : f[i] = SplitStep(f[i - 1], pattern[i])
                  /\ Split(pattern) = f[Len(pattern)]
<1>1. PICK N \in Nat : N = Len(pattern) /\ DOMAIN pattern = 1..N
  OBVIOUS
<1>2. PICK S : S = Seq(Seq(X))
  OBVIOUS
<1>3. PICK base : base = << <<>> >>
  OBVIOUS
<1>4. ASSUME NEW i \in 1..N, NEW t \in S PROVE SplitStep(t, pattern[i]) \in S
  BY <1>1, <1>2, SplitStepTyped
<1>5. PICK step : step = [i \in 1..N |-> [t \in S |-> SplitStep(t, pattern[i])]]
  OBVIOUS
<1>6. step \in [1..N -> [S -> S]] /\ base \in S
  BY <1>2, <1>3, <1>4, <1>5
<1>7. PICK h \in [SUBSET (1..N) -> S] : IsFold(h, N, base, step)
  BY <1>6, FoldExists
<1> DEFINE V(k, s) == IF s = {} THEN << <<>> >>
                      ELSE SplitStep(k[s \ {Max(s)}], pattern[Max(s)])
           Q(k) == k = [s \in SUBSET (DOMAIN pattern) |-> V(k, s)]
           it == CHOOSE k : Q(k)
<1>10. Split(pattern) = it[DOMAIN pattern]
  BY DEF Split, SplitStep, FoldLeft, MapThenFoldSet
<1>11. Q(h)
  <2>1. ASSUME NEW s \in SUBSET (1..N) PROVE h[s] = V(h, s)
    <3>1. h[s] = IF s = {} THEN base ELSE step[Max(s)][h[s \ {Max(s)}]]
      BY <1>7 DEF IsFold
    <3>2. CASE s # {}
      <4>1. Max(s) \in 1..N /\ h[s \ {Max(s)}] \in S
        BY <3>2, LargestIn
      <4>2. step[Max(s)][h[s \ {Max(s)}]] = SplitStep(h[s \ {Max(s)}], pattern[Max(s)])
        BY <1>5, <4>1
      <4> QED
        BY <3>1, <3>2, <4>2
    <3> QED
      BY <1>3, <3>1, <3>2
  <2> HIDE DEF V
  <2> QED
    BY <1>1, <2>1
<1>12. Q(it)
  <2> HIDE DEF Q
  <2> QED
    BY <1>11
<1>13. ASSUME NEW s \in SUBSET (1..N) PROVE it[s] = V(it, s)
  <2> HIDE DEF V, it
  <2> QED
    BY <1>1, <1>12
<1>14. PICK f : f = [i \in 0..N |-> it[1..i]]
  OBVIOUS
<1> HIDE DEF it, Q
<1>15. f[0] = << <<>> >>
  <2>1. 1..0 = {} /\ {} \in SUBSET (1..N) /\ 0 \in 0..N
    OBVIOUS
  <2> QED
    BY <1>13, <1>14, <2>1
<1>16. ASSUME NEW i \in 1..N PROVE f[i] = SplitStep(f[i - 1], pattern[i])
  <2>1. i \in 0..N /\ i - 1 \in 0..N
    OBVIOUS
  <2>2. /\ 1..i \in SUBSET (1..N) /\ 1..i # {} /\ (1..i) \ {i} = 1..(i - 1)
        /\ Max(1..i) = i
    BY UpToIndex
  <2>3. it[1..i] = SplitStep(it[1..(i - 1)], pattern[i])
    BY <1>13, <2>2
  <2> QED
    BY <1>14, <2>1, <2>3
<1>17. Split(pattern) = f[N]
  <2>1. N \in 0..N
    OBVIOUS
  <2> QED
    BY <1>1, <1>10, <1>14, <2>1
<1> QED
  BY <1>1, <1>15, <1>16, <1>17

-----------------------------------------------------------------------------
\* What a state of the search is.
SearchStates(X) == [found : BOOLEAN, rest : Seq(X)]

LEMMA ConsumeTyped ==
    ASSUME NEW X, NEW st \in SearchStates(X), NEW c \in Seq(X)
    PROVE  Consume(st, c) \in SearchStates(X)
<1>1. PICK r \in Seq(X), n \in Nat, l \in Nat : r = st.rest /\ n = Len(r) /\ l = Len(c)
  BY DEF SearchStates
<1>2. PICK T : T = Occurrences(r, c)
  OBVIOUS
<1>3. T \subseteq 0..(n - l)
  BY <1>1, <1>2 DEF Occurrences
<1>4. CASE ~st.found \/ c = <<>>
  BY <1>4 DEF Consume
<1>5. CASE st.found /\ c # <<>> /\ T = {}
  <2>1. Consume(st, c) = [st EXCEPT !.found = FALSE]
    BY <1>1, <1>2, <1>5 DEF Consume
  <2> QED
    BY <2>1 DEF SearchStates
<1>6. CASE st.found /\ c # <<>> /\ T # {}
  <2>1. PICK i : i = CHOOSE x \in T : \A y \in T : x <= y
    OBVIOUS
  <2>2. i \in T
    <3>1. T \subseteq Nat
      BY <1>3
    <3>2. \E x \in T : \A y \in T : x <= y
      BY <1>6, <3>1, LeastElement
    <3> QED
      BY <2>1, <3>2
  <2>3. After(r, c, i) \in Seq(X)
    <3>1. i \in 0..(n - l) /\ i + l + 1 \in Int /\ n \in Int
      BY <1>3, <2>2
    <3>2. \A j \in (i + l + 1)..n : r[j] \in X
      BY <1>1, <3>1
    <3>3. SubSeq(r, i + l + 1, n) \in Seq(X)
      BY <3>1, <3>2, SubSeqProperties
    <3> QED
      BY <1>1, <3>3 DEF After
  <2>4. Consume(st, c) = [st EXCEPT !.rest = After(r, c, i)]
    BY <1>1, <1>2, <1>6, <2>1 DEF Consume
  <2> QED
    BY <2>3, <2>4 DEF SearchStates
<1> QED
  BY <1>4, <1>5, <1>6 DEF SearchStates

\* The states the search for the chunks goes through.
Searched(f, chunks, dest, X) ==
    /\ f[0] = [found |-> TRUE, rest |-> dest]
    /\ \A i \in 1..Len(chunks) : f[i] = Consume(f[i - 1], chunks[i])
    /\ \A i \in 0..Len(chunks) : f[i] \in SearchStates(X)

LEMMA ConsumeSteps ==
    ASSUME NEW X, NEW dest \in Seq(X), NEW pattern, Split(pattern) \in Seq(Seq(X))
    PROVE  \E f : /\ Searched(f, Split(pattern), dest, X)
                  /\ ChunksInOrder(pattern, dest) = f[Len(Split(pattern))].found
<1>1. PICK chunks \in Seq(Seq(X)), N \in Nat :
        chunks = Split(pattern) /\ N = Len(chunks) /\ DOMAIN chunks = 1..N
  OBVIOUS
<1>2. PICK S : S = SearchStates(X)
  OBVIOUS
<1>3. PICK base : base = [found |-> TRUE, rest |-> dest]
  OBVIOUS
<1>4. ASSUME NEW i \in 1..N, NEW t \in S PROVE Consume(t, chunks[i]) \in S
  BY <1>1, <1>2, ConsumeTyped
<1>5. PICK step : step = [i \in 1..N |-> [t \in S |-> Consume(t, chunks[i])]]
  OBVIOUS
<1>6. step \in [1..N -> [S -> S]] /\ base \in S
  BY <1>2, <1>3, <1>4, <1>5 DEF SearchStates
<1>7. PICK h \in [SUBSET (1..N) -> S] : IsFold(h, N, base, step)
  BY <1>6, FoldExists
<1> DEFINE V(k, s) == IF s = {} THEN [found |-> TRUE, rest |-> dest]
                      ELSE Consume(k[s \ {Max(s)}], Split(pattern)[Max(s)])
           Q(k) == k = [s \in SUBSET (DOMAIN Split(pattern)) |-> V(k, s)]
           it == CHOOSE k : Q(k)
<1>10. ChunksInOrder(pattern, dest) = it[DOMAIN Split(pattern)].found
  BY DEF ChunksInOrder, FoldLeft, MapThenFoldSet
<1>11. Q(h)
  <2>1. ASSUME NEW s \in SUBSET (1..N) PROVE h[s] = V(h, s)
    <3>1. h[s] = IF s = {} THEN base ELSE step[Max(s)][h[s \ {Max(s)}]]
      BY <1>7 DEF IsFold
    <3>2. CASE s # {}
      <4>1. Max(s) \in 1..N /\ h[s \ {Max(s)}] \in S
        BY <3>2, LargestIn
      <4>2. step[Max(s)][h[s \ {Max(s)}]] = Consume(h[s \ {Max(s)}], chunks[Max(s)])
        BY <1>5, <4>1
      <4> QED
        BY <1>1, <3>1, <3>2, <4>2
    <3> QED
      BY <1>3, <3>1, <3>2
  <2> HIDE DEF V
  <2> QED
    BY <1>1, <2>1
<1>12. Q(it)
  <2> HIDE DEF Q
  <2> QED
    BY <1>11
<1>13. ASSUME NEW s \in SUBSET (1..N) PROVE it[s] = V(it, s)
  <2> HIDE DEF V, it
  <2> QED
    BY <1>1, <1>12
<1>14. PICK f : f = [i \in 0..N |-> it[1..i]]
  OBVIOUS
<1> HIDE DEF it, Q
<1>15. f[0] = [found |-> TRUE, rest |-> dest]
  <2>1. 1..0 = {} /\ {} \in SUBSET (1..N) /\ 0 \in 0..N
    OBVIOUS
  <2> QED
    BY <1>13, <1>14, <2>1
<1>16. ASSUME NEW i \in 1..N PROVE f[i] = Consume(f[i - 1], chunks[i])
  <2>1. i \in 0..N /\ i - 1 \in 0..N
    OBVIOUS
  <2>2. /\ 1..i \in SUBSET (1..N) /\ 1..i # {} /\ (1..i) \ {i} = 1..(i - 1)
        /\ Max(1..i) = i
    BY UpToIndex
  <2>3. it[1..i] = Consume(it[1..(i - 1)], chunks[i])
    BY <1>1, <1>13, <2>2
  <2> QED
    BY <1>14, <2>1, <2>3
<1>17. ChunksInOrder(pattern, dest) = f[N].found
  <2>1. N \in 0..N
    OBVIOUS
  <2> QED
    BY <1>1, <1>10, <1>14, <2>1
<1>18. \A i \in 0..N : f[i] \in SearchStates(X)
  <2>1. PICK T : T = {i \in 0..N : f[i] \in S}
    OBVIOUS
  <2>2. 0 \in T
    BY <1>3, <1>6, <1>15, <2>1
  <2>3. \A i \in 1..N : i - 1 \in T => i \in T
    BY <1>4, <1>16, <2>1
  <2>4. \A i \in 0..N : i \in T
    BY <2>2, <2>3, InductionUpTo
  <2> QED
    BY <1>2, <2>1, <2>4
<1> QED
  BY <1>1, <1>15, <1>16, <1>17, <1>18 DEF Searched

\* The chunk is in the pattern from the i-th character on, and has no star.
Literally(chunk, pattern, i) ==
    \A x \in 1..Len(chunk) : chunk[x] = pattern[i + x - 1] /\ chunk[x] # Star

\* chunks are what is between the stars of the first n characters of the
\* pattern: the k-th begins at st[k].
Chunked(chunks, st, n, pattern) ==
    /\ Len(chunks) >= 1 /\ st \in [1..Len(chunks) -> 1..(n + 1)] /\ st[1] = 1
    /\ \A k \in 1..Len(chunks) : Literally(chunks[k], pattern, st[k])
    /\ \A k \in 1..(Len(chunks) - 1) :
          st[k + 1] = st[k] + Len(chunks[k]) + 1 /\ pattern[st[k] + Len(chunks[k])] = Star
    /\ st[Len(chunks)] + Len(chunks[Len(chunks)]) = n + 1

LEMMA SplitStepChunks ==
    ASSUME NEW X, NEW pattern \in Seq(X), NEW i \in Nat, i \in 1..Len(pattern),
           NEW chunks \in Seq(Seq(X)), NEW st, Chunked(chunks, st, i - 1, pattern)
    PROVE  \E now : Chunked(SplitStep(chunks, pattern[i]), now, i, pattern)
<1>1. PICK m \in Nat, c \in X : m = Len(chunks) /\ DOMAIN chunks = 1..m /\ c = pattern[i]
  OBVIOUS
<1>2. /\ m >= 1 /\ st \in [1..m -> 1..i] /\ st[1] = 1
      /\ \A k \in 1..m : Literally(chunks[k], pattern, st[k])
      /\ \A k \in 1..(m - 1) :
            st[k + 1] = st[k] + Len(chunks[k]) + 1 /\ pattern[st[k] + Len(chunks[k])] = Star
      /\ st[m] + Len(chunks[m]) = i
  <2>1. (i - 1) + 1 = i
    OBVIOUS
  <2> QED
    BY <1>1, <2>1 DEF Chunked
<1>3. ASSUME NEW k \in 1..m PROVE chunks[k] \in Seq(X) /\ Len(chunks[k]) \in Nat /\ st[k] \in Nat
  <2>1. chunks[k] \in Seq(X) /\ st[k] \in 1..i
    <3>1. chunks[k] \in Seq(X)
      BY <1>1
    <3>2. st[k] \in 1..i
      BY <1>2
    <3> QED
      BY <3>1, <3>2
  <2>2. PICK t \in Seq(X) : t = chunks[k]
    BY <2>1
  <2>3. Len(t) \in Nat
    OBVIOUS
  <2> QED
    BY <2>1, <2>2, <2>3
<1>4. i \in Nat /\ i >= 1 /\ m \in 1..m
  BY <1>2
<1>5. CASE c = Star
  <2>1. PICK none \in Seq(X) : none = <<>> /\ Len(none) = 0 /\ \A x \in 1..Len(none) : FALSE
    BY EmptySequence, Zenon
  <2>2. PICK r : r = Append(chunks, none)
    OBVIOUS
  <2>3. r = SplitStep(chunks, c)
    BY <1>5, <2>1, <2>2 DEF SplitStep
  <2>4. Len(r) = m + 1 /\ r[m + 1] = none /\ \A k \in 1..m : r[k] = chunks[k]
    BY <1>1, <2>2
  <2>5. PICK now : now = [k \in 1..(m + 1) |-> IF k = m + 1 THEN i + 1 ELSE st[k]]
    OBVIOUS
  <2>6. now[m + 1] = i + 1 /\ \A k \in 1..m : now[k] = st[k]
    BY <2>5
  <2>7. now \in [1..(m + 1) -> 1..(i + 1)] /\ now[1] = 1
    BY <1>2, <1>4, <2>5
  <2>8. ASSUME NEW k \in 1..(m + 1)
        PROVE  Literally(r[k], pattern, now[k])
    <3>1. CASE k = m + 1
      BY <2>1, <2>4, <3>1 DEF Literally
    <3>2. CASE k \in 1..m
      BY <1>2, <2>4, <2>6, <3>2
    <3> QED
      BY <3>1, <3>2
  <2>9. ASSUME NEW k \in 1..m
        PROVE  now[k + 1] = now[k] + Len(r[k]) + 1 /\ pattern[now[k] + Len(r[k])] = Star
    <3>1. CASE k = m
      <4>1. now[k + 1] = i + 1 /\ now[k] = st[m] /\ r[k] = chunks[m]
        BY <1>4, <2>4, <2>6, <3>1
      <4> QED
        BY <1>1, <1>2, <1>3, <1>4, <1>5, <3>1, <4>1
    <3>2. CASE k \in 1..(m - 1)
      <4>1. k \in 1..m /\ k + 1 \in 1..m
        BY <3>2
      <4> QED
        BY <1>2, <2>4, <2>6, <3>2, <4>1
    <3> QED
      BY <3>1, <3>2
  <2>10. now[m + 1] + Len(r[m + 1]) = i + 1
    BY <1>4, <2>1, <2>4, <2>6
  <2>11. Len(r) >= 1 /\ Len(r) - 1 = m
    BY <1>2, <2>4
  <2>12. Chunked(r, now, i, pattern)
    BY <2>4, <2>7, <2>8, <2>9, <2>10, <2>11 DEF Chunked
  <2> QED
    BY <1>1, <2>3, <2>12
<1>6. CASE c # Star
  <2>1. PICK t \in Seq(X), l \in Nat : t = chunks[m] /\ l = Len(t)
    BY <1>3, <1>4
  <2>2. PICK u \in Seq(X) : u = Append(t, c)
    BY OneMore
  <2>3. Len(u) = l + 1 /\ u[l + 1] = c /\ \A x \in 1..l : u[x] = t[x]
    BY <2>1, <2>2, OneMore
  <2>4. PICK r : r = [chunks EXCEPT ![m] = u]
    OBVIOUS
  <2>5. r = SplitStep(chunks, c)
    BY <1>1, <1>6, <2>1, <2>2, <2>4 DEF SplitStep
  <2>6. Len(r) = m /\ r[m] = u /\ \A k \in 1..(m - 1) : r[k] = chunks[k]
    BY <1>1, <1>4, <2>4
  <2>7. st \in [1..m -> 1..(i + 1)]
    BY <1>2, <1>4
  <2>8. ASSUME NEW k \in 1..m
        PROVE  Literally(r[k], pattern, st[k])
    <3>1. CASE k = m
      <4>1. \A x \in 1..l : u[x] = pattern[st[m] + x - 1] /\ u[x] # Star
        BY <1>2, <1>4, <2>1, <2>3 DEF Literally
      <4>2. st[m] + (l + 1) - 1 = i
        BY <1>2, <1>3, <1>4, <2>1
      <4>3. \A x \in 1..(l + 1) : x \in 1..l \/ x = l + 1
        OBVIOUS
      <4>4. \A x \in 1..(l + 1) : u[x] = pattern[st[m] + x - 1] /\ u[x] # Star
        BY <1>1, <1>6, <2>3, <4>1, <4>2, <4>3
      <4> QED
        BY <2>3, <2>6, <3>1, <4>4 DEF Literally
    <3>2. CASE k \in 1..(m - 1)
      BY <1>2, <2>6, <3>2
    <3> QED
      BY <3>1, <3>2
  <2>9. \A k \in 1..(m - 1) : st[k + 1] = st[k] + Len(r[k]) + 1 /\ pattern[st[k] + Len(r[k])] = Star
    BY <1>2, <2>6
  <2>10. st[m] + Len(r[m]) = i + 1
    <3>1. st[m] \in Nat /\ st[m] + l = i
      BY <1>2, <1>3, <1>4, <2>1
    <3>2. Len(r[m]) = l + 1
      BY <2>3, <2>6
    <3> QED
      BY <3>1, <3>2
  <2>11. Chunked(r, st, i, pattern)
    BY <1>2, <2>6, <2>7, <2>8, <2>9, <2>10 DEF Chunked
  <2> QED
    BY <1>1, <2>5, <2>11
<1> QED
  BY <1>5, <1>6

\* What strings.Split gives.
LEMMA SplitChunks ==
    ASSUME NEW X, NEW pattern \in Seq(X)
    PROVE  /\ Split(pattern) \in Seq(Seq(X))
           /\ \E st : Chunked(Split(pattern), st, Len(pattern), pattern)
<1>1. PICK N \in Nat : N = Len(pattern) /\ DOMAIN pattern = 1..N
  OBVIOUS
<1>2. PICK f : /\ f[0] = << <<>> >>
               /\ \A i \in 1..N : f[i] = SplitStep(f[i - 1], pattern[i])
               /\ Split(pattern) = f[N]
  BY <1>1, SplitSteps
<1> DEFINE Good(i) == f[i] \in Seq(Seq(X)) /\ \E st : Chunked(f[i], st, i, pattern)
<1>3. PICK T : T = {i \in 0..N : Good(i)}
  OBVIOUS
<1>4. Good(0)
  <2>1. PICK none \in Seq(X) : none = <<>> /\ Len(none) = 0 /\ \A x \in 1..Len(none) : FALSE
    BY EmptySequence, Zenon
  <2>2. PICK t : t = <<none>>
    OBVIOUS
  <2>3. t \in Seq(Seq(X)) /\ Len(t) = 1 /\ t[1] = none
    BY <2>2
  <2>4. PICK st : st = [k \in 1..1 |-> 1]
    OBVIOUS
  <2>5. Chunked(t, st, 0, pattern)
    BY <2>1, <2>3, <2>4 DEF Chunked, Literally
  <2>6. f[0] = t
    BY <1>2, <2>1, <2>2
  <2> QED
    BY <2>3, <2>5, <2>6
<1>5. ASSUME NEW i \in 1..N, Good(i - 1) PROVE Good(i)
  <2>1. PICK t \in Seq(Seq(X)) : t = f[i - 1]
    BY <1>5
  <2>2. PICK st : Chunked(t, st, i - 1, pattern)
    BY <1>5, <2>1
  <2>3. SplitStep(t, pattern[i]) \in Seq(Seq(X))
    BY <1>1, SplitStepTyped
  <2>4. \E now : Chunked(SplitStep(t, pattern[i]), now, i, pattern)
    <3>1. i \in Nat /\ i \in 1..Len(pattern)
      BY <1>1
    <3> QED
      BY <2>2, <3>1, SplitStepChunks
  <2> QED
    BY <1>2, <2>1, <2>3, <2>4
<1> HIDE DEF Good
<1>6. 0 \in T /\ \A i \in 1..N : i - 1 \in T => i \in T
  BY <1>3, <1>4, <1>5
<1>7. \A i \in 0..N : i \in T
  BY <1>6, InductionUpTo
<1>8. Good(N)
  BY <1>3, <1>7
<1> QED
  BY <1>1, <1>2, <1>8 DEF Good

-----------------------------------------------------------------------------
(* Where a pattern with wildcards can be after its chunks.                 *)

\* The places after a character of the pattern, from those before it.
AfterChar(places, c, dest) ==
    IF c = Star
      THEN {j \in 1..(Len(dest) + 1) : \E k \in places : k <= j}
      ELSE {j \in 2..(Len(dest) + 1) : j - 1 \in places /\ dest[j - 1] = c}

Reached(at, pattern, dest) ==
    /\ at \in [0..Len(pattern) -> SUBSET (1..(Len(dest) + 1))]
    /\ at[0] = {1}
    /\ \A i \in 1..Len(pattern) : at[i] = AfterChar(at[i - 1], pattern[i], dest)

LEMMA GlobReached ==
    ASSUME NEW X, NEW pattern \in Seq(X), NEW dest \in Seq(X)
    PROVE  \E at : /\ Reached(at, pattern, dest)
                   /\ Glob(pattern, dest) = (Len(dest) + 1 \in at[Len(pattern)])
<1>1. PICK N \in Nat, L \in Nat : N = Len(pattern) /\ L = Len(dest)
  OBVIOUS
<1>2. PICK S : S = SUBSET (1..(L + 1))
  OBVIOUS
<1>3. PICK one : one = {1}
  OBVIOUS
<1>4. PICK step : step = [i \in 1..N |-> [p \in S |-> AfterChar(p, pattern[i], dest)]]
  OBVIOUS
<1>5. ASSUME NEW p, NEW c PROVE AfterChar(p, c, dest) \in S
  <2>1. ASSUME NEW j \in 2..(L + 1) PROVE j \in 1..(L + 1)
    OBVIOUS
  <2> QED
    BY <1>1, <1>2, <2>1 DEF AfterChar
<1>6. step \in [1..N -> [S -> S]] /\ one \in S
  <2>1. 1 \in 1..(L + 1)
    OBVIOUS
  <2> QED
    BY <1>2, <1>3, <1>4, <1>5, <2>1
<1>7. PICK f \in [0..N -> S] : Recursion(f, N, one, step)
  BY <1>6, RecursionExists
<1> DEFINE V(at, i) == IF i = 0 THEN {1} ELSE AfterChar(at[i - 1], pattern[i], dest)
           Q(at) == at = [i \in 0..N |-> V(at, i)]
           it == CHOOSE at : Q(at)
<1>8. Glob(pattern, dest) = (L + 1 \in it[N])
  BY <1>1 DEF Glob, AfterChar
<1>9. Q(f)
  <2>1. ASSUME NEW i \in 0..N PROVE f[i] = V(f, i)
    <3>1. CASE i = 0
      BY <1>3, <1>7, <3>1 DEF Recursion
    <3>2. CASE i # 0
      <4>1. i \in 1..N /\ i - 1 \in 0..N
        BY <3>2
      <4>2. f[i] = step[i][f[i - 1]] /\ f[i - 1] \in S
        BY <1>7, <4>1 DEF Recursion
      <4> QED
        BY <1>4, <3>2, <4>1, <4>2
    <3> QED
      BY <3>1, <3>2
  <2> HIDE DEF V
  <2> QED
    BY <2>1
<1>10. Q(it)
  <2> HIDE DEF Q
  <2> QED
    BY <1>9
<1>11. DOMAIN it = 0..N /\ \A i \in 0..N : it[i] = V(it, i)
  <2> HIDE DEF V, it
  <2> QED
    BY <1>10
<1> HIDE DEF it, Q
<1>12. PICK at : at = it
  OBVIOUS
<1>13. at[0] = {1}
  <2>1. 0 \in 0..N
    OBVIOUS
  <2> QED
    BY <1>11, <1>12, <2>1
<1>14. \A i \in 1..N : at[i] = AfterChar(at[i - 1], pattern[i], dest)
  <2>1. \A i \in 1..N : i \in 0..N /\ i # 0
    OBVIOUS
  <2> QED
    BY <1>11, <1>12, <2>1
<1>15. at \in [0..N -> S]
  <2>1. ASSUME NEW i \in 0..N PROVE at[i] \in S
    <3>1. i = 0 \/ i \in 1..N
      OBVIOUS
    <3>2. {1} \in S
      BY <1>3, <1>6
    <3> QED
      BY <1>5, <1>13, <1>14, <3>1, <3>2
  <2>2. at = [i \in 0..N |-> at[i]]
    <3> HIDE DEF V
    <3> QED
      BY <1>10, <1>12 DEF Q
  <2> QED
    BY <2>1, <2>2
<1>16. Reached(at, pattern, dest)
  BY <1>1, <1>2, <1>13, <1>14, <1>15 DEF Reached
<1> QED
  BY <1>1, <1>8, <1>12, <1>16

\* The chunk is in dest from the j-th character on.
OccursAt(dest, chunk, j) ==
    j + Len(chunk) <= Len(dest) + 1 /\ \A x \in 1..Len(chunk) : dest[j + x - 1] = chunk[x]

\* The places after a chunk are those after its occurrences.
LEMMA ChunkReached ==
    ASSUME NEW X, NEW pattern \in Seq(X), NEW dest \in Seq(X), NEW at, Reached(at, pattern, dest),
           NEW chunk \in Seq(X), NEW a \in Nat, a + Len(chunk) <= Len(pattern),
           Literally(chunk, pattern, a + 1)
    PROVE  \A j \in Int : j \in at[a + Len(chunk)] <=>
              j - Len(chunk) \in at[a] /\ OccursAt(dest, chunk, j - Len(chunk))
<1>1. PICK N \in Nat, L \in Nat, l \in Nat : N = Len(pattern) /\ L = Len(dest) /\ l = Len(chunk)
  OBVIOUS
<1>2. /\ \A i \in 0..N : at[i] \subseteq 1..(L + 1)
      /\ \A i \in 1..N : at[i] = AfterChar(at[i - 1], pattern[i], dest)
  BY <1>1 DEF Reached
<1>3. \A x \in 1..l : pattern[a + x] = chunk[x] /\ chunk[x] # Star
  <2>1. \A x \in 1..l : chunk[x] = pattern[(a + 1) + x - 1] /\ chunk[x] # Star
    BY <1>1 DEF Literally
  <2>2. \A x \in 1..l : (a + 1) + x - 1 = a + x
    OBVIOUS
  <2> QED
    BY <2>1, <2>2
<1> DEFINE Upto(m, j) == j - m \in at[a] /\ j <= L + 1 /\ \A x \in 1..m : dest[(j - m) + x - 1] = chunk[x]
           Good(m) == \A j \in Int : j \in at[a + m] <=> Upto(m, j)
<1>4. PICK T : T = {m \in 0..l : Good(m)}
  OBVIOUS
<1>5. Good(0)
  <2>1. a \in 0..N
    BY <1>1
  <2>2. at[a] \subseteq 1..(L + 1)
    BY <1>2, <2>1
  <2>3. ASSUME NEW j \in Int PROVE j \in at[a + 0] <=> Upto(0, j)
    <3>1. a + 0 = a /\ j - 0 = j /\ \A x \in 1..0 : FALSE
      OBVIOUS
    <3>2. j \in at[a] => j <= L + 1
      BY <2>2
    <3> QED
      BY <3>1, <3>2
  <2> QED
    BY <2>3
<1>6. ASSUME NEW m \in 1..l, Good(m - 1) PROVE Good(m)
  <2>1. a + m \in 1..N /\ (a + m) - 1 = a + (m - 1)
    BY <1>1
  <2>2. pattern[a + m] = chunk[m] /\ chunk[m] # Star
    BY <1>3
  <2>3. at[a + m] = {j \in 2..(L + 1) : j - 1 \in at[a + (m - 1)] /\ dest[j - 1] = chunk[m]}
    BY <1>1, <1>2, <2>1, <2>2 DEF AfterChar
  <2>4. ASSUME NEW j \in Int PROVE j \in at[a + m] <=> Upto(m, j)
    <3>1. (j - 1) - (m - 1) = j - m /\ (j - m) + m - 1 = j - 1
      OBVIOUS
    <3>2. j - 1 \in at[a + (m - 1)] <=> Upto(m - 1, j - 1)
      <4>1. j - 1 \in Int
        OBVIOUS
      <4> HIDE DEF Upto
      <4>2. \A y \in Int : y \in at[a + (m - 1)] <=> Upto(m - 1, y)
        BY <1>6
      <4> QED
        BY <4>1, <4>2
    <3>3. \A x \in 1..m : x \in 1..(m - 1) \/ x = m
      OBVIOUS
    <3>4. \A x \in 1..(m - 1) : x \in 1..m
      OBVIOUS
    <3>5. (\A x \in 1..m : dest[(j - m) + x - 1] = chunk[x]) <=>
          (\A x \in 1..(m - 1) : dest[(j - m) + x - 1] = chunk[x]) /\ dest[j - 1] = chunk[m]
      <4>1. m \in 1..m /\ dest[(j - m) + m - 1] = dest[j - 1]
        BY <3>1
      <4>2. ASSUME \A x \in 1..m : dest[(j - m) + x - 1] = chunk[x]
            PROVE  (\A x \in 1..(m - 1) : dest[(j - m) + x - 1] = chunk[x]) /\ dest[j - 1] = chunk[m]
        BY <3>4, <4>1, <4>2
      <4>3. ASSUME \A x \in 1..(m - 1) : dest[(j - m) + x - 1] = chunk[x], dest[j - 1] = chunk[m],
                   NEW x \in 1..m
            PROVE  dest[(j - m) + x - 1] = chunk[x]
        BY <3>3, <4>1, <4>3
      <4> QED
        BY <4>2, <4>3
    <3>6. j - m \in at[a] => j >= 2
      <4>1. a \in 0..N
        BY <1>1
      <4>2. at[a] \subseteq 1..(L + 1)
        BY <1>2, <4>1
      <4> QED
        BY <4>2
    <3>7. j - 1 \in at[a + (m - 1)] <=>
          j - m \in at[a] /\ j - 1 <= L + 1 /\ \A x \in 1..(m - 1) : dest[(j - m) + x - 1] = chunk[x]
      BY <3>1, <3>2
    <3> QED
      BY <2>3, <3>5, <3>6, <3>7
  <2> QED
    BY <2>4
<1> HIDE DEF Good
<1>7. 0 \in T /\ \A m \in 1..l : m - 1 \in T => m \in T
  BY <1>4, <1>5, <1>6
<1>8. \A m \in 0..l : m \in T
  BY <1>7, InductionUpTo
<1>9. Good(l)
  BY <1>4, <1>8
<1>10. ASSUME NEW j \in Int
       PROVE  j \in at[a + l] <=> j - l \in at[a] /\ OccursAt(dest, chunk, j - l)
  <2>1. (j - l) + l = j
    OBVIOUS
  <2> QED
    BY <1>1, <1>9, <2>1 DEF Good, OccursAt
<1> QED
  BY <1>1, <1>10

-----------------------------------------------------------------------------
(* What the functions of package strings say of the places of a chunk.     *)

\* What is at a place of a sequence.
LEMMA PlaceIs ==
    ASSUME NEW X, NEW d \in Seq(X), NEW c \in Seq(X), NEW j \in Int, 1 <= j,
           j + Len(c) <= Len(d) + 1
    PROVE  SubSeq(d, j, j + Len(c) - 1) = c <=> \A x \in 1..Len(c) : d[j + x - 1] = c[x]
<1>1. PICK L \in Nat, l \in Nat : L = Len(d) /\ l = Len(c) /\ DOMAIN d = 1..L /\ DOMAIN c = 1..l
  OBVIOUS
<1>2. PICK e \in Int : e = j + l - 1
  OBVIOUS
<1>3. \A i \in j..e : d[i] \in X
  BY <1>1, <1>2
<1>4. /\ SubSeq(d, j, e) \in Seq(X)
      /\ Len(SubSeq(d, j, e)) = IF j <= e THEN e - j + 1 ELSE 0
      /\ \A i \in 1..(e - j + 1) : SubSeq(d, j, e)[i] = d[j + i - 1]
  BY <1>2, <1>3, SubSeqProperties
<1>5. PICK s \in Seq(X) : s = SubSeq(d, j, e)
  BY <1>4
<1>6. Len(s) = l /\ \A i \in 1..l : s[i] = d[j + i - 1]
  BY <1>2, <1>4, <1>5
<1>7. (\A x \in 1..l : s[x] = c[x]) => s = c
  BY <1>1, <1>6, SeqEqual
<1>8. s = c <=> \A x \in 1..l : d[j + x - 1] = c[x]
  BY <1>6, <1>7
<1> QED
  BY <1>1, <1>2, <1>5, <1>8

\* What is left of a sequence from its x-th element on.
LEMMA RestIs ==
    ASSUME NEW X, NEW d \in Seq(X), NEW x \in Int, 1 <= x, x <= Len(d) + 1
    PROVE  /\ SubSeq(d, x, Len(d)) \in Seq(X)
           /\ Len(SubSeq(d, x, Len(d))) = Len(d) + 1 - x
           /\ \A i \in 1..(Len(d) + 1 - x) : SubSeq(d, x, Len(d))[i] = d[x + i - 1]
<1>1. PICK L \in Nat : L = Len(d) /\ DOMAIN d = 1..L
  OBVIOUS
<1>2. \A i \in x..L : d[i] \in X
  BY <1>1
<1>3. /\ SubSeq(d, x, L) \in Seq(X)
      /\ Len(SubSeq(d, x, L)) = IF x <= L THEN L - x + 1 ELSE 0
      /\ \A i \in 1..(L - x + 1) : SubSeq(d, x, L)[i] = d[x + i - 1]
  BY <1>1, <1>2, SubSeqProperties
<1>4. L - x + 1 = L + 1 - x
  BY <1>1
<1> QED
  BY <1>1, <1>3, <1>4

\* Where strings.Index can find a chunk in what is left of a destination.
LEMMA OccurrencesAre ==
    ASSUME NEW X, NEW d \in Seq(X), NEW c \in Seq(X), NEW x \in Int, 1 <= x, x <= Len(d) + 1
    PROVE  Occurrences(SubSeq(d, x, Len(d)), c) = {i \in Nat : OccursAt(d, c, x + i)}
<1>0. PICK r \in Seq(X) : r = SubSeq(d, x, Len(d))
  BY RestIs
<1>1. PICK L \in Nat, l \in Nat : L = Len(d) /\ l = Len(c) /\ r = SubSeq(d, x, L)
  BY <1>0
<1>2. Len(r) = L + 1 - x /\ \A i \in 1..(L + 1 - x) : r[i] = d[x + i - 1]
  BY <1>1, RestIs
<1>3. ASSUME NEW i \in Nat, i + l <= L + 1 - x
      PROVE  SubSeq(r, i + 1, i + l) = c <=> OccursAt(d, c, x + i)
  <2>1. (i + 1) + l - 1 = i + l /\ i + 1 \in Int /\ 1 <= i + 1 /\ (i + 1) + l <= (L + 1 - x) + 1
    BY <1>3
  <2>2. SubSeq(r, i + 1, i + l) = c <=> \A y \in 1..l : r[(i + 1) + y - 1] = c[y]
    <3>1. PICK j \in Int : j = i + 1
      OBVIOUS
    <3>2. 1 <= j /\ j + Len(c) <= Len(r) + 1
      BY <1>1, <1>2, <2>1, <3>1
    <3>3. SubSeq(r, j, j + Len(c) - 1) = c <=> \A y \in 1..Len(c) : r[j + y - 1] = c[y]
      BY <3>2, PlaceIs
    <3> QED
      BY <1>1, <2>1, <3>1, <3>3
  <2>3. ASSUME NEW y \in 1..l PROVE r[(i + 1) + y - 1] = d[(x + i) + y - 1]
    <3>1. i + y \in 1..(L + 1 - x) /\ (i + 1) + y - 1 = i + y /\ x + (i + y) - 1 = (x + i) + y - 1
      BY <1>3
    <3> QED
      BY <1>2, <3>1
  <2>4. (x + i) + l <= L + 1
    BY <1>1, <1>3
  <2>5. (\A y \in 1..l : r[(i + 1) + y - 1] = c[y]) <=> \A y \in 1..l : d[(x + i) + y - 1] = c[y]
    BY <2>3
  <2> QED
    BY <1>1, <2>2, <2>4, <2>5 DEF OccursAt
<1>4. \A i \in 0..((L + 1 - x) - l) : i \in Nat /\ i + l <= L + 1 - x
  BY <1>1
<1>5. ASSUME NEW i \in Nat, OccursAt(d, c, x + i)
      PROVE  i \in 0..((L + 1 - x) - l) /\ i + l <= L + 1 - x
  <2>1. (x + i) + l <= L + 1
    BY <1>1, <1>5 DEF OccursAt
  <2> QED
    BY <1>1, <2>1
<1>6. Occurrences(r, c) = {i \in 0..((L + 1 - x) - l) : SubSeq(r, i + 1, i + l) = c}
  BY <1>1, <1>2 DEF Occurrences
<1>7. Occurrences(r, c) = {i \in Nat : OccursAt(d, c, x + i)}
  BY <1>3, <1>4, <1>5, <1>6
<1> QED
  BY <1>1, <1>7

\* What is left after the chunk that was found.
LEMMA AfterIs ==
    ASSUME NEW X, NEW d \in Seq(X), NEW c \in Seq(X), NEW x \in Int, 1 <= x, x <= Len(d) + 1,
           NEW i \in Nat, x + i + Len(c) <= Len(d) + 1
    PROVE  After(SubSeq(d, x, Len(d)), c, i) = SubSeq(d, x + i + Len(c), Len(d))
<1>0. PICK r \in Seq(X) : r = SubSeq(d, x, Len(d))
  BY RestIs
<1>1. PICK L \in Nat, l \in Nat : L = Len(d) /\ l = Len(c) /\ r = SubSeq(d, x, L)
  BY <1>0
<1>2. PICK M \in Nat : M = L + 1 - x
  BY <1>1
<1>3. Len(r) = M /\ \A y \in 1..M : r[y] = d[x + y - 1]
  BY <1>1, <1>2, RestIs
<1>4. PICK z \in Int, w \in Int : z = i + l + 1 /\ w = x + i + l
  OBVIOUS
<1>5. 1 <= z /\ z <= M + 1 /\ 1 <= w /\ w <= L + 1 /\ M + 1 - z = L + 1 - w
  BY <1>1, <1>2, <1>4
<1>6. PICK s \in Seq(X) : s = SubSeq(r, z, M)
  BY <1>3, <1>5, RestIs
<1>7. Len(s) = M + 1 - z /\ \A y \in 1..(M + 1 - z) : s[y] = r[z + y - 1]
  BY <1>3, <1>5, <1>6, RestIs
<1>8. PICK t \in Seq(X) : t = SubSeq(d, w, L)
  BY <1>1, <1>5, RestIs
<1>9. Len(t) = L + 1 - w /\ \A y \in 1..(L + 1 - w) : t[y] = d[w + y - 1]
  BY <1>1, <1>5, <1>8, RestIs
<1>10. ASSUME NEW y \in 1..(M + 1 - z) PROVE s[y] = t[y]
  <2>1. z + y - 1 \in 1..M /\ x + (z + y - 1) - 1 = w + y - 1
    BY <1>4, <1>5
  <2>2. s[y] = d[x + (z + y - 1) - 1]
    BY <1>3, <1>7, <2>1
  <2>3. t[y] = d[w + y - 1]
    BY <1>5, <1>9
  <2> QED
    BY <2>1, <2>2, <2>3
<1>11. s = t
  BY <1>5, <1>7, <1>9, <1>10, SeqEqual
<1> QED
  BY <1>1, <1>3, <1>4, <1>6, <1>8, <1>11 DEF After

\* strings.HasPrefix and strings.HasSuffix.
LEMMA PrefixIs ==
    ASSUME NEW X, NEW d \in Seq(X), NEW c \in Seq(X)
    PROVE  IsPrefix(c, d) <=> OccursAt(d, c, 1)
<1>1. PICK L \in Nat, l \in Nat : L = Len(d) /\ l = Len(c)
  OBVIOUS
<1>2. 1 + l - 1 = l /\ 1 + l <= l + 1
  OBVIOUS
<1>3. SubSeq(c, 1, l) = c
  <2>1. \A x \in 1..l : c[1 + x - 1] = c[x]
    BY <1>1
  <2> QED
    BY <1>1, <1>2, <2>1, PlaceIs
<1>4. l <= L => (SubSeq(d, 1, l) = c <=> \A x \in 1..l : d[1 + x - 1] = c[x])
  BY <1>1, <1>2, PlaceIs
<1>5. l <= L <=> 1 + l <= L + 1
  BY <1>1
<1> QED
  BY <1>1, <1>3, <1>4, <1>5 DEF IsPrefix, OccursAt

LEMMA SuffixIs ==
    ASSUME NEW X, NEW d \in Seq(X), NEW c \in Seq(X)
    PROVE  IsSuffix(c, d) <=> Len(c) <= Len(d) /\ OccursAt(d, c, Len(d) + 1 - Len(c))
<1>1. PICK L \in Nat, l \in Nat : L = Len(d) /\ l = Len(c) /\ DOMAIN d = 1..L /\ DOMAIN c = 1..l
  OBVIOUS
<1>2. PICK rd : rd = Reverse(d)
  OBVIOUS
<1>3. PICK rc : rc = Reverse(c)
  OBVIOUS
<1>4. rd \in Seq(X) /\ Len(rd) = L /\ \A y \in 1..L : rd[y] = d[L - y + 1]
  BY <1>1, <1>2 DEF Reverse
<1>5. rc \in Seq(X) /\ Len(rc) = l /\ \A y \in 1..l : rc[y] = c[l - y + 1]
  BY <1>1, <1>3 DEF Reverse
<1>6. IsSuffix(c, d) <=> 1 + l <= L + 1 /\ \A y \in 1..l : rd[1 + y - 1] = rc[y]
  <2>1. IsSuffix(c, d) <=> OccursAt(rd, rc, 1)
    BY <1>2, <1>3, <1>4, <1>5, PrefixIs DEF IsSuffix
  <2> QED
    BY <1>4, <1>5, <2>1 DEF OccursAt
<1>7. ASSUME l <= L
      PROVE  (\A y \in 1..l : rd[1 + y - 1] = rc[y]) <=> \A x \in 1..l : d[(L + 1 - l) + x - 1] = c[x]
  <2>1. ASSUME \A y \in 1..l : rd[1 + y - 1] = rc[y], NEW x \in 1..l
        PROVE  d[(L + 1 - l) + x - 1] = c[x]
    <3>1. PICK y \in 1..l : y = l - x + 1
      OBVIOUS
    <3>2. y \in 1..L /\ 1 + y - 1 = y /\ L - y + 1 = (L + 1 - l) + x - 1 /\ l - y + 1 = x
      BY <1>7, <3>1
    <3> QED
      BY <1>4, <1>5, <2>1, <3>1, <3>2
  <2>2. ASSUME \A x \in 1..l : d[(L + 1 - l) + x - 1] = c[x], NEW y \in 1..l
        PROVE  rd[1 + y - 1] = rc[y]
    <3>1. PICK x \in 1..l : x = l - y + 1
      OBVIOUS
    <3>2. y \in 1..L /\ 1 + y - 1 = y /\ L - y + 1 = (L + 1 - l) + x - 1 /\ l - y + 1 = x
      BY <1>7, <3>1
    <3> QED
      BY <1>4, <1>5, <2>2, <3>1, <3>2
  <2> QED
    BY <2>1, <2>2
<1>8. 1 + l <= L + 1 <=> l <= L
  BY <1>1
<1>9. (L + 1 - l) + l <= L + 1
  BY <1>1
<1> QED
  BY <1>1, <1>6, <1>7, <1>8, <1>9 DEF OccursAt

-----------------------------------------------------------------------------
(* The search is where the pattern can be first.                           *)

\* One step of the search, from the x-th character of the destination on: it
\* goes on after the first occurrence of the chunk.
LEMMA SearchStep ==
    ASSUME NEW X, NEW d \in Seq(X), NEW c \in Seq(X), NEW s \in SearchStates(X), s.found,
           NEW x \in Nat, x \in 1..(Len(d) + 1), s.rest = SubSeq(d, x, Len(d))
    PROVE  \/ /\ ~Consume(s, c).found
              /\ \A p \in Nat : p >= x => ~OccursAt(d, c, p)
           \/ /\ Consume(s, c).found
              /\ \E q \in Nat : /\ q >= x /\ OccursAt(d, c, q)
                                /\ \A p \in Nat : p >= x /\ OccursAt(d, c, p) => q <= p
                                /\ Consume(s, c).rest = SubSeq(d, q + Len(c), Len(d))
<1>1. PICK L \in Nat, l \in Nat : L = Len(d) /\ l = Len(c)
  OBVIOUS
<1>2. x \in Int /\ 1 <= x /\ x <= L + 1
  BY <1>1
<1>3. PICK T : T = Occurrences(s.rest, c)
  OBVIOUS
<1>4. T = {i \in Nat : OccursAt(d, c, x + i)}
  BY <1>1, <1>2, <1>3, OccurrencesAre
<1>5. ASSUME NEW p \in Nat, p >= x, OccursAt(d, c, p) PROVE p - x \in T
  <2>1. p - x \in Nat /\ x + (p - x) = p
    BY <1>5
  <2> QED
    BY <1>4, <1>5, <2>1
<1>6. CASE c = <<>>
  <2>1. l = 0
    BY <1>1, <1>6
  <2>2. Consume(s, c) = s
    BY <1>6 DEF Consume
  <2>3. OccursAt(d, c, x) /\ x + l = x
    BY <1>1, <1>2, <2>1 DEF OccursAt
  <2>4. s.rest = SubSeq(d, x + l, Len(d))
    BY <2>3
  <2> QED
    BY <1>1, <2>2, <2>3, <2>4
<1>7. CASE c # <<>> /\ T = {}
  <2>1. Consume(s, c) = [s EXCEPT !.found = FALSE]
    BY <1>3, <1>7 DEF Consume
  <2>2. ~Consume(s, c).found
    BY <2>1 DEF SearchStates
  <2> QED
    BY <1>5, <1>7, <2>2
<1>8. CASE c # <<>> /\ T # {}
  <2>1. T \subseteq Nat
    BY <1>4
  <2>2. PICK i : i = CHOOSE m \in T : \A n \in T : m <= n
    OBVIOUS
  <2>3. i \in T /\ \A n \in T : i <= n
    <3>1. \E m \in T : \A n \in T : m <= n
      BY <1>8, <2>1, LeastElement
    <3> QED
      BY <2>2, <3>1
  <2>4. i \in Nat /\ OccursAt(d, c, x + i)
    BY <1>4, <2>3
  <2>5. x + i + l <= L + 1
    BY <1>1, <2>4 DEF OccursAt
  <2>6. After(s.rest, c, i) = SubSeq(d, x + i + l, L)
    BY <1>1, <1>2, <2>4, <2>5, AfterIs
  <2>7. Consume(s, c) = [s EXCEPT !.rest = After(s.rest, c, i)]
    BY <1>3, <1>8, <2>2 DEF Consume
  <2>8. Consume(s, c).found /\ Consume(s, c).rest = SubSeq(d, x + i + l, L)
    BY <2>6, <2>7 DEF SearchStates
  <2>9. PICK q \in Nat : q = x + i
    BY <2>4
  <2>10. ASSUME NEW p \in Nat, p >= x, OccursAt(d, c, p) PROVE q <= p
    <3>1. p - x \in T
      BY <1>5, <2>10
    <3>2. i <= p - x
      BY <2>3, <3>1
    <3> QED
      BY <2>4, <2>9, <3>2
  <2>11. q >= x /\ OccursAt(d, c, q) /\ Consume(s, c).rest = SubSeq(d, q + l, L)
    BY <2>4, <2>8, <2>9
  <2> QED
    BY <1>1, <2>8, <2>10, <2>11
<1> QED
  BY <1>6, <1>7, <1>8

\* A search that failed stays so.
LEMMA SearchFailed ==
    ASSUME NEW s, NEW c, ~s.found
    PROVE  Consume(s, c) = s
BY DEF Consume

\* The places before the k-th chunk.
PlacesBefore(at, st, k) == at[st[k] - 1]

\* The places after an occurrence of a chunk and any characters.
Onward(places, c, d) ==
    {j \in 1..(Len(d) + 1) : \E p \in places : OccursAt(d, c, p) /\ p + Len(c) <= j}

\* The places before the next chunk: a star follows the occurrences.
LEMMA NextPlaces ==
    ASSUME NEW X, NEW pattern \in Seq(X), NEW dest \in Seq(X), NEW at, Reached(at, pattern, dest),
           NEW chunks, NEW st, Chunked(chunks, st, Len(pattern), pattern),
           Len(chunks) \in Nat, NEW k \in Nat, k \in 1..(Len(chunks) - 1), chunks[k] \in Seq(X)
    PROVE  PlacesBefore(at, st, k + 1) = Onward(PlacesBefore(at, st, k), chunks[k], dest)
<1>0. PICK m \in Nat : m = Len(chunks)
  OBVIOUS
<1>3. PICK c \in Seq(X) : c = chunks[k]
  OBVIOUS
<1>1. PICK n \in Nat, L \in Nat, l \in Nat :
        n = Len(pattern) /\ L = Len(dest) /\ l = Len(c)
  OBVIOUS
<1>2. k \in 1..m /\ k + 1 \in 1..m
  BY <1>0
<1>4. /\ st[k] \in 1..(n + 1) /\ st[k + 1] \in 1..(n + 1)
      /\ st[k + 1] = st[k] + l + 1 /\ pattern[st[k] + l] = Star
      /\ Literally(c, pattern, st[k])
  BY <1>0, <1>1, <1>2, <1>3 DEF Chunked
<1>5. PICK a \in Nat : a = st[k] - 1
  BY <1>4
<1>6. st[k] = a + 1 /\ a + l <= n /\ a + l + 1 \in 1..n /\ (a + l + 1) - 1 = a + l
      /\ st[k + 1] - 1 = a + l + 1 /\ st[k] + l = a + l + 1
  <2>1. PICK u \in Nat : u = st[k] /\ u >= 1
    BY <1>4
  <2>2. PICK v \in Nat : v = st[k + 1] /\ v <= n + 1
    BY <1>4
  <2>3. a = u - 1 /\ v = u + l + 1 /\ v <= n + 1
    BY <1>4, <1>5, <2>1, <2>2
  <2>4. u = a + 1
    BY <2>3
  <2>5. u + l = a + l + 1
    BY <2>3
  <2>6. v - 1 = a + l + 1
    BY <2>3
  <2>7. a + l + 1 \in 1..n
    BY <2>3
  <2>8. (a + l + 1) - 1 = a + l
    OBVIOUS
  <2>9. a + l <= n
    BY <2>7
  <2> QED
    BY <2>1, <2>2, <2>4, <2>5, <2>6, <2>7, <2>8, <2>9, Zenon
<1>7. PICK A : A = at[a]
  OBVIOUS
<1>8. A \subseteq 1..(L + 1) /\ at[a + l] \subseteq 1..(L + 1)
  <2>1. a \in 0..n /\ a + l \in 0..n
    BY <1>6
  <2> QED
    BY <1>1, <1>7, <2>1 DEF Reached
<1>9. \A j \in Int : j \in at[a + l] <=> j - l \in A /\ OccursAt(dest, c, j - l)
  <2>1. a + Len(c) <= Len(pattern) /\ Literally(c, pattern, a + 1)
    BY <1>1, <1>4, <1>6
  <2> QED
    BY <1>1, <1>7, <2>1, ChunkReached
<1>10. at[a + l + 1] = {j \in 1..(L + 1) : \E e \in at[a + l] : e <= j}
  <2>1. at[a + l + 1] = AfterChar(at[a + l], pattern[a + l + 1], dest)
    BY <1>1, <1>6 DEF Reached
  <2> QED
    BY <1>1, <1>4, <1>6, <2>1 DEF AfterChar
<1>11. ASSUME NEW j \in 1..(L + 1)
       PROVE  (\E e \in at[a + l] : e <= j) <=> \E p \in A : OccursAt(dest, c, p) /\ p + l <= j
  <2>1. ASSUME NEW e \in at[a + l], e <= j
        PROVE  \E p \in A : OccursAt(dest, c, p) /\ p + l <= j
    <3>1. e \in Int
      BY <1>8
    <3>2. e - l \in A /\ OccursAt(dest, c, e - l)
      BY <1>9, <3>1
    <3>3. (e - l) + l <= j
      BY <2>1, <3>1
    <3> QED
      BY <3>2, <3>3
  <2>2. ASSUME NEW p \in A, OccursAt(dest, c, p), p + l <= j
        PROVE  \E e \in at[a + l] : e <= j
    <3>1. p \in Int
      BY <1>8
    <3>2. p + l \in Int /\ (p + l) - l = p
      BY <3>1
    <3>3. p + l \in at[a + l]
      BY <1>9, <2>2, <3>2
    <3> QED
      BY <2>2, <3>3
  <2> QED
    BY <2>1, <2>2
<1>12. at[a + l + 1] = {j \in 1..(L + 1) : \E p \in A : OccursAt(dest, c, p) /\ p + l <= j}
  BY <1>10, <1>11
<1>13. PlacesBefore(at, st, k) = A /\ PlacesBefore(at, st, k + 1) = at[a + l + 1]
  BY <1>5, <1>6, <1>7 DEF PlacesBefore
<1> QED
  BY <1>1, <1>3, <1>12, <1>13 DEF Onward

\* The end is reached when the last chunk ends the destination.
LEMMA EndReached ==
    ASSUME NEW X, NEW pattern \in Seq(X), NEW dest \in Seq(X), NEW at, Reached(at, pattern, dest),
           NEW chunks, NEW st, Chunked(chunks, st, Len(pattern), pattern),
           NEW m \in Nat, m = Len(chunks), NEW c \in Seq(X), c = chunks[m]
    PROVE  Len(dest) + 1 \in at[Len(pattern)] <=>
              /\ Len(dest) + 1 - Len(c) \in PlacesBefore(at, st, m)
              /\ OccursAt(dest, c, Len(dest) + 1 - Len(c))
<1>1. PICK n \in Nat, L \in Nat, l \in Nat :
        n = Len(pattern) /\ L = Len(dest) /\ l = Len(c)
  OBVIOUS
<1>2. m \in 1..m
  BY <1>1 DEF Chunked
<1>3. st[m] \in 1..(n + 1) /\ Literally(c, pattern, st[m]) /\ st[m] + l = n + 1
  BY <1>1, <1>2 DEF Chunked
<1>4. PICK a \in Nat : a = st[m] - 1
  BY <1>3
<1>5. st[m] = a + 1 /\ a + l = n /\ a + l <= n
  <2>1. PICK u \in Nat : u = st[m] /\ u >= 1
    BY <1>3
  <2>2. a = u - 1 /\ u + l = n + 1
    BY <1>3, <1>4, <2>1
  <2>3. u = a + 1
    BY <2>2
  <2>4. a + l = n
    BY <2>2
  <2>5. a + l <= n
    BY <2>4
  <2> QED
    BY <2>1, <2>3, <2>4, <2>5, Zenon
<1>6. \A j \in Int : j \in at[a + l] <=> j - l \in at[a] /\ OccursAt(dest, c, j - l)
  <2>1. a + Len(c) <= Len(pattern) /\ Literally(c, pattern, a + 1)
    BY <1>1, <1>3, <1>5
  <2> QED
    BY <1>1, <2>1, ChunkReached
<1>7. L + 1 \in Int
  OBVIOUS
<1>8. L + 1 \in at[n] <=> (L + 1) - l \in at[a] /\ OccursAt(dest, c, (L + 1) - l)
  BY <1>5, <1>6, <1>7
<1>9. PlacesBefore(at, st, m) = at[a]
  BY <1>4 DEF PlacesBefore
<1>10. Len(dest) + 1 = L + 1 /\ Len(dest) + 1 - Len(c) = (L + 1) - l
  BY <1>1
<1> QED
  BY <1>1, <1>8, <1>9, <1>10

\* What the search has left and where the pattern can be, before a chunk: from
\* the place the search is at on, or nowhere when it failed.
Agrees(s, places, anchored, d) ==
    IF anchored /\ s.found
      THEN \E x \in 1..(Len(d) + 1) : s.rest = SubSeq(d, x, Len(d)) /\ places = x..(Len(d) + 1)
      ELSE places = {}

\* A chunk and the star after it.
LEMMA StarStep ==
    ASSUME NEW X, NEW d \in Seq(X), NEW c \in Seq(X), NEW s \in SearchStates(X), NEW anchored \in BOOLEAN,
           NEW places, Agrees(s, places, anchored, d)
    PROVE  Agrees(Consume(s, c), Onward(places, c, d), anchored, d)
<1>0. PICK later :
        later = {j \in 1..(Len(d) + 1) : \E p \in places : OccursAt(d, c, p) /\ p + Len(c) <= j}
  OBVIOUS
<1>1. PICK L \in Nat, l \in Nat : L = Len(d) /\ l = Len(c)
  OBVIOUS
<1>2. ASSUME ~(anchored /\ s.found) PROVE Agrees(Consume(s, c), later, anchored, d)
  <2>1. places = {}
    BY <1>2 DEF Agrees
  <2>2. later = {}
    BY <1>0, <2>1
  <2>3. ~(anchored /\ Consume(s, c).found)
    BY <1>2, SearchFailed
  <2> QED
    BY <2>2, <2>3 DEF Agrees
<1>3. ASSUME anchored, s.found PROVE Agrees(Consume(s, c), later, anchored, d)
  <2>1. PICK x \in 1..(L + 1) : s.rest = SubSeq(d, x, L) /\ places = x..(L + 1)
    BY <1>1, <1>3 DEF Agrees
  <2>2. x \in Nat /\ x \in 1..(Len(d) + 1) /\ s.rest = SubSeq(d, x, Len(d))
    BY <1>1, <2>1
  <2>3. \A p \in places : p \in Nat /\ p >= x
    BY <2>1
  <2>4. ASSUME ~Consume(s, c).found, \A p \in Nat : p >= x => ~OccursAt(d, c, p)
        PROVE  Agrees(Consume(s, c), later, anchored, d)
    <3>1. later = {}
      BY <1>0, <2>3, <2>4
    <3> QED
      BY <2>4, <3>1 DEF Agrees
  <2>5. ASSUME Consume(s, c).found,
               NEW q \in Nat, q >= x, OccursAt(d, c, q),
               \A p \in Nat : p >= x /\ OccursAt(d, c, p) => q <= p,
               Consume(s, c).rest = SubSeq(d, q + Len(c), Len(d))
        PROVE  Agrees(Consume(s, c), later, anchored, d)
    <3>1. q + l <= L + 1
      BY <1>1, <2>5 DEF OccursAt
    <3>2. PICK y \in Nat : y = q + l
      OBVIOUS
    <3>3. y \in 1..(L + 1) /\ q \in x..(L + 1)
      BY <2>1, <2>5, <3>1, <3>2
    <3>4. ASSUME NEW j \in 1..(L + 1), NEW p \in places, OccursAt(d, c, p), p + l <= j
          PROVE  j \in y..(L + 1)
      <4>1. p \in Nat /\ q <= p
        BY <2>3, <2>5, <3>4
      <4> QED
        BY <3>2, <3>4, <4>1
    <3>5. ASSUME NEW j \in y..(L + 1)
          PROVE  /\ j \in 1..(L + 1)
                 /\ \E p \in places : OccursAt(d, c, p) /\ p + l <= j
      <4>1. q \in places /\ q + l <= j
        BY <2>1, <3>2, <3>3
      <4>2. j \in 1..(L + 1)
        BY <3>3
      <4> QED
        BY <2>5, <4>1, <4>2
    <3>6. later = y..(L + 1)
      <4>1. later = {j \in 1..(L + 1) : \E p \in places : OccursAt(d, c, p) /\ p + l <= j}
        BY <1>0, <1>1
      <4> QED
        BY <3>4, <3>5, <4>1
    <3>7. Consume(s, c).rest = SubSeq(d, y, L)
      BY <1>1, <2>5, <3>2
    <3>8. \E z \in 1..(Len(d) + 1) :
             Consume(s, c).rest = SubSeq(d, z, Len(d)) /\ later = z..(Len(d) + 1)
      BY <1>1, <3>3, <3>6, <3>7
    <3> QED
      BY <1>3, <2>5, <3>8 DEF Agrees
  <2> QED
    BY <1>3, <2>2, <2>4, <2>5, SearchStep
<1> QED
  BY <1>0, <1>2, <1>3 DEF Onward

\* The first chunk, which is anchored, and the star after it.
LEMMA FirstStar ==
    ASSUME NEW X, NEW d \in Seq(X), NEW c \in Seq(X), NEW first,
           first = [found |-> TRUE, rest |-> d]
    PROVE  Agrees(Consume(first, c), Onward({1}, c, d), IsPrefix(c, d), d)
<1>0. PICK later :
        later = {j \in 1..(Len(d) + 1) : \E p \in {1} : OccursAt(d, c, p) /\ p + Len(c) <= j}
  OBVIOUS
<1>1. PICK L \in Nat, l \in Nat : L = Len(d) /\ l = Len(c)
  OBVIOUS
<1>2. PICK s \in SearchStates(X) : s = first /\ s = [found |-> TRUE, rest |-> d]
  BY DEF SearchStates
<1>3. s.found /\ s.rest = d
  BY <1>2
<1>4. IsPrefix(c, d) <=> OccursAt(d, c, 1)
  BY PrefixIs
<1>5. ASSUME ~IsPrefix(c, d) PROVE Agrees(Consume(s, c), later, IsPrefix(c, d), d)
  <2>1. later = {}
    BY <1>0, <1>4, <1>5
  <2> QED
    BY <1>5, <2>1 DEF Agrees
<1>6. ASSUME IsPrefix(c, d) PROVE Agrees(Consume(s, c), later, IsPrefix(c, d), d)
  <2>1. OccursAt(d, c, 1)
    BY <1>4, <1>6
  <2>2. 1 + l <= L + 1
    BY <1>1, <2>1 DEF OccursAt
  <2>3. SubSeq(d, 1, L) = d
    <3>1. \A x \in 1..L : d[1 + x - 1] = d[x]
      BY <1>1
    <3>2. 1 + L - 1 = L /\ 1 + L <= L + 1
      OBVIOUS
    <3> QED
      BY <1>1, <3>1, <3>2, PlaceIs
  <2>4. 1 \in Nat /\ 1 \in 1..(Len(d) + 1) /\ s.rest = SubSeq(d, 1, Len(d))
    BY <1>1, <1>3, <2>3
  <2>5. Consume(s, c).found /\ Consume(s, c).rest = SubSeq(d, 1 + l, L)
    <3>1. CASE ~Consume(s, c).found /\ \A p \in Nat : p >= 1 => ~OccursAt(d, c, p)
      BY <2>1, <3>1
    <3>2. ASSUME Consume(s, c).found,
                 NEW q \in Nat, q >= 1, OccursAt(d, c, q),
                 \A p \in Nat : p >= 1 /\ OccursAt(d, c, p) => q <= p,
                 Consume(s, c).rest = SubSeq(d, q + Len(c), Len(d))
          PROVE  Consume(s, c).found /\ Consume(s, c).rest = SubSeq(d, 1 + l, L)
      <4>1. q <= 1
        BY <2>1, <3>2
      <4>2. q = 1
        BY <3>2, <4>1
      <4> QED
        BY <1>1, <3>2, <4>2
    <3>3. PICK x \in Nat : x = 1
      OBVIOUS
    <3>4. x \in 1..(Len(d) + 1) /\ s.rest = SubSeq(d, x, Len(d))
      BY <2>4, <3>3
    <3>5. \/ /\ ~Consume(s, c).found
             /\ \A p \in Nat : p >= x => ~OccursAt(d, c, p)
          \/ /\ Consume(s, c).found
             /\ \E q \in Nat : /\ q >= x /\ OccursAt(d, c, q)
                               /\ \A p \in Nat : p >= x /\ OccursAt(d, c, p) => q <= p
                               /\ Consume(s, c).rest = SubSeq(d, q + Len(c), Len(d))
      <4>1. s.found
        BY <1>3
      <4> QED
        BY <3>4, <4>1, SearchStep
    <3> QED
      BY <3>1, <3>2, <3>3, <3>5
  <2>6. PICK y \in Nat : y = 1 + l
    OBVIOUS
  <2>7. y \in 1..(L + 1)
    BY <2>2, <2>6
  <2>8. later = y..(L + 1)
    <3>1. later = {j \in 1..(L + 1) : 1 + l <= j}
      BY <1>0, <1>1, <2>1
    <3> QED
      BY <2>6, <2>7, <3>1
  <2>9. \E z \in 1..(Len(d) + 1) :
           Consume(s, c).rest = SubSeq(d, z, Len(d)) /\ later = z..(Len(d) + 1)
    BY <1>1, <2>5, <2>6, <2>7, <2>8
  <2> QED
    BY <1>6, <2>5, <2>9 DEF Agrees
<1> QED
  BY <1>0, <1>2, <1>5, <1>6 DEF Onward

\* The last chunk: the search finds it and the destination ends with it just
\* when it ends the destination at a place the search allows.
LEMMA LastChunk ==
    ASSUME NEW X, NEW d \in Seq(X), NEW c \in Seq(X), NEW s \in SearchStates(X), NEW anchored \in BOOLEAN,
           NEW places, Agrees(s, places, anchored, d)
    PROVE  anchored /\ IsSuffix(c, d) /\ Consume(s, c).found <=>
              /\ Len(d) + 1 - Len(c) \in places
              /\ OccursAt(d, c, Len(d) + 1 - Len(c))
<1>1. PICK L \in Nat, l \in Nat : L = Len(d) /\ l = Len(c)
  OBVIOUS
<1>2. PICK e \in Int : e = L + 1 - l
  OBVIOUS
<1>3. IsSuffix(c, d) <=> l <= L /\ OccursAt(d, c, e)
  BY <1>1, <1>2, SuffixIs
<1>4. CASE ~(anchored /\ s.found)
  <2>1. places = {}
    BY <1>4 DEF Agrees
  <2>2. ~(anchored /\ Consume(s, c).found)
    BY <1>4, SearchFailed
  <2> QED
    BY <2>1, <2>2
<1>5. CASE anchored /\ s.found
  <2>1. PICK x \in 1..(L + 1) : s.rest = SubSeq(d, x, L) /\ places = x..(L + 1)
    BY <1>1, <1>5 DEF Agrees
  <2>2. x \in Nat /\ x >= 1 /\ x \in 1..(Len(d) + 1) /\ s.rest = SubSeq(d, x, Len(d))
    BY <1>1, <2>1
  <2>3. e \in places <=> x <= e
    BY <1>2, <2>1
  <2>4. CASE ~Consume(s, c).found /\ \A p \in Nat : p >= x => ~OccursAt(d, c, p)
    <3>1. ~(e \in places /\ OccursAt(d, c, e))
      <4>1. x <= e => e \in Nat
        BY <2>2
      <4> QED
        BY <2>3, <2>4, <4>1
    <3> QED
      BY <1>1, <1>2, <2>4, <3>1
  <2>5. ASSUME Consume(s, c).found, NEW q \in Nat, q >= x, OccursAt(d, c, q)
        PROVE  anchored /\ IsSuffix(c, d) /\ Consume(s, c).found <=> e \in places /\ OccursAt(d, c, e)
    <3>1. q + l <= L + 1
      BY <1>1, <2>5 DEF OccursAt
    <3>2. x <= e
      BY <1>2, <2>2, <2>5, <3>1
    <3>3. l <= L
      BY <1>2, <2>2, <3>2
    <3> QED
      BY <1>3, <1>5, <2>3, <2>5, <3>2, <3>3
  <2>6. anchored /\ IsSuffix(c, d) /\ Consume(s, c).found <=> e \in places /\ OccursAt(d, c, e)
    <3>1. CASE ~Consume(s, c).found /\ \A p \in Nat : p >= x => ~OccursAt(d, c, p)
      BY <1>1, <1>2, <2>4, <3>1
    <3>2. CASE Consume(s, c).found /\ \E q \in Nat : q >= x /\ OccursAt(d, c, q)
      BY <2>5, <3>2
    <3> QED
      BY <1>5, <2>2, <3>1, <3>2, SearchStep
  <2> QED
    BY <1>1, <1>2, <2>6
<1> QED
  BY <1>4, <1>5

-----------------------------------------------------------------------------
LEMMA Alone ==
    ASSUME NEW X, NEW x \in X
    PROVE  <<x>> \in Seq(X) /\ Len(<<x>>) = 1 /\ <<x>>[1] = x
OBVIOUS

\* match takes a destination exactly when the pattern, read as one with
\* wildcards, takes it, or when it has no wildcard and the destination begins
\* and ends with it.
THEOREM MatchesAreGlobs ==
    ASSUME NEW X, NEW pattern \in Seq(X), NEW dest \in Seq(X)
    PROVE  Match(pattern, dest) <=>
              \/ Glob(pattern, dest)
              \/ /\ \A i \in DOMAIN pattern : pattern[i] # Star
                 /\ IsPrefix(pattern, dest) /\ IsSuffix(pattern, dest)
<1>1. PICK chunks \in Seq(Seq(X)) : chunks = Split(pattern)
  BY SplitChunks
<1>2. PICK st : Chunked(chunks, st, Len(pattern), pattern)
  BY <1>1, SplitChunks
<1>3. PICK m \in Nat, n \in Nat, L \in Nat :
        m = Len(chunks) /\ n = Len(pattern) /\ L = Len(dest) /\ DOMAIN chunks = 1..m
  OBVIOUS
<1>4. m >= 1 /\ st[1] = 1 /\ 1 \in 1..m /\ m \in 1..m
  BY <1>2, <1>3 DEF Chunked
<1>5. PICK g : /\ g[0] = [found |-> TRUE, rest |-> dest]
               /\ \A k \in 1..m : g[k] = Consume(g[k - 1], chunks[k])
               /\ \A k \in 0..m : g[k] \in SearchStates(X)
               /\ ChunksInOrder(pattern, dest) = g[m].found
  <2>1. Split(pattern) \in Seq(Seq(X))
    BY <1>1
  <2>2. PICK f : /\ Searched(f, Split(pattern), dest, X)
                 /\ ChunksInOrder(pattern, dest) = f[Len(Split(pattern))].found
    BY <2>1, ConsumeSteps
  <2>3. Searched(f, chunks, dest, X) /\ ChunksInOrder(pattern, dest) = f[m].found
    BY <1>1, <1>3, <2>2
  <2> QED
    BY <1>3, <2>3 DEF Searched
<1>6. PICK at : /\ Reached(at, pattern, dest)
                /\ Glob(pattern, dest) = (L + 1 \in at[n])
  BY <1>3, GlobReached
<1>7. PICK first \in Seq(X), last \in Seq(X) : first = chunks[1] /\ last = chunks[m]
  <2>1. chunks[1] \in Seq(X) /\ chunks[m] \in Seq(X)
    BY <1>3, <1>4
  <2> QED
    BY <2>1
<1>8. PICK anchored \in BOOLEAN : anchored = IsPrefix(first, dest)
  BY DEF IsPrefix
<1>9. StarFirst(pattern) => anchored
  <2> SUFFICES ASSUME StarFirst(pattern) PROVE anchored
    OBVIOUS
  <2>1. n >= 1 /\ pattern[1] = Star
    <3>1. PICK star : star = <<Star>>
      OBVIOUS
    <3>2. Len(star) = 1 /\ star[1] = Star
      BY <3>1
    <3>3. 1 <= n /\ SubSeq(star, 1, 1) = SubSeq(pattern, 1, 1)
      BY <1>3, <3>1, <3>2 DEF StarFirst, IsPrefix
    <3>4. SubSeq(star, 1, 1)[1] = Star
      BY <3>1
    <3>5. SubSeq(pattern, 1, 1)[1] = pattern[1]
      BY <1>3, <3>3
    <3> QED
      BY <3>3, <3>4, <3>5
  <2>2. Literally(first, pattern, 1)
    BY <1>2, <1>3, <1>4, <1>7 DEF Chunked
  <2>3. Len(first) = 0
    <3>1. PICK l \in Nat : l = Len(first)
      OBVIOUS
    <3>2. ASSUME 1 \in 1..l PROVE FALSE
      <4>1. first[1] = pattern[1 + 1 - 1] /\ first[1] # Star
        BY <2>2, <3>1, <3>2 DEF Literally
      <4> QED
        BY <2>1, <4>1
    <3>3. l = 0
      BY <3>2
    <3> QED
      BY <3>1, <3>3
  <2>4. OccursAt(dest, first, 1)
    BY <1>3, <2>3 DEF OccursAt
  <2> QED
    BY <1>8, <2>4, PrefixIs
<1>10. StarLast(pattern) => IsSuffix(last, dest)
  <2> SUFFICES ASSUME StarLast(pattern) PROVE IsSuffix(last, dest)
    OBVIOUS
  <2>1. n >= 1 /\ pattern[n] = Star
    <3>1. PICK Y : Y = X \cup {Star}
      OBVIOUS
    <3>2. PICK star \in Seq(Y) : star = <<Star>> /\ Len(star) = 1 /\ star[1] = Star
      <4>1. Star \in Y
        BY <3>1
      <4> QED
        BY <4>1, Alone, Zenon
    <3>3. Len(star) = 1 /\ star[1] = Star
      BY <3>2
    <3>4. pattern \in Seq(Y)
      BY <3>1
    <3>5. IsSuffix(star, pattern)
      BY <3>2 DEF StarLast
    <3>6. 1 <= n /\ OccursAt(pattern, star, n + 1 - 1)
      BY <1>3, <3>3, <3>4, <3>5, SuffixIs
    <3>7. n + 1 - 1 = n /\ n + 1 - 1 + 1 - 1 = n /\ 1 \in 1..1
      OBVIOUS
    <3> QED
      BY <3>3, <3>6, <3>7 DEF OccursAt
  <2>2. Literally(last, pattern, st[m]) /\ st[m] \in 1..(n + 1) /\ st[m] + Len(last) = n + 1
    BY <1>2, <1>3, <1>4, <1>7 DEF Chunked
  <2>3. Len(last) = 0
    <3>1. PICK l \in Nat : l = Len(last)
      OBVIOUS
    <3>2. ASSUME l \in 1..l PROVE FALSE
      <4>1. last[l] = pattern[st[m] + l - 1] /\ last[l] # Star
        BY <2>2, <3>1, <3>2 DEF Literally
      <4>2. PICK b \in Nat : b = st[m]
        BY <2>2
      <4>3. b + l = n + 1
        BY <2>2, <3>1, <4>2
      <4>4. b + l - 1 = n
        BY <4>3
      <4> QED
        BY <2>1, <4>1, <4>2, <4>4
    <3>3. l = 0
      BY <3>2
    <3> QED
      BY <3>1, <3>3
  <2>4. L + 1 - 0 = L + 1 /\ 0 <= L
    OBVIOUS
  <2>5. OccursAt(dest, last, L + 1)
    BY <1>3, <2>3 DEF OccursAt
  <2> QED
    BY <1>3, <2>3, <2>4, <2>5, SuffixIs
<1>11. Match(pattern, dest) <=> anchored /\ IsSuffix(last, dest) /\ g[m].found
  <2>1. Head(Split(pattern)) = first /\ Last(Split(pattern)) = last
    BY <1>1, <1>3, <1>4, <1>7 DEF Last
  <2> QED
    BY <1>5, <1>8, <1>9, <1>10, <2>1 DEF Match
<1>12. Glob(pattern, dest) <=> /\ L + 1 - Len(last) \in PlacesBefore(at, st, m)
                               /\ OccursAt(dest, last, L + 1 - Len(last))
  <2>1. L + 1 \in at[n] <=> /\ L + 1 - Len(last) \in PlacesBefore(at, st, m)
                            /\ OccursAt(dest, last, L + 1 - Len(last))
    BY <1>2, <1>3, <1>6, <1>7, EndReached
  <2> QED
    BY <1>6, <2>1
<1>13. PlacesBefore(at, st, 1) = {1}
  BY <1>4, <1>6 DEF PlacesBefore, Reached
<1>14. CASE m = 1
  <2>1. last = first /\ g[1] = Consume(g[0], first)
    BY <1>4, <1>5, <1>7, <1>14
  <2>2. Literally(first, pattern, 1) /\ Len(first) = n
    <3>1. Literally(first, pattern, 1) /\ 1 + Len(first) = n + 1
      BY <1>2, <1>3, <1>4, <1>7, <1>14 DEF Chunked
    <3> QED
      BY <3>1
  <2>3. \A i \in 1..n : first[i] = pattern[i] /\ pattern[i] # Star
    <3>1. \A i \in 1..n : first[i] = pattern[1 + i - 1] /\ first[i] # Star
      BY <2>2 DEF Literally
    <3>2. \A i \in 1..n : 1 + i - 1 = i
      OBVIOUS
    <3> QED
      BY <3>1, <3>2
  <2>4. first = pattern
    BY <1>3, <2>2, <2>3, SeqEqual
  <2>5. \A i \in DOMAIN pattern : pattern[i] # Star
    BY <1>3, <2>3
  <2>6. anchored => g[1].found
    <3>2. Agrees(g[1], Onward({1}, first, dest), anchored, dest)
      BY <1>5, <1>8, <2>1, FirstStar
    <3>3. ASSUME anchored PROVE Onward({1}, first, dest) # {}
      <4>1. OccursAt(dest, first, 1)
        BY <1>8, <3>3, PrefixIs
      <4>2. 1 + Len(first) <= L + 1
        BY <1>3, <4>1 DEF OccursAt
      <4>3. L + 1 \in 1..(L + 1)
        OBVIOUS
      <4> QED
        BY <1>3, <4>1, <4>2, <4>3 DEF Onward
    <3> QED
      BY <3>2, <3>3 DEF Agrees
  <2>7. Glob(pattern, dest) => anchored /\ IsSuffix(pattern, dest)
    <3> SUFFICES ASSUME Glob(pattern, dest) PROVE anchored /\ IsSuffix(pattern, dest)
      OBVIOUS
    <3>1. L + 1 - n = 1 /\ OccursAt(dest, first, L + 1 - n)
      BY <1>12, <1>13, <1>14, <2>1, <2>2
    <3>2. n <= L
      BY <1>3, <3>1
    <3> QED
      BY <1>3, <1>8, <2>2, <2>4, <3>1, <3>2, PrefixIs, SuffixIs
  <2> QED
    BY <1>8, <1>11, <1>14, <2>1, <2>4, <2>5, <2>6, <2>7
<1>15. CASE m # 1
  <2>1. ~(\A i \in DOMAIN pattern : pattern[i] # Star)
    <3>1. 1 \in 1..(m - 1) /\ 1 + 1 = 2 /\ 2 \in 1..m
      BY <1>4, <1>15
    <3>2. st[2] = st[1] + Len(first) + 1 /\ pattern[st[1] + Len(first)] = Star /\ st[2] \in 1..(n + 1)
      BY <1>2, <1>3, <1>7, <3>1 DEF Chunked
    <3>3. PICK i \in Nat : i = 1 + Len(first)
      OBVIOUS
    <3>4. i \in 1..n /\ pattern[i] = Star
      BY <1>4, <3>2, <3>3
    <3> QED
      BY <1>3, <3>4
  <2> DEFINE Good(k) == Agrees(g[k], PlacesBefore(at, st, k + 1), anchored, dest)
  <2>3. Good(1)
    <3>1. 1 \in Nat /\ 1 \in 1..(m - 1) /\ m = Len(chunks)
      BY <1>3, <1>4, <1>15
    <3>2. PlacesBefore(at, st, 1 + 1) = Onward({1}, first, dest)
      <4>1. Chunked(chunks, st, Len(pattern), pattern) /\ Reached(at, pattern, dest)
        BY <1>2, <1>6
      <4>2. Len(chunks) \in Nat /\ 1 \in Nat /\ 1 \in 1..(Len(chunks) - 1) /\ chunks[1] \in Seq(X)
        BY <1>3, <3>1
      <4>3. PlacesBefore(at, st, 1 + 1) = Onward(PlacesBefore(at, st, 1), chunks[1], dest)
        BY <4>1, <4>2, NextPlaces
      <4> QED
        BY <1>7, <1>13, <4>3
    <3>3. g[1] = Consume(g[0], first)
      <4>1. g[1] = Consume(g[1 - 1], chunks[1]) /\ 1 - 1 = 0
        BY <1>4, <1>5
      <4> QED
        BY <1>7, <4>1
    <3>4. Agrees(g[1], Onward({1}, first, dest), IsPrefix(first, dest), dest)
      BY <1>5, <3>3, FirstStar
    <3> QED
      BY <1>8, <3>2, <3>4
  <2>4. ASSUME NEW k \in 2..(m - 1), Good(k - 1) PROVE Good(k)
    <3>1. k \in Nat /\ k \in 1..(m - 1) /\ k \in 1..m /\ k - 1 \in 0..m /\ (k - 1) + 1 = k
      OBVIOUS
    <3>2. PICK c \in Seq(X) : c = chunks[k]
      <4>1. chunks[k] \in Seq(X)
        BY <1>3, <3>1
      <4> QED
        BY <4>1
    <3>3. PICK places : places = PlacesBefore(at, st, k)
      OBVIOUS
    <3>9. PICK s \in SearchStates(X) : s = g[k - 1]
      BY <1>5, <3>1
    <3>4. PlacesBefore(at, st, k + 1) = Onward(places, c, dest)
      <4>1. Chunked(chunks, st, Len(pattern), pattern) /\ Reached(at, pattern, dest)
        BY <1>2, <1>6
      <4>2. Len(chunks) \in Nat /\ k \in 1..(Len(chunks) - 1) /\ chunks[k] \in Seq(X)
        BY <1>3, <3>1
      <4>3. PlacesBefore(at, st, k + 1) = Onward(PlacesBefore(at, st, k), chunks[k], dest)
        BY <3>1, <4>1, <4>2, NextPlaces
      <4> QED
        BY <3>2, <3>3, <4>3
    <3>6. g[k] = Consume(s, c)
      BY <1>5, <3>1, <3>2, <3>9
    <3>7. Agrees(s, places, anchored, dest)
      BY <2>4, <3>1, <3>3, <3>9
    <3>8. Agrees(Consume(s, c), Onward(places, c, dest), anchored, dest)
      BY <3>7, StarStep
    <3> QED
      BY <3>4, <3>6, <3>8
  <2> HIDE DEF Good
  <2>5. Good(m - 1)
    <3>1. PICK T : T = {k \in 0..(m - 1) : k = 0 \/ Good(k)}
      OBVIOUS
    <3>2. 0 \in T
      BY <1>4, <3>1
    <3>3. ASSUME NEW k \in 1..(m - 1), k - 1 \in T PROVE k \in T
      <4>1. CASE k = 1
        BY <2>3, <3>1, <4>1
      <4>2. CASE k # 1
        <5>1. k \in 2..(m - 1) /\ k - 1 # 0
          BY <4>2
        <5>2. Good(k - 1)
          BY <3>1, <3>3, <5>1
        <5> QED
          BY <2>4, <3>1, <5>1, <5>2
      <4> QED
        BY <4>1, <4>2
    <3>4. m - 1 \in Nat
      BY <1>4
    <3>5. \A k \in 0..(m - 1) : k \in T
      BY <3>2, <3>3, <3>4, InductionUpTo
    <3>6. m - 1 \in 0..(m - 1) /\ m - 1 # 0
      BY <1>4, <1>15
    <3> QED
      BY <3>1, <3>5, <3>6
  <2>11. PICK places : places = PlacesBefore(at, st, m)
    OBVIOUS
  <2>6. PICK s \in SearchStates(X) : s = g[m - 1]
    <3>1. m - 1 \in 0..m
      BY <1>4
    <3> QED
      BY <1>5, <3>1
  <2>7. Agrees(s, places, anchored, dest)
    <3>1. (m - 1) + 1 = m
      OBVIOUS
    <3> QED
      BY <2>5, <2>6, <2>11, <3>1 DEF Good
  <2>8. g[m] = Consume(s, last)
    BY <1>4, <1>5, <1>7, <2>6
  <2>9. anchored /\ IsSuffix(last, dest) /\ Consume(s, last).found <=>
           /\ Len(dest) + 1 - Len(last) \in places
           /\ OccursAt(dest, last, Len(dest) + 1 - Len(last))
    BY <2>7, LastChunk
  <2>10. Match(pattern, dest) <=> Glob(pattern, dest)
    BY <1>3, <1>11, <1>12, <2>8, <2>9, <2>11
  <2> QED
    BY <2>1, <2>10
<1> QED
  BY <1>14, <1>15
=============================================================================
