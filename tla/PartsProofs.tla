---------------------------- MODULE PartsProofs ----------------------------
(***************************************************************************)
(* Proofs about the small parts: for every text, payload, exchange, ...    *)
(* and not only for those of the runs.  At the end, what that says of the  *)
(* properties of MCParts.                                                  *)
(***************************************************************************)
EXTENDS MCParts, AlgorithmProofs, SequenceTheorems, FiniteSetTheorems, Induction

-----------------------------------------------------------------------------
(* Snippet.                                                                *)

\* Whatever the text, the place of the match and the width, the slice stays in
\* range, so that the search never panics, and the ellipses tell the truth.
THEOREM SnippetsAreWellCut ==
    ASSUME NEW length \in Nat, NEW width \in Nat, NEW at \in Int, at < length
    PROVE  WellCut(length, at, width)
<1> DEFINE s == SnippetAround(length, at, width)
<1>1. CASE length <= width
  BY <1>1 DEF WellCut, SnippetAround
<1>2. CASE length > width /\ at < 0
  BY <1>2 DEF WellCut, SnippetAround
<1>3. CASE length > width /\ at >= 0
  <2> DEFINE from == From(length, at, width)
             to == Upto(length, from, width)
  <2>1. s = [from |-> from, to |-> to, before |-> from > 0, after |-> to < length]
    BY <1>3 DEF SnippetAround
  <2>2. /\ from \in Int /\ to \in Int
        /\ 0 <= from /\ from <= to /\ to <= length /\ to - from = width
    BY <1>3 DEF From, Upto
  <2> HIDE DEF from, to
  <2>3. /\ s.from = from /\ s.to = to
        /\ s.before = (from > 0) /\ s.after = (to < length)
    BY <2>1
  <2> HIDE DEF s
  <2>4. /\ 0 <= s.from /\ s.from <= s.to /\ s.to <= length
        /\ s.to - s.from = (IF length <= width THEN length ELSE width)
    BY <1>3, <2>2, <2>3
  <2>5. (s.before <=> s.from > 0) /\ (s.after <=> s.to < length)
    BY <2>3, Zenon
  <2> QED
    BY <2>4, <2>5, Zenon DEF WellCut, s
<1> QED
  BY <1>1, <1>2, <1>3

\* "so a match deep in a long payload is still visible": true for a keyword of
\* up to half the width, wherever it occurs.
THEOREM MatchesAreShown ==
    ASSUME NEW length \in Nat, NEW width \in Nat, NEW at \in Nat, NEW size \in Nat,
           at + size <= length, 2 * size <= width
    PROVE  ShowsMatch(length, at, size, width)
BY DEF ShowsMatch, SnippetAround, From, Upto

-----------------------------------------------------------------------------
(* Payload.                                                                *)

\* What redaction takes out of a stored payload was warned of, unless the
\* checker has no rule for it or does not look there; no secret that redaction
\* knows is stored, nothing else is lost, and every warning is true (handleSpan
\* scans before it masks).
THEOREM EnrichmentIsSound ==
    ASSUME NEW payload \in [Fields -> SUBSET (Rules \cup Masks)]
    PROVE  /\ WarnedOf(Enriched(payload), payload)
           /\ OnlySecretsMasked(Enriched(payload), payload)
           /\ WarningsTrue(Enriched(payload), payload)
<1>1. /\ Enriched(payload).warnings = Scan(payload)
      /\ \A f \in Fields : Enriched(payload).payload[f] = payload[f] \ Masks
  BY DEF Enriched, Redacted
<1>2. DOMAIN ScanOrder = 1..4 /\ \A i \in 1..4 : ScanOrder[i] \in Fields
  BY DEF ScanOrder, Fields
<1>3. WarnedOf(Enriched(payload), payload)
  <2>1. ASSUME NEW f \in Fields, NEW x \in payload[f], x \in Masks,
               x # "email", f # "response_body"
        PROVE  \E w \in Scan(payload) : w.rule = x
    <3> DEFINE T == {i \in 1..4 : x \in payload[ScanOrder[i]]}
    <3>1. T # {} /\ T \subseteq Nat
      <4>1. /\ ScanOrder[1] = "system_prompt" /\ ScanOrder[2] = "user_prompt"
            /\ ScanOrder[3] = "response" /\ ScanOrder[4] = "request_body"
        BY DEF ScanOrder
      <4>2. PICK i \in 1..4 : f = ScanOrder[i]
        BY <2>1, <4>1 DEF Fields
      <4> QED
        BY <4>2
    <3>2. PICK i \in T : \A j \in T : i <= j
      BY <3>1, LeastElement
    <3>3. x \in Rules
      BY <2>1 DEF Rules, Masks
    <3> PICK w : w = [rule |-> x, field |-> ScanOrder[i]]
      OBVIOUS
    <3>4. w \in [rule : Rules, field : Fields] /\ w.rule = x /\ w.field = ScanOrder[i]
      BY <1>2, <3>3
    <3>5. \A k \in 1..(i - 1) : x \notin payload[ScanOrder[k]]
      BY <3>2
    <3>6. w \in Scan(payload)
      BY <1>2, <3>4, <3>5 DEF Scan
    <3> QED
      BY <3>4, <3>6
  <2> QED
    BY <1>1, <2>1 DEF WarnedOf
<1>4. OnlySecretsMasked(Enriched(payload), payload)
  BY <1>1 DEF OnlySecretsMasked
<1>5. WarningsTrue(Enriched(payload), payload)
  <2>1. ASSUME NEW v \in Scan(payload), NEW w \in Scan(payload), v.rule = w.rule
        PROVE  v.field = w.field
    <3>1. PICK i \in 1..4 : /\ v.field = ScanOrder[i] /\ v.rule \in payload[v.field]
                             /\ \A k \in 1..(i - 1) : v.rule \notin payload[ScanOrder[k]]
      BY <1>2 DEF Scan
    <3>2. PICK j \in 1..4 : /\ w.field = ScanOrder[j] /\ w.rule \in payload[w.field]
                             /\ \A k \in 1..(j - 1) : w.rule \notin payload[ScanOrder[k]]
      BY <1>2 DEF Scan
    <3>3. ~(i < j) /\ ~(j < i)
      BY <2>1, <3>1, <3>2
    <3> QED
      BY <3>1, <3>2, <3>3
  <2>2. Scan(payload) \subseteq [rule : Rules, field : Fields]
    BY DEF Scan
  <2>3. \A v, w \in Scan(payload) : v.rule = w.rule => v = w
    BY <2>1, <2>2
  <2>4. \A w \in Scan(payload) : w.rule \in payload[w.field]
    BY DEF Scan
  <2> QED
    BY <1>1, <2>3, <2>4 DEF WarningsTrue
<1> QED
  BY <1>3, <1>4, <1>5

\* What a page shows after some writes.
Expected(sp, done, n) ==
    IF n = "behavior" THEN IF done \subseteq {"insert"} THEN 0 ELSE sp[n]
    ELSE IF n = "sub_behavior"
         THEN IF done \subseteq {"insert", "insert half labelled"} THEN 0 ELSE sp[n]
    ELSE IF done \cap Inserts = {} THEN 0
    ELSE IF n = "completion_tokens" /\ sp["prompt_tokens"] = 0 THEN 0 ELSE sp[n]
Shows(rows, sp, done) ==
    \A n \in DetailNames : SpanFromDetails(rows)[n] = Expected(sp, done, n)

LEMMA UpsertShown ==
    ASSUME NEW rows, NEW new, NEW n \in DetailNames
    PROVE  SpanFromDetails(Upsert(rows, new))[n] =
              IF n \in DOMAIN new THEN new[n] ELSE SpanFromDetails(rows)[n]
BY DEF Upsert, SpanFromDetails

\* The rows of a span leave out zeros, and the completion tokens without prompt
\* tokens.
LEMMA DetailsOf ==
    ASSUME NEW sp \in [DetailNames -> Nat], NEW n \in DetailNames
    PROVE  /\ n \in DOMAIN SpanDetails(sp) => SpanDetails(sp)[n] = sp[n]
           /\ n \notin DOMAIN SpanDetails(sp) =>
                 sp[n] = 0 \/ (n = "completion_tokens" /\ sp["prompt_tokens"] = 0)
           /\ n = "completion_tokens" /\ sp["prompt_tokens"] = 0 => n \notin DOMAIN SpanDetails(sp)
           /\ n \in LabelNames /\ sp[n] = 0 => n \notin DOMAIN SpanDetails(sp)
<1>1. sp["prompt_tokens"] \in Nat
  BY DEF DetailNames, Tokens
<1>2. n \in DOMAIN SpanDetails(sp) <=>
         \/ n \in AlwaysWritten
         \/ n \in WrittenIfSet \cup LabelNames /\ sp[n] # 0
         \/ n \in Tokens /\ sp["prompt_tokens"] > 0
  BY DEF SpanDetails
<1>3. n \in DOMAIN SpanDetails(sp) => SpanDetails(sp)[n] = sp[n]
  BY DEF SpanDetails
<1>4. n \in LabelNames => n \notin AlwaysWritten /\ n \notin Tokens
  BY DEF LabelNames, AlwaysWritten, Tokens
<1>5. n = "completion_tokens" => n \notin AlwaysWritten /\ n \notin WrittenIfSet \cup LabelNames
  BY DEF LabelNames, AlwaysWritten, WrittenIfSet, Fields
<1>6. n \in Tokens => n = "prompt_tokens" \/ n = "completion_tokens"
  BY DEF Tokens
<1> QED
  BY <1>1, <1>2, <1>3, <1>4, <1>5, <1>6 DEF DetailNames

LEMMA WriteShown ==
    ASSUME NEW sp \in [DetailNames -> Nat], NEW rows, NEW done, NEW w \in Writes,
           Shows(rows, sp, done)
    PROVE  Shows(Write(rows, sp, w), sp, done \cup {w})
<1> SUFFICES ASSUME NEW n \in DetailNames
             PROVE  SpanFromDetails(Write(rows, sp, w))[n] = Expected(sp, done \cup {w}, n)
  BY DEF Shows
<1> DEFINE labels == [l \in LabelNames |-> sp[l]]
           of == CASE w = "insert" -> SpanDetails(Unlabelled(sp))
                   [] w = "insert half labelled" -> SpanDetails(HalfLabelled(sp))
                   [] w = "insert labelled" -> SpanDetails(sp)
                   [] w = "label" -> labels
<1>1. w \in {"insert", "insert half labelled", "insert labelled", "label"}
  BY DEF Writes, Inserts
<1>2. Write(rows, sp, w) = Upsert(rows, of)
  BY <1>1 DEF Write, InsertSpan, UpdateSpanBehavior
<1>3. SpanFromDetails(Write(rows, sp, w))[n] =
         IF n \in DOMAIN of THEN of[n] ELSE Expected(sp, done, n)
  <2>1. \A new : SpanFromDetails(Upsert(rows, new))[n] =
                    IF n \in DOMAIN new THEN new[n] ELSE SpanFromDetails(rows)[n]
    BY UpsertShown
  <2> HIDE DEF of
  <2> QED
    BY <1>2, <2>1 DEF Shows
<1>4. "behavior" \in LabelNames /\ "sub_behavior" \in LabelNames /\ "completion_tokens" \notin LabelNames
      /\ "prompt_tokens" \notin LabelNames
      /\ "sub_behavior" \in DetailNames /\ "prompt_tokens" \in DetailNames
      /\ \A l \in LabelNames : l = "behavior" \/ l = "sub_behavior"
  BY DEF LabelNames, DetailNames, Tokens
<1>5. /\ Unlabelled(sp) \in [DetailNames -> Nat] /\ HalfLabelled(sp) \in [DetailNames -> Nat]
      /\ Unlabelled(sp)[n] = IF n \in LabelNames THEN 0 ELSE sp[n]
      /\ HalfLabelled(sp)[n] = IF n = "sub_behavior" THEN 0 ELSE sp[n]
      /\ Unlabelled(sp)["prompt_tokens"] = sp["prompt_tokens"]
      /\ HalfLabelled(sp)["prompt_tokens"] = sp["prompt_tokens"]
  BY <1>4 DEF Unlabelled, HalfLabelled
<1>6. CASE w = "label"
  <2>1. of = labels
    BY <1>6
  <2>2. (n \in DOMAIN of <=> n \in LabelNames) /\ (n \in LabelNames => of[n] = sp[n])
    BY <2>1
  <2>3. (done \cup {w}) \cap Inserts = done \cap Inserts
    BY <1>6 DEF Inserts
  <2> HIDE DEF of
  <2> QED
    BY <1>3, <1>4, <1>6, <2>2, <2>3 DEF Expected
<1>7. CASE w = "insert"
  <2>1. of = SpanDetails(Unlabelled(sp))
    BY <1>7
  <2>2. (done \cup {w}) \cap Inserts # {}
    BY <1>7 DEF Inserts
  <2> HIDE DEF of
  <2> QED
    BY <1>3, <1>4, <1>5, <1>7, <2>1, <2>2, DetailsOf DEF Expected
<1>8. CASE w = "insert half labelled"
  <2>1. of = SpanDetails(HalfLabelled(sp))
    BY <1>8
  <2>2. (done \cup {w}) \cap Inserts # {}
    BY <1>8 DEF Inserts
  <2> HIDE DEF of
  <2> QED
    BY <1>3, <1>4, <1>5, <1>8, <2>1, <2>2, DetailsOf DEF Expected
<1>9. CASE w = "insert labelled"
  <2>1. of = SpanDetails(sp)
    BY <1>9
  <2>2. (done \cup {w}) \cap Inserts # {}
    BY <1>9 DEF Inserts
  <2> HIDE DEF of
  <2> QED
    BY <1>3, <1>4, <1>9, <2>1, <2>2, DetailsOf DEF Expected
<1> QED
  BY <1>1, <1>6, <1>7, <1>8, <1>9

\* The rows after each of the writes.
LEMMA RowsSteps ==
    ASSUME NEW sp \in [DetailNames -> Nat], NEW writes \in Seq(Writes)
    PROVE  \E after : /\ RowsAfter(sp, writes) = after[Len(writes)] /\ after[0] = NoRows
                      /\ \A i \in 1..Len(writes) : after[i] = Write(after[i - 1], sp, writes[i])
<1> PICK N : N = Len(writes)
  OBVIOUS
<1>1. N \in Nat /\ N = Len(writes) /\ \A i \in 1..N : writes[i] \in Writes
  BY LenProperties
<1> DEFINE S == UNION {[D -> Nat] : D \in SUBSET DetailNames}
           step == [i \in 1..N |-> [rows \in S |-> Write(rows, sp, writes[i])]]
<1>2. NoRows \in S
  <2>1. NoRows \in [{} -> Nat] /\ {} \in SUBSET DetailNames
    BY DEF NoRows
  <2> QED
    BY <2>1
<1>3. \A i \in 1..N, rows \in S : Write(rows, sp, writes[i]) \in S
  <2> SUFFICES ASSUME NEW rows \in S, NEW w \in Writes PROVE Write(rows, sp, w) \in S
    BY <1>1
  <2>1. ASSUME NEW D \in SUBSET DetailNames, NEW new \in [D -> Nat]
        PROVE  Upsert(rows, new) \in S
    <3>1. PICK C \in SUBSET DetailNames : rows \in [C -> Nat]
      OBVIOUS
    <3>2. Upsert(rows, new) \in [C \cup D -> Nat]
      BY <3>1 DEF Upsert
    <3> QED
      BY <3>2
  <2>2. LabelNames \subseteq DetailNames /\ Unlabelled(sp) \in [DetailNames -> Nat]
        /\ HalfLabelled(sp) \in [DetailNames -> Nat]
    BY DEF DetailNames, Unlabelled, HalfLabelled
  <2>3. ASSUME NEW x \in [DetailNames -> Nat]
        PROVE  \E D \in SUBSET DetailNames : SpanDetails(x) \in [D -> Nat]
    <3> PICK D : D = AlwaysWritten
                     \cup {m \in WrittenIfSet \cup LabelNames : x[m] # 0}
                     \cup IF x["prompt_tokens"] > 0 THEN Tokens ELSE {}
      OBVIOUS
    <3>1. SpanDetails(x) = [m \in D |-> x[m]]
      BY DEF SpanDetails
    <3>2. D \subseteq DetailNames
      BY DEF DetailNames
    <3> HIDE DEF DetailNames
    <3>3. \A m \in D : x[m] \in Nat
      BY <3>2
    <3>4. SpanDetails(x) \in [D -> Nat]
      BY <3>1, <3>3
    <3> QED
      BY <3>2, <3>4
  <2>4. [l \in LabelNames |-> sp[l]] \in [LabelNames -> Nat]
    BY <2>2
  <2> HIDE DEF S
  <2>5. w \in {"insert", "insert half labelled", "insert labelled", "label"}
    BY DEF Writes, Inserts
  <2> QED
    BY <2>1, <2>2, <2>3, <2>4, <2>5 DEF Write, InsertSpan, UpdateSpanBehavior
<1>4. step \in [1..N -> [S -> S]]
  <2> HIDE DEF S
  <2> QED
    BY <1>3
<1>5. PICK f \in [0..N -> S] : Recursion(f, N, NoRows, step)
  <2> HIDE DEF S, step
  <2> QED
    BY <1>1, <1>2, <1>4, RecursionExists
<1>6. f = [i \in 0..Len(writes) |-> IF i = 0 THEN NoRows ELSE Write(f[i - 1], sp, writes[i])]
  <2>1. \A i \in 1..N : i - 1 \in 0..N /\ i # 0
    BY <1>1
  <2>2. \A i \in 0..N : i = 0 \/ i \in 1..N
    BY <1>1
  <2> HIDE DEF S
  <2>3. \A i \in 1..N, rows \in S : step[i][rows] = Write(rows, sp, writes[i])
    OBVIOUS
  <2> HIDE DEF step
  <2>4. \A i \in 0..N : f[i] \in S
    OBVIOUS
  <2>5. f[0] = NoRows /\ \A i \in 1..N : f[i] = step[i][f[i - 1]]
    BY <1>5 DEF Recursion
  <2>6. \A i \in 1..N : f[i] = Write(f[i - 1], sp, writes[i])
    BY <2>1, <2>3, <2>4, <2>5, Zenon
  <2>7. \A i \in 0..N : f[i] = IF i = 0 THEN NoRows ELSE Write(f[i - 1], sp, writes[i])
    BY <2>1, <2>2, <2>5, <2>6, Zenon
  <2> QED
    BY <1>1, <2>7
<1> PICK k : k = CHOOSE g : g = [i \in 0..Len(writes) |->
                                   IF i = 0 THEN NoRows ELSE Write(g[i - 1], sp, writes[i])]
  OBVIOUS
<1>7. k = [i \in 0..Len(writes) |-> IF i = 0 THEN NoRows ELSE Write(k[i - 1], sp, writes[i])]
  BY <1>6
<1>8. RowsAfter(sp, writes) = k[Len(writes)]
  BY DEF RowsAfter
<1>9. \A i \in 0..N : k[i] = IF i = 0 THEN NoRows ELSE Write(k[i - 1], sp, writes[i])
  BY <1>1, <1>7, Zenon
<1> QED
  <2>1. k[0] = NoRows
    BY <1>1, <1>9
  <2>2. \A i \in 1..N : i \in 0..N /\ i # 0
    BY <1>1
  <2>3. \A i \in 1..N : k[i] = Write(k[i - 1], sp, writes[i])
    BY <1>9, <2>2, Zenon
  <2> QED
    BY <1>1, <1>8, <2>1, <2>3

\* In whatever order a span is inserted, inserted again and labelled, the page
\* of its trace shows it as it was captured (InsertSpan, UpdateSpanBehavior).
THEOREM SpansReadBack ==
    ASSUME NEW sp \in [DetailNames -> Nat], NEW writes \in Seq(Writes)
    PROVE  ReadsBack(sp, writes)
<1>1. PICK after : /\ RowsAfter(sp, writes) = after[Len(writes)] /\ after[0] = NoRows
                   /\ \A i \in 1..Len(writes) : after[i] = Write(after[i - 1], sp, writes[i])
  BY RowsSteps
<1>2. Len(writes) \in Nat /\ DOMAIN writes = 1..Len(writes) /\ \A i \in 1..Len(writes) : writes[i] \in Writes
  BY LenProperties
<1> DEFINE done(i) == {writes[j] : j \in 1..i}
           T == {i \in Nat : Shows(after[i], sp, done(i))}
<1>3. 0 \in T
  <2>1. done(0) = {}
    OBVIOUS
  <2>2. \A n \in DetailNames : SpanFromDetails(NoRows)[n] = 0
    BY DEF SpanFromDetails, NoRows
  <2>3. \A n \in DetailNames : Expected(sp, {}, n) = 0
    BY DEF Expected
  <2> QED
    BY <1>1, <2>1, <2>2, <2>3 DEF Shows
<1>4. ASSUME NEW i \in 1..Len(writes), i - 1 \in T PROVE i \in T
  <2>1. done(i) = done(i - 1) \cup {writes[i]} /\ writes[i] \in Writes /\ i \in Nat
    BY <1>2
  <2> HIDE DEF done
  <2>2. Shows(after[i - 1], sp, done(i - 1))
    BY <1>4
  <2>3. Shows(after[i], sp, done(i))
    BY <1>1, <2>1, <2>2, WriteShown
  <2> QED
    BY <2>1, <2>3
<1>5. Len(writes) \in T
  <2> HIDE DEF T
  <2>1. \A i \in 0..Len(writes) : i \in T
    BY <1>2, <1>3, <1>4, InductionUpTo
  <2> QED
    BY <1>2, <2>1
<1> DEFINE all == {writes[i] : i \in DOMAIN writes}
<1>6. \A n \in DetailNames : SpanFromDetails(RowsAfter(sp, writes))[n] = Expected(sp, all, n)
  <2>1. done(Len(writes)) = all
    BY <1>2
  <2> QED
    BY <1>1, <1>5, <2>1 DEF Shows
<1> HIDE DEF all
<1>7. all \cap Inserts # {} => \A n \in DetailNames : Expected(sp, all, n) =
         CASE n = "behavior" -> IF all \subseteq {"insert"} THEN 0 ELSE sp[n]
           [] n = "sub_behavior" ->
                 IF all \subseteq {"insert", "insert half labelled"} THEN 0 ELSE sp[n]
           [] n = "completion_tokens" -> IF sp["prompt_tokens"] = 0 THEN 0 ELSE sp[n]
           [] OTHER -> sp[n]
  BY DEF Expected
<1> QED
  BY <1>6, <1>7 DEF ReadsBack, all

-----------------------------------------------------------------------------
(* Capture.                                                                *)

\* The requests of agents and the answers of upstreams: a body has a size, an
\* answer that came a status, and a text that is not blank an end.
Paths == {"/v1/chat/completions", "/v1/messages", "/tools/", "/db/", "/user/"}
AnyRequest == [by : {"proxying", "healthz", "connect", "bad request"}, path : SUBSET Paths,
               size : Nat \ {0}, broken : BOOLEAN, chat : BOOLEAN]
AnyText == {Blank} \cup {x \in [opens : {"plain", "refusal"}, overload : {"no", "kept", "beyond"},
                                last : {"stop", "letter", "curly"}, long : BOOLEAN] :
                            x.overload = "beyond" => x.long}
AnyAnswer == [fate : {"none", "cut", "whole"}, framed : {"length", "chunked", "close"},
              status : Nat, body : {"chat", "other"}, text : AnyText]

LEMMA SpanOf ==
    ASSUME NEW r \in AnyRequest, NEW up \in AnyAnswer, Forwarded(r)
    PROVE  /\ Len(ServeHTTP(r, up).spans) = 1
           /\ ServeHTTP(r, up).spans[1] = CapturedSpan(r, up)
           /\ ServeHTTP(r, up).sent = ReadBody(r) /\ ServeHTTP(r, up).reply = ToAgent(up)
BY DEF ServeHTTP

LEMMA TypeOfSpan ==
    ASSUME NEW r \in AnyRequest
    PROVE  SpanType(r.path) \in {"llm_call", "tool_call", "db_call", "output", "external"}
<1>1. r.path \subseteq Paths
  BY DEF AnyRequest
<1>2. \/ r.path \cap {"/v1/chat/completions", "/v1/messages"} # {}
      \/ "/tools/" \in r.path /\ r.path \subseteq {"/tools/", "/db/", "/user/"}
      \/ "/db/" \in r.path /\ r.path \subseteq {"/db/", "/user/"}
      \/ r.path = {"/user/"}
      \/ r.path = {}
  BY <1>1 DEF Paths
<1> QED
  BY <1>2 DEF SpanType

\* The error label of a span is the one the taxonomy of the documents gives the
\* exchange, except where Divergence names another (labelError, ServeHTTP).
THEOREM LabelsFollowTaxonomy ==
    ASSUME NEW r \in AnyRequest, NEW up \in AnyAnswer, Forwarded(r),
           up.fate # "none" => up.status # 0
    PROVE  LabelledAsDocumented(r, up)
<1> PICK sp : sp = CapturedSpan(r, up)
  OBVIOUS
<1> PICK llm : llm = (SpanType(r.path) = "llm_call")
  OBVIOUS
<1>1. /\ up.fate \in {"none", "cut", "whole"} /\ up.framed \in {"length", "chunked", "close"}
      /\ up.status \in Nat /\ up.body \in {"chat", "other"} /\ up.text \in AnyText
  BY DEF AnyAnswer
<1>2. /\ sp.type = SpanType(r.path)
      /\ sp.status = IF up.fate = "none" THEN 0 ELSE up.status
      /\ sp.dropped = Dropped(up)
      /\ sp.response = IF /\ SpanType(r.path) = "llm_call" /\ up.fate = "whole"
                         /\ up.status = 200 /\ up.body = "chat"
                      THEN Truncated(up.text) ELSE Blank
  BY <1>1 DEF CapturedSpan, Parses
<1>3. /\ Blank.opens = "" /\ Blank.overload = "no" /\ Blank.last = "" /\ Blank.long = FALSE
  BY DEF Blank
<1>4. BodyFailure(sp) =>
         SpanType(r.path) = "llm_call" /\ up.status = 200 /\ up.fate = "whole" /\ up.body = "chat"
  BY <1>2, <1>3 DEF BodyFailure
<1>5. LabelledAsDocumented(r, up) <=>
         LabelError(sp) \in (IF Divergence(r, up) = {} THEN {Taxonomy(r, up)} ELSE Divergence(r, up))
  BY SpanOf DEF LabelledAsDocumented
<1>6. CASE Dropped(up)
  <2>1. LabelError(sp) = "no_answer"
    BY <1>2, <1>6 DEF LabelError
  <2>2. Divergence(r, up) = {} /\ Taxonomy(r, up) = "no_answer"
    BY <1>6 DEF Divergence, Taxonomy, Dropped, Noticed
  <2> QED
    BY <1>5, <2>1, <2>2
<1>7. CASE up.fate = "cut" /\ ~Dropped(up)
  <2>1. LabelError(sp) = IF up.status >= 400 THEN "http_status" ELSE ""
    BY <1>1, <1>2, <1>4, <1>7 DEF LabelError
  <2>2. Divergence(r, up) = {IF up.status >= 400 THEN "http_status" ELSE ""}
    BY <1>7 DEF Divergence
  <2> QED
    BY <1>5, <2>1, <2>2
<1>8. CASE up.fate = "whole" /\ up.status >= 400
  <2>1. ~Dropped(up)
    BY <1>8 DEF Dropped, Noticed
  <2>2. LabelError(sp) = "http_status"
    BY <1>1, <1>2, <1>8, <2>1 DEF LabelError
  <2>3. up.status # 200
    BY <1>8
  <2>4. Divergence(r, up) = IF up.status = 429 THEN {"http_status"} ELSE {}
    BY <1>8, <2>1, <2>3 DEF Divergence
  <2>5. up.status # 429 => Taxonomy(r, up) = "http_status"
    BY <1>8 DEF Taxonomy
  <2> QED
    BY <1>5, <2>2, <2>4, <2>5
<1>9. CASE /\ up.fate = "whole" /\ ~(up.status >= 400)
           /\ ~(SpanType(r.path) = "llm_call" /\ up.status = 200)
  <2>1. ~Dropped(up) /\ up.status # 429
    BY <1>1, <1>9 DEF Dropped, Noticed
  <2>2. LabelError(sp) = ""
    BY <1>1, <1>2, <1>4, <1>9, <2>1 DEF LabelError
  <2>3. Divergence(r, up) = {}
    BY <1>9, <2>1 DEF Divergence
  <2>4. Taxonomy(r, up) = ""
    BY <1>9 DEF Taxonomy
  <2> QED
    BY <1>5, <2>2, <2>3, <2>4
<1>10. CASE up.fate = "whole" /\ SpanType(r.path) = "llm_call" /\ up.status = 200
  <2>1. ~Dropped(up) /\ ~sp.dropped /\ sp.status = 200 /\ sp.type = "llm_call"
    BY <1>1, <1>2, <1>10 DEF Dropped, Noticed
  <2>2. LabelError(sp) = IF BodyFailure(sp) THEN "body_failure" ELSE ""
    BY <2>1 DEF LabelError
  <2>3. CASE up.body # "chat"
    <3>1. ~BodyFailure(sp)
      BY <1>4, <2>3
    <3>2. up.fate # "cut" /\ up.status # 429 /\ ~(up.body = "chat")
      BY <1>10, <2>3
    <3>3. Divergence(r, up) = {""}
      BY <1>10, <2>1, <2>3, <3>2, Zenon DEF Divergence
    <3> QED
      BY <1>5, <2>2, <3>1, <3>3
  <2>4. CASE up.body = "chat"
    <3> PICK x : x = up.text
      OBVIOUS
    <3>1. sp.response = Truncated(x)
      BY <1>2, <1>10, <2>4
    <3>2. BodyFailure(sp) <=>
             \/ x.opens = "refusal" \/ x.overload = "kept"
             \/ x # Blank /\ x.last # "stop" /\ ~x.long
      <4>1. CASE x = Blank
        <5>1. ~x.long
          BY <1>3, <4>1, Zenon
        <5>2. Truncated(x) = Blank
          BY <4>1, <5>1, Zenon DEF Truncated
        <5> QED
          BY <2>1, <3>1, <4>1, <5>2, <1>3 DEF BodyFailure
      <4>2. CASE x # Blank
        <5>1. x \in [opens : {"plain", "refusal"}, overload : {"no", "kept", "beyond"},
                     last : {"stop", "letter", "curly"}, long : BOOLEAN]
          BY <1>1, <4>2 DEF AnyText
        <5>2. /\ Truncated(x).opens = x.opens
              /\ Truncated(x).overload = "kept" <=> x.overload = "kept"
              /\ x.long => Truncated(x).last = "stop"
              /\ ~x.long => Truncated(x).last = x.last
          <6>1. CASE x.long
            <7>1. Truncated(x) = [x EXCEPT !.last = "stop",
                                           !.overload = IF @ = "beyond" THEN "no" ELSE @]
              BY <6>1, Zenon DEF Truncated
            <7>2. /\ Truncated(x).opens = x.opens /\ Truncated(x).last = "stop"
                  /\ Truncated(x).overload = IF x.overload = "beyond" THEN "no" ELSE x.overload
              BY <5>1, <7>1
            <7> QED
              BY <6>1, <7>2
          <6>2. CASE ~x.long
            <7>1. Truncated(x) = x
              BY <6>2, Zenon DEF Truncated
            <7> QED
              BY <6>2, <7>1
          <6> QED
            BY <6>1, <6>2
        <5>3. Truncated(x) # Blank
          BY <1>3, <5>1, <5>2
        <5> QED
          BY <2>1, <3>1, <4>2, <5>2, <5>3 DEF BodyFailure, LastByteEnds
      <4> QED
        BY <4>1, <4>2
    <3>3. x = Blank => x.opens = "" /\ x.overload = "no" /\ x.last = "" /\ ~x.long
      BY <1>3, Zenon
    <3>4. x # Blank => /\ x.opens \in {"plain", "refusal"} /\ x.overload \in {"no", "kept", "beyond"}
                       /\ x.last \in {"stop", "letter", "curly"}
                       /\ x.overload = "beyond" => x.long
      BY <1>1 DEF AnyText
    <3>5. Divergence(r, up) =
             IF x.long /\ x.opens # "refusal" /\ x.overload # "kept" THEN {""}
             ELSE IF x.last = "curly" /\ ~x.long THEN {"body_failure"} ELSE {}
      <4>1. up.fate # "cut" /\ up.status # 429 /\ ~(up.body # "chat")
        BY <1>10, <2>4
      <4>2. PICK cut : cut = (x.long /\ x.opens # "refusal" /\ x.overload # "kept")
        OBVIOUS
      <4>3. CASE cut
        <5>1. Divergence(r, up) = {""}
          BY <1>10, <2>1, <2>4, <4>1, <4>2, <4>3, Zenon DEF Divergence
        <5> QED
          BY <4>2, <4>3, <5>1, Zenon
      <4>4. CASE ~cut /\ x.last = "curly" /\ ~x.long
        <5>1. Divergence(r, up) = {"body_failure"}
          BY <1>10, <2>1, <2>4, <4>1, <4>2, <4>4, Zenon DEF Divergence
        <5> QED
          BY <4>2, <4>4, <5>1, Zenon
      <4>5. CASE ~cut /\ ~(x.last = "curly" /\ ~x.long)
        <5>1. Divergence(r, up) = {}
          BY <1>10, <2>1, <2>4, <4>1, <4>2, <4>5, Zenon DEF Divergence
        <5> QED
          BY <4>2, <4>5, <5>1, Zenon
      <4> QED
        BY <4>3, <4>4, <4>5, Zenon
    <3>6. Taxonomy(r, up) =
             IF x.opens = "refusal" \/ x.overload # "no" \/ x.last = "letter"
             THEN "body_failure" ELSE ""
      BY <1>10, <2>4 DEF Taxonomy
    <3> QED
      BY <1>5, <2>2, <3>2, <3>3, <3>4, <3>5, <3>6
  <2> QED
    BY <2>3, <2>4
<1> QED
  BY <1>1, <1>6, <1>7, <1>8, <1>9, <1>10 DEF Dropped

\* A forwarded request leaves one span that says of the answer what the agent
\* got, and of the request whether it went on whole; one the proxy answers
\* itself leaves none (ServeHTTP).
THEOREM SpansAgreeWithReplies ==
    ASSUME NEW r \in AnyRequest, NEW up \in AnyAnswer
    PROVE  SpanAgrees(r, up)
<1>1. CASE ~Forwarded(r)
  <2>1. ServeHTTP(r, up).spans = <<>> /\ ServeHTTP(r, up).sent = 0
    BY <1>1 DEF ServeHTTP
  <2> QED
    BY <1>1, <2>1 DEF SpanAgrees
<1>2. CASE Forwarded(r)
  <2> PICK sp : sp = CapturedSpan(r, up)
    OBVIOUS
  <2> PICK sent : sent = ReadBody(r)
    OBVIOUS
  <2> PICK body : body = ToAgent(up).body
    OBVIOUS
  <2>1. /\ up.fate \in {"none", "cut", "whole"} /\ up.framed \in {"length", "chunked", "close"}
        /\ r.size \in Nat \ {0} /\ BodyLimit \in Nat \ {0}
    BY BodyLimitAssumption DEF AnyAnswer, AnyRequest
  <2>2. /\ sp.type = SpanType(r.path) /\ sp.request = CapturedRequest(r)
        /\ sp.status = IF up.fate = "none" THEN 0 ELSE up.status
        /\ sp.dropped = Dropped(up)
    BY DEF CapturedSpan
  <2>3. ToAgent(up).status = IF up.fate = "none" THEN 502 ELSE up.status
    BY DEF ToAgent
  <2>4. body = IF up.fate = "none" THEN "error" ELSE IF up.fate = "whole" THEN "whole"
               ELSE IF up.framed = "length" THEN "broken" ELSE "cut short"
    BY DEF ToAgent
  <2>5. sent = r.size \/ r.size > BodyLimit \/ r.broken
    <3>1. CASE r.broken
      BY <3>1, Zenon
    <3>2. CASE ~r.broken
      <4>1. sent = IF r.size < BodyLimit THEN r.size ELSE BodyLimit
        BY <3>2 DEF ReadBody
      <4> QED
        BY <2>1, <4>1
    <3> QED
      BY <3>1, <3>2, Zenon
  <2>6. (sp.request = "prompts") <=> (SpanType(r.path) = "llm_call" /\ r.chat /\ sent = r.size)
    BY <2>2 DEF CapturedRequest
  <2>7. sp.dropped <=> \/ body \in {"error", "broken"}
                       \/ body = "cut short" /\ up.framed = "chunked"
    <3>1. Dropped(up) <=> \/ body \in {"error", "broken"}
                          \/ body = "cut short" /\ up.framed = "chunked"
      BY <2>1, <2>4 DEF Dropped, Noticed
    <3> QED
      BY <2>2, <3>1, Zenon
  <2>8. sp.status = IF body = "error" THEN 0 ELSE ToAgent(up).status
    BY <2>1, <2>2, <2>3, <2>4
  <2>9. /\ Len(ServeHTTP(r, up).spans) = 1 /\ ServeHTTP(r, up).spans[1] = sp
        /\ ServeHTTP(r, up).sent = sent /\ ServeHTTP(r, up).reply = ToAgent(up)
    BY <1>2, SpanOf
  <2> QED
    BY <1>2, <2>2, <2>5, <2>6, <2>7, <2>8, <2>9, Zenon DEF SpanAgrees
<1> QED
  BY <1>1, <1>2


-----------------------------------------------------------------------------
(* MemoryBus.                                                              *)

\* The message that is taken goes from the head of one sequence to the end of the
\* other.
LEMMA MoveHead ==
    ASSUME NEW S, NEW a \in Seq(S), NEW b \in Seq(S), b # <<>>
    PROVE  Append(a, Head(b)) \o Tail(b) = a \o b
OBVIOUS

\* A message that is queued comes last.
LEMMA AppendLast ==
    ASSUME NEW S, NEW a \in Seq(S), NEW b \in Seq(S), NEW m \in S
    PROVE  a \o Append(b, m) = Append(a \o b, m)
OBVIOUS

\* The books are kept in whole numbers.
SumsInt ==
    /\ ToReach \in [Publishers -> Int] /\ ToOffer \in [Publishers -> Int]
    /\ Received \in [DOMAIN subs -> Int]
    /\ IsFiniteSet(DOMAIN subs) /\ IsFiniteSet(Publishers)
    /\ SumOf(ToReach, Publishers) \in Int /\ SumOf(ToOffer, Publishers) \in Int
    /\ SumOf(Received, DOMAIN subs) \in Int

LEMMA SumsTyped == BusType => SumsInt
<1> SUFFICES ASSUME BusType PROVE SumsInt
  OBVIOUS
<1>1. ToReach \in [Publishers -> Int]
  <2>1. ASSUME NEW p \in Publishers PROVE SumOf(reach[p], DOMAIN reach[p]) \in Int
    BY SumAppend DEF BusType
  <2> QED
    BY <2>1 DEF ToReach
<1>2. ToOffer \in [Publishers -> Int]
  BY DEF BusType, ToOffer
<1>3. Received \in [DOMAIN subs -> Int]
  <2>1. ASSUME NEW s \in DOMAIN subs PROVE Len(Got(s)) \in Int
    <3>1. taken[s] \in Seq(Messages) /\ subs[s] \in Seq(Messages)
      BY DEF BusType
    <3> QED
      BY <3>1 DEF Got
  <2> QED
    BY <2>1 DEF Received
<1>4. IsFiniteSet(DOMAIN subs) /\ IsFiniteSet(Publishers)
  <2>1. DOMAIN subs = 1..Len(subs) /\ Len(subs) \in Int
    BY DEF BusType
  <2> QED
    BY <2>1, FS_Interval, PublishersAssumption
<1>5. SumOf(ToReach, Publishers) \in Int
  BY <1>1, <1>4, SumTakesOne
<1>6. SumOf(ToOffer, Publishers) \in Int
  BY <1>2, <1>4, SumTakesOne
<1>7. SumOf(Received, DOMAIN subs) \in Int
  BY <1>3, <1>4, SumTakesOne
<1> QED
  BY <1>1, <1>2, <1>3, <1>4, <1>5, <1>6, <1>7 DEF SumsInt

\* The same after a step.
LEMMA SumsTypedNext == BusType' => SumsInt'
BY SumsTyped, PTL

\* Subscriptions keep what they got.
LEMMA GotSame ==
    ASSUME BusType, BusType', NEW s \in DOMAIN subs, s \in DOMAIN subs',
           taken'[s] = taken[s], subs'[s] = subs[s]
    PROVE  Got(s)' = Got(s)
BY DEF Got

\* What a subscription got are messages of the publishers.
LEMMA GotFacts ==
    ASSUME BusType, NEW s \in DOMAIN subs
    PROVE  /\ Got(s) \in Seq(Messages) /\ s \in Nat \ {0} /\ s <= Len(subs)
           /\ taken[s] \in Seq(Messages) /\ subs[s] \in Seq(Messages)
           /\ \A i \in DOMAIN Got(s) : /\ Got(s)[i] \in Messages
                                       /\ Got(s)[i].by \in Publishers /\ Got(s)[i].nr \in Nat \ {0}
<1>1. /\ s \in Nat \ {0} /\ s <= Len(subs)
      /\ taken[s] \in Seq(Messages) /\ subs[s] \in Seq(Messages)
  BY DEF BusType
<1>2. Got(s) \in Seq(Messages)
  BY <1>1 DEF Got
<1>3. \A i \in DOMAIN Got(s) : Got(s)[i] \in Messages
  BY <1>2
<1> QED
  BY <1>1, <1>2, <1>3 DEF Messages

\* The bus begins with nothing published.
LEMMA BusInitially == BusInit => BusInv
<1> SUFFICES ASSUME BusInit PROVE BusInv
  OBVIOUS
<1>1. BusType
  BY DEF BusInit, BusType
<1>2. PublishersInv
  BY DEF BusInit, PublishersInv, Offering
<1>3. DOMAIN subs = {}
  BY DEF BusInit
<1>4. SumOf(ToReach, Publishers) = 0
  <2>1. ASSUME NEW p \in Publishers PROVE ToReach[p] = 0
    <3>1. reach[p] = <<>> /\ DOMAIN reach[p] = {} /\ reach[p] \in [{} -> Int] /\ IsFiniteSet({})
      BY FS_EmptySet DEF BusInit
    <3>2. SumOf(reach[p], {}) = 0
      BY <3>1, SumTakesOne
    <3> QED
      BY <3>1, <3>2 DEF ToReach
  <2> QED
    BY <1>1, <2>1, SumsTyped, SumZero DEF SumsInt
<1>5. SumOf(ToOffer, Publishers) = 0
  <2>1. ASSUME NEW p \in Publishers PROVE ToOffer[p] = 0
    BY DEF ToOffer, Offering, BusInit
  <2> QED
    BY <1>1, <2>1, SumsTyped, SumZero DEF SumsInt
<1>6. SumOf(Received, DOMAIN subs) = 0
  BY <1>1, <1>3, SumsTyped, SumTakesOne DEF SumsInt
<1>7. CopiesCounted
  BY <1>4, <1>5, <1>6 DEF CopiesCounted, BusInit
<1> QED
  BY <1>1, <1>2, <1>3, <1>7 DEF BusInv, CopiesAccounted, CopiesInOrder

\* A new subscription has got nothing and changes nothing for the others.
LEMMA KeptBySubscribe ==
    ASSUME BusInv, Subscribe
    PROVE  BusInv'
<1>1. BusType
  BY DEF BusInv
<1>2. PICK n \in Nat : n = Len(subs)
  BY <1>1 DEF BusType
<1>3. /\ subs' = Append(subs, <<>>) /\ taken' = Append(taken, <<>>)
      /\ dropped' = dropped /\ publishing' = publishing /\ reach' = reach
  BY DEF Subscribe
<1>4. BusType'
  BY <1>1, <1>3 DEF BusType
<1>5. /\ DOMAIN subs = 1..n /\ DOMAIN subs' = 1..(n + 1)
      /\ subs'[n + 1] = <<>> /\ taken'[n + 1] = <<>>
      /\ \A s \in 1..n : subs'[s] = subs[s] /\ taken'[s] = taken[s]
  BY <1>1, <1>2, <1>3 DEF BusType
<1>6. \A s \in 1..n : Got(s)' = Got(s)
  BY <1>1, <1>4, <1>5, GotSame
<1>7. Got(n + 1)' = <<>>
  BY <1>5 DEF Got
<1>8. PublishersInv'
  <2>1. Len(subs') = Len(subs) + 1 /\ Len(subs) \in Nat
    BY <1>1, <1>3 DEF BusType
  <2> QED
    BY <1>1, <1>3, <2>1 DEF BusInv, BusType, PublishersInv, Offering
<1>9. \A s \in DOMAIN subs' : NotBeyond(s)'
  <2>1. ASSUME NEW s \in 1..n PROVE NotBeyond(s)'
    BY <1>3, <1>5, <1>6 DEF BusInv, NotBeyond
  <2>2. NotBeyond(n + 1)'
    BY <1>7 DEF NotBeyond
  <2> QED
    BY <1>5, <2>1, <2>2
<1>10. CopiesInOrder'
  <2>1. ASSUME NEW s \in 1..n PROVE InOrder(s)'
    BY <1>3, <1>5, <1>6 DEF BusInv, CopiesAccounted, CopiesInOrder, InOrder
  <2>2. InOrder(n + 1)'
    BY <1>7 DEF InOrder
  <2> QED
    BY <1>5, <2>1, <2>2 DEF CopiesInOrder
<1>11. CopiesCounted'
  <2>1. /\ Received \in [1..n -> Int] /\ Received' \in [1..(n + 1) -> Int]
    BY <1>1, <1>4, <1>5, SumsTyped, SumsTypedNext DEF SumsInt
  <2>2. (\A s \in 1..n : Received'[s] = Received[s]) /\ Received'[n + 1] = 0
    BY <1>5, <1>6, <1>7 DEF Received
  <2>3. SumOf(Received, 1..n) \in Int /\ SumOf(Received', 1..(n + 1)) = SumOf(Received, 1..n)
    BY <2>1, <2>2, SumGrows
  <2>4. ToReach' = ToReach /\ ToOffer' = ToOffer
    BY <1>3 DEF ToReach, ToOffer, Offering
  <2> QED
    BY <1>3, <1>5, <2>3, <2>4 DEF BusInv, CopiesAccounted, CopiesCounted
<1> QED
  BY <1>4, <1>8, <1>9, <1>10, <1>11 DEF BusInv, CopiesAccounted

\* A publisher that begins a message has all channels there are ahead of it.
LEMMA KeptByBeginPublish ==
    ASSUME BusInv, NEW p \in Publishers, BeginPublish(p)
    PROVE  BusInv'
<1>1. BusType
  BY DEF BusInv
<1>2. PICK n \in Nat : n = Len(subs)
  BY <1>1 DEF BusType
<1>3. /\ subs' = subs /\ taken' = taken /\ dropped' = dropped
      /\ publishing' = [publishing EXCEPT ![p] = [next |-> 1, last |-> n]]
      /\ reach' = [reach EXCEPT ![p] = Append(reach[p], n)] /\ ~Offering(p)
  BY <1>2 DEF BeginPublish
<1>4. PICK k \in Nat : k = Len(reach[p])
  BY <1>1 DEF BusType
<1>5. /\ reach[p] \in Seq(Nat) /\ Append(reach[p], n) \in Seq(Nat)
      /\ Len(Append(reach[p], n)) = k + 1 /\ Append(reach[p], n)[k + 1] = n
      /\ \A i \in 1..k : Append(reach[p], n)[i] = reach[p][i]
      /\ Append(reach[p], n) # <<>>
  <2>1. reach[p] \in Seq(Nat)
    BY <1>1 DEF BusType
  <2> QED
    BY <1>4, <2>1
<1>6. /\ reach' \in [Publishers -> Seq(Nat)] /\ reach'[p] = Append(reach[p], n)
      /\ \A q \in Publishers \ {p} : reach'[q] = reach[q]
  BY <1>1, <1>3, <1>5 DEF BusType
<1>7. /\ publishing' \in [Publishers -> [next : Nat \ {0}, last : Nat]]
      /\ publishing'[p].next = 1 /\ publishing'[p].last = n
      /\ \A q \in Publishers \ {p} : publishing'[q] = publishing[q]
  BY <1>1, <1>3 DEF BusType
<1>8. BusType'
  BY <1>1, <1>3, <1>6, <1>7 DEF BusType
<1>9. PublishersInv'
  <2>1. ASSUME NEW q \in Publishers
        PROVE  /\ publishing'[q].next <= publishing'[q].last + 1
               /\ publishing'[q].last <= Len(subs')
               /\ Offering(q)' => /\ reach'[q] # <<>>
                                  /\ reach'[q][Len(reach'[q])] = publishing'[q].last
    <3>1. CASE q = p
      BY <3>1, <1>2, <1>3, <1>5, <1>6, <1>7 DEF Offering
    <3>2. CASE q # p
      BY <3>2, <1>3, <1>6, <1>7 DEF BusInv, PublishersInv, Offering
    <3> QED
      BY <3>1, <3>2
  <2> QED
    BY <2>1 DEF PublishersInv
<1>10. \A s \in DOMAIN subs : Got(s)' = Got(s)
  BY <1>3 DEF Got
<1>11. \A s \in DOMAIN subs : NotBeyond(s)'
  <2> SUFFICES ASSUME NEW s \in DOMAIN subs, NEW i \in DOMAIN Got(s)
               PROVE  /\ Got(s)[i].nr <= Len(reach'[Got(s)[i].by])
                      /\ s >= publishing'[Got(s)[i].by].next => Got(s)[i].nr < Len(reach'[Got(s)[i].by])
    BY <1>10 DEF NotBeyond
  <2>1. /\ Got(s)[i].by \in Publishers /\ Got(s)[i].nr \in Nat
        /\ Got(s)[i].nr <= Len(reach[Got(s)[i].by])
        /\ s >= publishing[Got(s)[i].by].next => Got(s)[i].nr < Len(reach[Got(s)[i].by])
    BY <1>1, GotFacts DEF BusInv, NotBeyond
  <2>2. CASE Got(s)[i].by = p
    BY <2>1, <2>2, <1>4, <1>5, <1>6
  <2>3. CASE Got(s)[i].by # p
    BY <2>1, <2>3, <1>6, <1>7
  <2> QED
    BY <2>2, <2>3
<1>12. CopiesInOrder'
  <2> SUFFICES ASSUME NEW s \in DOMAIN subs PROVE InOrder(s)'
    BY <1>3 DEF CopiesInOrder
  <2>1. InOrder(s)
    BY DEF BusInv, CopiesAccounted, CopiesInOrder
  <2>2. ASSUME NEW i \in DOMAIN Got(s)
        PROVE  reach'[Got(s)[i].by][Got(s)[i].nr] >= s
    <3>1. /\ Got(s)[i].by \in Publishers /\ Got(s)[i].nr \in Nat \ {0}
          /\ Got(s)[i].nr <= Len(reach[Got(s)[i].by])
      BY <1>1, GotFacts DEF BusInv, NotBeyond
    <3>2. reach[Got(s)[i].by][Got(s)[i].nr] >= s
      BY <2>1 DEF InOrder
    <3>3. CASE Got(s)[i].by = p
      <4>1. Got(s)[i].nr \in 1..k
        BY <3>1, <3>3, <1>4
      <4> QED
        BY <3>2, <3>3, <4>1, <1>5, <1>6
    <3>4. CASE Got(s)[i].by # p
      BY <3>1, <3>2, <3>4, <1>6
    <3> QED
      BY <3>3, <3>4
  <2> QED
    BY <1>10, <2>1, <2>2 DEF InOrder
<1>13. CopiesCounted'
  <2>1. SumsInt /\ SumsInt'
    BY <1>1, <1>8, SumsTyped, SumsTypedNext
  <2>2. /\ ToReach'[p] = ToReach[p] + n /\ ToReach[p] \in Int
        /\ \A q \in Publishers \ {p} : ToReach'[q] = ToReach[q]
    BY <1>5, <1>6, SumAppend DEF ToReach
  <2>3. /\ ToOffer[p] = 0 /\ ToOffer'[p] = n
        /\ \A q \in Publishers \ {p} : ToOffer'[q] = ToOffer[q]
    BY <1>3, <1>7 DEF ToOffer, Offering
  <2>4. /\ IsFiniteSet(Publishers)
        /\ ToReach \in [Publishers -> Int] /\ ToReach' \in [Publishers -> Int]
        /\ ToOffer \in [Publishers -> Int] /\ ToOffer' \in [Publishers -> Int]
    BY <2>1 DEF SumsInt
  <2>5. /\ SumOf(ToReach, Publishers) \in Int /\ SumOf(ToOffer, Publishers) \in Int
        /\ SumOf(Received, DOMAIN subs) \in Int
    BY <2>1 DEF SumsInt
  <2>8. SumOf(ToReach', Publishers) = SumOf(ToReach, Publishers) + n
    <3>1. SumOf(ToReach', Publishers) = SumOf(ToReach, Publishers) - ToReach[p] + ToReach'[p]
      BY <2>2, <2>4, SumChange
    <3> QED
      BY <2>2, <2>5, <3>1
  <2>9. SumOf(ToOffer', Publishers) = SumOf(ToOffer, Publishers) + n
    <3>1. SumOf(ToOffer', Publishers) = SumOf(ToOffer, Publishers) - ToOffer[p] + ToOffer'[p]
      BY <2>3, <2>4, SumChange
    <3> QED
      BY <2>3, <2>5, <3>1
  <2>6. SumOf(Received', DOMAIN subs') = SumOf(Received, DOMAIN subs)
    BY <1>3, <1>10 DEF Received
  <2>7. dropped \in Nat /\ CopiesCounted
    BY <1>1 DEF BusInv, CopiesAccounted, BusType
  <2> QED
    BY <1>3, <2>5, <2>6, <2>7, <2>8, <2>9 DEF CopiesCounted
<1> QED
  BY <1>3, <1>8, <1>9, <1>11, <1>12, <1>13 DEF BusInv, CopiesAccounted

\* Everything but the two sequences and the stopped subscriptions.
LEMMA KeptWhenGotKept ==
    ASSUME BusInv, BusType', \A s \in DOMAIN subs : Got(s)' = Got(s),
           DOMAIN subs' = DOMAIN subs, Len(subs') = Len(subs),
           UNCHANGED <<dropped, publishing, reach>>
    PROVE  BusInv'
<1>1. PublishersInv'
  BY DEF BusInv, PublishersInv, Offering
<1>2. \A s \in DOMAIN subs' : NotBeyond(s)'
  BY DEF BusInv, NotBeyond
<1>3. CopiesInOrder'
  BY DEF BusInv, CopiesAccounted, CopiesInOrder, InOrder
<1>4. CopiesCounted'
  <2>1. ToReach' = ToReach /\ ToOffer' = ToOffer
    BY DEF ToReach, ToOffer, Offering
  <2>2. Received' = Received
    BY DEF Received
  <2> QED
    BY <2>1, <2>2 DEF BusInv, CopiesAccounted, CopiesCounted
<1> QED
  BY <1>1, <1>2, <1>3, <1>4 DEF BusInv, CopiesAccounted

\* What is handled was queued.
LEMMA KeptByHandle ==
    ASSUME BusInv, NEW s \in DOMAIN subs, Handle(s)
    PROVE  BusInv'
<1>1. BusType
  BY DEF BusInv
<1>2. /\ taken' = [taken EXCEPT ![s] = Append(taken[s], Head(subs[s]))]
      /\ subs' = [subs EXCEPT ![s] = Tail(subs[s])]
      /\ subs[s] # <<>> /\ UNCHANGED <<dropped, publishing, reach>>
  BY DEF Handle
<1>3. subs[s] \in Seq(Messages) /\ taken[s] \in Seq(Messages)
  BY <1>1, GotFacts
<1>4. /\ Tail(subs[s]) \in Seq(Messages)
      /\ Append(taken[s], Head(subs[s])) \in Seq(Messages)
  BY <1>2, <1>3
<1>5. PICK n \in Nat : n = Len(subs) /\ DOMAIN subs = 1..n /\ DOMAIN taken = 1..n
  BY <1>1 DEF BusType
<1>6. /\ subs' \in [1..n -> Seq(Messages)] /\ taken' \in [1..n -> Seq(Messages)]
      /\ subs'[s] = Tail(subs[s]) /\ taken'[s] = Append(taken[s], Head(subs[s]))
      /\ \A t \in 1..n \ {s} : subs'[t] = subs[t] /\ taken'[t] = taken[t]
  BY <1>1, <1>2, <1>4, <1>5 DEF BusType
<1>7. subs' \in Seq(Seq(Messages)) /\ taken' \in Seq(Seq(Messages)) /\ Len(subs') = n /\ Len(taken') = n
  BY <1>6
<1>8. BusType'
  BY <1>1, <1>2, <1>7 DEF BusType
<1>9. ASSUME NEW t \in DOMAIN subs PROVE Got(t)' = Got(t)
  <2>1. CASE t = s
    <3>1. Append(taken[s], Head(subs[s])) \o Tail(subs[s]) = taken[s] \o subs[s]
      BY <1>2, <1>3, MoveHead
    <3> QED
      BY <2>1, <3>1, <1>6 DEF Got
  <2>2. CASE t # s
    BY <2>2, <1>5, <1>6 DEF Got
  <2> QED
    BY <2>1, <2>2
<1>10. DOMAIN subs' = DOMAIN subs /\ Len(subs') = Len(subs)
  BY <1>5, <1>6, <1>7
<1> QED
  BY <1>2, <1>8, <1>9, <1>10, KeptWhenGotKept

\* A subscription that ends keeps what it got.
LEMMA KeptByEndSubscription ==
    ASSUME BusInv, NEW s \in DOMAIN subs, EndSubscription(s)
    PROVE  BusInv'
<1>1. UNCHANGED <<subs, taken, dropped, publishing, reach>>
  BY DEF EndSubscription
<1>2. BusType'
  BY <1>1 DEF BusInv, BusType
<1>3. \A t \in DOMAIN subs : Got(t)' = Got(t)
  BY <1>1 DEF Got
<1> QED
  BY <1>1, <1>2, <1>3, KeptWhenGotKept

\* No step of the bus.
LEMMA KeptByBusStuttering ==
    ASSUME BusInv, UNCHANGED busVars
    PROVE  BusInv'
<1>1. UNCHANGED <<subs, taken, dropped, publishing, reach>>
  BY DEF busVars
<1>2. BusType'
  BY <1>1 DEF BusInv, BusType
<1>3. \A t \in DOMAIN subs : Got(t)' = Got(t)
  BY <1>1 DEF Got
<1> QED
  BY <1>1, <1>2, <1>3, KeptWhenGotKept

\* What both ways to offer share: the publisher goes on to the next channel.
LEMMA Offered ==
    ASSUME BusInv, NEW p \in Publishers, Offer(p)
    PROVE  /\ publishing' \in [Publishers -> [next : Nat \ {0}, last : Nat]]
           /\ publishing'[p].next = publishing[p].next + 1
           /\ publishing'[p].last = publishing[p].last
           /\ \A q \in Publishers \ {p} : publishing'[q] = publishing[q]
           /\ publishing[p].next \in DOMAIN subs
           /\ ToOffer'[p] = ToOffer[p] - 1
           /\ \A q \in Publishers \ {p} : ToOffer'[q] = ToOffer[q]
           /\ ToOffer[p] \in Int
           /\ Message(p) \in Messages
           /\ publishing[p].next <= publishing[p].last
           /\ reach[p] \in Seq(Nat)
           /\ reach[p][Len(reach[p])] = publishing[p].last
<1>1. /\ BusType /\ PublishersInv
  BY DEF BusInv
<1>2. /\ publishing \in [Publishers -> [next : Nat \ {0}, last : Nat]]
      /\ reach[p] \in Seq(Nat) /\ Len(subs) \in Nat /\ DOMAIN subs = 1..Len(subs)
  BY <1>1 DEF BusType
<1>3. publishing' = [publishing EXCEPT ![p] = [next |-> publishing[p].next + 1,
                                               last |-> publishing[p].last]]
  <2>1. publishing' = [publishing EXCEPT ![p].next = publishing[p].next + 1]
    BY DEF Offer, Continue
  <2>2. PICK r \in [next : Nat \ {0}, last : Nat] : r = publishing[p]
    BY <1>2
  <2>3. [r EXCEPT !.next = r.next + 1] = [next |-> r.next + 1, last |-> r.last]
    BY <2>2
  <2>4. publishing' = [publishing EXCEPT ![p] = [r EXCEPT !.next = r.next + 1]]
    BY <2>1, <2>2
  <2> QED
    BY <2>2, <2>3, <2>4
<1>4. /\ publishing' \in [Publishers -> [next : Nat \ {0}, last : Nat]]
      /\ publishing'[p].next = publishing[p].next + 1
      /\ publishing'[p].last = publishing[p].last
      /\ \A q \in Publishers \ {p} : publishing'[q] = publishing[q]
  BY <1>2, <1>3
<1>5. /\ publishing[p].next <= publishing[p].last /\ publishing[p].last <= Len(subs)
      /\ reach[p] # <<>> /\ reach[p][Len(reach[p])] = publishing[p].last
  BY <1>1 DEF PublishersInv, Offer, Offering
<1>6. /\ ToOffer'[p] = ToOffer[p] - 1 /\ ToOffer[p] \in Int
      /\ \A q \in Publishers \ {p} : ToOffer'[q] = ToOffer[q]
  BY <1>2, <1>4, <1>5 DEF ToOffer, Offering
<1>7. Message(p) \in Messages
  BY <1>2, <1>5 DEF Message, Messages
<1>8. publishing[p].next \in DOMAIN subs
  BY <1>2, <1>5
<1> QED
  BY <1>2, <1>4, <1>5, <1>6, <1>7, <1>8

\* The channel is full: the copy is counted as dropped.
LEMMA KeptByDrop ==
    ASSUME BusInv, NEW p \in Publishers, Offer(p), Len(subs[publishing[p].next]) >= BufSize
    PROVE  BusInv'
<1>1. BusType
  BY DEF BusInv
<1>2. publishing[p].next \in DOMAIN subs
  BY Offered
<1>3. ~(Len(subs[publishing[p].next]) < BufSize)
  <2>1. subs[publishing[p].next] \in Seq(Messages)
    BY <1>1, <1>2, GotFacts
  <2> QED
    BY <2>1, BufSizeAssumption
<1>4. UNCHANGED <<subs, taken, reach>> /\ dropped' = dropped + 1
  BY <1>3 DEF Offer
<1>5. BusType'
  BY <1>1, <1>4, Offered DEF BusType
<1>6. PublishersInv'
  <2>1. /\ publishing'[p].next = publishing[p].next + 1
        /\ publishing'[p].last = publishing[p].last
        /\ \A q \in Publishers \ {p} : publishing'[q] = publishing[q]
        /\ publishing[p].next <= publishing[p].last
        /\ reach[p] \in Seq(Nat)
        /\ reach[p][Len(reach[p])] = publishing[p].last
    BY Offered
  <2>2. PublishersInv /\ Offering(p)
    BY DEF BusInv, Offer
  <2>3. publishing[p].next \in Nat /\ publishing[p].last \in Nat
    BY <1>1 DEF BusType
  <2>4. ASSUME NEW q \in Publishers
        PROVE  /\ publishing'[q].next <= publishing'[q].last + 1
               /\ publishing'[q].last <= Len(subs)
               /\ Offering(q)' => /\ reach[q] # <<>>
                                  /\ reach[q][Len(reach[q])] = publishing'[q].last
    <3>1. CASE q = p
      BY <3>1, <2>1, <2>2, <2>3 DEF PublishersInv, Offering
    <3>2. CASE q # p
      BY <3>2, <2>1, <2>2, <1>4 DEF PublishersInv, Offering
    <3> QED
      BY <3>1, <3>2
  <2> QED
    BY <1>4, <2>4 DEF PublishersInv
<1>7. \A s \in DOMAIN subs : Got(s)' = Got(s)
  BY <1>4 DEF Got
<1>8. \A s \in DOMAIN subs : NotBeyond(s)'
  <2> SUFFICES ASSUME NEW s \in DOMAIN subs, NEW i \in DOMAIN Got(s),
                      s >= publishing'[Got(s)[i].by].next
               PROVE  s >= publishing[Got(s)[i].by].next
    BY <1>4, <1>7 DEF BusInv, NotBeyond
  <2>1. Got(s)[i].by \in Publishers /\ s \in Nat
    BY <1>1, GotFacts
  <2> QED
    <3>1. /\ publishing'[p].next = publishing[p].next + 1
          /\ \A q \in Publishers \ {p} : publishing'[q] = publishing[q]
      BY Offered
    <3>2. \A q \in Publishers : publishing[q].next \in Nat
      BY <1>1 DEF BusType
    <3> QED
      BY <2>1, <3>1, <3>2
<1>9. CopiesInOrder'
  BY <1>4, <1>7 DEF BusInv, CopiesAccounted, CopiesInOrder, InOrder
<1>10. CopiesCounted'
  <2>1. SumsInt /\ SumsInt'
    BY <1>1, <1>5, SumsTyped, SumsTypedNext
  <2>2. /\ IsFiniteSet(Publishers)
        /\ ToOffer \in [Publishers -> Int] /\ ToOffer' \in [Publishers -> Int]
    BY <2>1 DEF SumsInt
  <2>3. /\ SumOf(ToReach, Publishers) \in Int /\ SumOf(ToOffer, Publishers) \in Int
        /\ SumOf(Received, DOMAIN subs) \in Int
    BY <2>1 DEF SumsInt
  <2>4. /\ ToOffer'[p] = ToOffer[p] - 1 /\ ToOffer[p] \in Int
        /\ \A q \in Publishers \ {p} : ToOffer'[q] = ToOffer[q]
    BY Offered
  <2>5. SumOf(ToOffer', Publishers) = SumOf(ToOffer, Publishers) - 1
    <3>1. SumOf(ToOffer', Publishers) = SumOf(ToOffer, Publishers) - ToOffer[p] + ToOffer'[p]
      BY <2>2, <2>4, SumChange
    <3> QED
      BY <2>3, <2>4, <3>1
  <2>6. ToReach' = ToReach
    BY <1>4 DEF ToReach
  <2>7. Received' = Received
    BY <1>4, <1>7 DEF Received
  <2>8. dropped \in Nat /\ CopiesCounted
    BY <1>1 DEF BusInv, CopiesAccounted, BusType
  <2> QED
    BY <1>4, <2>3, <2>5, <2>6, <2>7, <2>8 DEF CopiesCounted
<1> QED
  BY <1>4, <1>5, <1>6, <1>8, <1>9, <1>10 DEF BusInv, CopiesAccounted

\* The channel has room: the copy comes after all the publisher's earlier ones.
LEMMA KeptByQueue ==
    ASSUME BusInv, NEW p \in Publishers, Offer(p), Len(subs[publishing[p].next]) < BufSize
    PROVE  BusInv'
<1>0. PICK c : c = publishing[p].next
  OBVIOUS
<1>1. BusType
  BY DEF BusInv
<1>2. /\ c \in DOMAIN subs /\ Message(p) \in Messages
      /\ c <= publishing[p].last /\ reach[p] \in Seq(Nat)
      /\ reach[p][Len(reach[p])] = publishing[p].last
  BY <1>0, Offered
<1>3. PICK n \in Nat : n = Len(subs) /\ DOMAIN subs = 1..n /\ DOMAIN taken = 1..n
  BY <1>1 DEF BusType
<1>4. /\ subs' = [subs EXCEPT ![c] = Append(subs[c], Message(p))]
      /\ UNCHANGED <<taken, dropped, reach>>
  BY <1>0 DEF Offer
<1>5. subs[c] \in Seq(Messages) /\ taken[c] \in Seq(Messages) /\ c \in Nat \ {0}
  BY <1>1, <1>2, GotFacts
<1>6. Append(subs[c], Message(p)) \in Seq(Messages)
  BY <1>2, <1>5
<1>7. /\ subs' \in [1..n -> Seq(Messages)]
      /\ subs'[c] = Append(subs[c], Message(p))
      /\ \A t \in 1..n \ {c} : subs'[t] = subs[t]
  BY <1>1, <1>2, <1>3, <1>4, <1>6 DEF BusType
<1>8. subs' \in Seq(Seq(Messages)) /\ Len(subs') = n /\ DOMAIN subs' = 1..n
  BY <1>7
<1>9. BusType'
  <2>1. publishing' \in [Publishers -> [next : Nat \ {0}, last : Nat]]
    BY Offered
  <2> QED
    BY <1>1, <1>3, <1>4, <1>8, <2>1 DEF BusType
<1>10. /\ publishing'[p].next = c + 1
       /\ publishing'[p].last = publishing[p].last
       /\ \A q \in Publishers \ {p} : publishing'[q] = publishing[q]
  BY <1>0, Offered
<1>11. \A q \in Publishers : publishing[q].next \in Nat /\ publishing[q].last \in Nat
  BY <1>1 DEF BusType
<1>12. PublishersInv'
  <2>1. PublishersInv /\ Offering(p)
    BY DEF BusInv, Offer
  <2>2. ASSUME NEW q \in Publishers
        PROVE  /\ publishing'[q].next <= publishing'[q].last + 1
               /\ publishing'[q].last <= Len(subs')
               /\ Offering(q)' => /\ reach[q] # <<>>
                                  /\ reach[q][Len(reach[q])] = publishing'[q].last
    <3>1. CASE q = p
      BY <3>1, <1>2, <1>3, <1>5, <1>8, <1>10, <1>11, <2>1 DEF PublishersInv, Offering
    <3>2. CASE q # p
      BY <3>2, <1>3, <1>8, <1>10, <2>1 DEF PublishersInv, Offering
    <3> QED
      BY <3>1, <3>2
  <2> QED
    BY <1>4, <2>2 DEF PublishersInv
<1>13. PICK g \in Seq(Messages), k \in Nat : g = Got(c) /\ k = Len(g)
  BY <1>1, <1>2, GotFacts
<1>14. Got(c)' = Append(g, Message(p))
  <2>1. taken[c] \o Append(subs[c], Message(p)) = Append(taken[c] \o subs[c], Message(p))
    <3>1. PICK m \in Messages : m = Message(p)
      BY <1>2
    <3>2. PICK a \in Seq(Messages), b \in Seq(Messages) : a = taken[c] /\ b = subs[c]
      BY <1>5
    <3>3. a \o Append(b, m) = Append(a \o b, m)
      BY AppendLast
    <3> QED
      BY <3>1, <3>2, <3>3
  <2> QED
    BY <1>4, <1>7, <1>13, <2>1 DEF Got
<1>15. /\ DOMAIN Got(c)' = 1..(k + 1) /\ Len(Got(c)') = k + 1 /\ DOMAIN g = 1..k
       /\ Got(c)'[k + 1] = Message(p)
       /\ \A i \in 1..k : Got(c)'[i] = g[i]
  BY <1>2, <1>13, <1>14
<1>16. \A s \in DOMAIN subs \ {c} : Got(s)' = Got(s)
  BY <1>3, <1>4, <1>7 DEF Got
<1>17. /\ Message(p).by = p /\ Message(p).nr = Len(reach[p]) /\ Len(reach[p]) \in Nat
  BY <1>2 DEF Message
<1>18. \A i \in 1..k : /\ g[i].by \in Publishers /\ g[i].nr \in Nat \ {0}
                       /\ g[i].nr <= Len(reach[g[i].by])
                       /\ c >= publishing[g[i].by].next => g[i].nr < Len(reach[g[i].by])
  BY <1>1, <1>2, <1>13, <1>15, GotFacts DEF BusInv, NotBeyond
<1>19. ASSUME NEW s \in DOMAIN subs PROVE NotBeyond(s)'
  <2>1. CASE s = c
    <3>1. ASSUME NEW i \in 1..(k + 1)
          PROVE  /\ Got(c)'[i].nr <= Len(reach[Got(c)'[i].by])
                 /\ c >= publishing'[Got(c)'[i].by].next =>
                       Got(c)'[i].nr < Len(reach[Got(c)'[i].by])
      <4>1. CASE i = k + 1
        BY <4>1, <1>5, <1>10, <1>15, <1>17
      <4>2. CASE i # k + 1
        <5>1. i \in 1..k /\ Got(c)'[i] = g[i]
          BY <4>2, <1>15
        <5>2. CASE g[i].by = p
          BY <5>1, <5>2, <1>5, <1>10, <1>18
        <5>3. CASE g[i].by # p
          BY <5>1, <5>3, <1>10, <1>18
        <5> QED
          BY <5>2, <5>3
      <4> QED
        BY <4>1, <4>2
    <3> QED
      BY <2>1, <3>1, <1>4, <1>15 DEF NotBeyond
  <2>2. CASE s # c
    <3> SUFFICES ASSUME NEW i \in DOMAIN Got(s),
                        s >= publishing'[Got(s)[i].by].next
                 PROVE  s >= publishing[Got(s)[i].by].next
      BY <2>2, <1>4, <1>16 DEF BusInv, NotBeyond
    <3>1. Got(s)[i].by \in Publishers /\ s \in Nat
      BY <1>1, GotFacts
    <3> QED
      BY <3>1, <1>0, <1>10, <1>11
  <2> QED
    BY <2>1, <2>2
<1>20. ASSUME NEW s \in DOMAIN subs PROVE InOrder(s)'
  <2>1. CASE s = c
    <3>1. /\ \A i, j \in 1..k : i < j /\ g[i].by = g[j].by => g[i].nr < g[j].nr
          /\ \A i \in 1..k : reach[g[i].by][g[i].nr] >= c
      BY <1>2, <1>13, <1>15 DEF BusInv, CopiesAccounted, CopiesInOrder, InOrder
    <3>2. ASSUME NEW i \in 1..(k + 1), NEW j \in 1..(k + 1), i < j,
                 Got(c)'[i].by = Got(c)'[j].by
          PROVE  Got(c)'[i].nr < Got(c)'[j].nr
      <4>1. i \in 1..k /\ Got(c)'[i] = g[i]
        BY <3>2, <1>15
      <4>2. CASE j = k + 1
        <5>1. g[i].by = p
          BY <3>2, <4>1, <4>2, <1>15, <1>17
        <5> QED
          BY <4>1, <4>2, <5>1, <1>0, <1>5, <1>15, <1>17, <1>18
      <4>3. CASE j # k + 1
        <5>1. j \in 1..k /\ Got(c)'[j] = g[j]
          BY <4>3, <1>15
        <5> QED
          BY <3>1, <3>2, <4>1, <5>1
      <4> QED
        BY <4>2, <4>3
    <3>3. ASSUME NEW i \in 1..(k + 1)
          PROVE  reach[Got(c)'[i].by][Got(c)'[i].nr] >= c
      <4>1. CASE i = k + 1
        BY <4>1, <1>2, <1>5, <1>11, <1>15, <1>17
      <4>2. CASE i # k + 1
        <5>1. i \in 1..k /\ Got(c)'[i] = g[i]
          BY <4>2, <1>15
        <5> QED
          BY <3>1, <5>1
      <4> QED
        BY <4>1, <4>2
    <3> QED
      BY <2>1, <3>2, <3>3, <1>4, <1>15 DEF InOrder
  <2>2. CASE s # c
    BY <2>2, <1>4, <1>16 DEF BusInv, CopiesAccounted, CopiesInOrder, InOrder
  <2> QED
    BY <2>1, <2>2
<1>21. CopiesCounted'
  <2>1. SumsInt /\ SumsInt'
    BY <1>1, <1>9, SumsTyped, SumsTypedNext
  <2>2. /\ IsFiniteSet(Publishers)
        /\ ToOffer \in [Publishers -> Int] /\ ToOffer' \in [Publishers -> Int]
    BY <2>1 DEF SumsInt
  <2>11. /\ IsFiniteSet(DOMAIN subs)
        /\ Received \in [DOMAIN subs -> Int] /\ Received' \in [DOMAIN subs -> Int]
    BY <2>1, <1>3, <1>8 DEF SumsInt
  <2>3. /\ SumOf(ToReach, Publishers) \in Int /\ SumOf(ToOffer, Publishers) \in Int
        /\ SumOf(Received, DOMAIN subs) \in Int
    BY <2>1 DEF SumsInt
  <2>4. /\ ToOffer'[p] = ToOffer[p] - 1 /\ ToOffer[p] \in Int
        /\ \A q \in Publishers \ {p} : ToOffer'[q] = ToOffer[q]
    BY Offered
  <2>5. SumOf(ToOffer', Publishers) = SumOf(ToOffer, Publishers) - 1
    BY <2>2, <2>4, SumFalls, Zenon
  <2>6. /\ Received'[c] = Received[c] + 1
        /\ \A s \in DOMAIN subs \ {c} : Received'[s] = Received[s]
    BY <1>2, <1>3, <1>8, <1>13, <1>15, <1>16 DEF Received
  <2>7. SumOf(Received', DOMAIN subs) = SumOf(Received, DOMAIN subs) + 1
    BY <1>2, <2>11, <2>6, SumRises, Zenon
  <2>8. ToReach' = ToReach
    BY <1>4 DEF ToReach
  <2>9. dropped \in Nat /\ CopiesCounted
    BY <1>1 DEF BusInv, CopiesAccounted, BusType
  <2>10. DOMAIN subs' = DOMAIN subs
    BY <1>3, <1>8
  <2> QED
    BY <1>4, <2>3, <2>5, <2>7, <2>8, <2>9, <2>10 DEF CopiesCounted
<1> QED
  BY <1>3, <1>8, <1>9, <1>12, <1>19, <1>20, <1>21 DEF BusInv, CopiesAccounted, CopiesInOrder

\* One or the other.
LEMMA KeptByOffer ==
    ASSUME BusInv, NEW p \in Publishers, Offer(p)
    PROVE  BusInv'
<1>1. Len(subs[publishing[p].next]) \in Nat
  BY Offered, GotFacts DEF BusInv
<1> QED
  BY <1>1, BufSizeAssumption, KeptByDrop, KeptByQueue

\* Whatever the publishers, subscribers and goroutines of the bus do, in any
\* order, the invariant holds.
THEOREM BusInvariant == BusSpec => []BusInv
<1>1. BusInit => BusInv
  BY BusInitially
<1>2. BusInv /\ [BusNext]_busVars => BusInv'
  BY KeptBySubscribe, KeptByBeginPublish, KeptByOffer, KeptByHandle,
     KeptByEndSubscription, KeptByBusStuttering DEF BusNext
<1> QED
  BY <1>1, <1>2, PTL DEF BusSpec

-----------------------------------------------------------------------------
(* NetMap.                                                                 *)

\* The kinds of calls in a row.
KindsOf(stored, row) == {k \in Asked(stored) : GroupOf(k) = row.group}

\* The calls in the window are finitely many kinds, with numbers to sum up.
LEMMA AskedFinite ==
    ASSUME NEW Kinds, IsFiniteSet(Kinds), NEW stored \in [Kinds -> Nat]
    PROVE  /\ Asked(stored) \in SUBSET Kinds /\ IsFiniteSet(Asked(stored))
           /\ \A S \in SUBSET Asked(stored) :
                 IsFiniteSet(S) /\ S \in SUBSET Kinds /\ SumOf(stored, S) \in Int
           /\ stored \in [Kinds -> Int]
<1>1. Asked(stored) \in SUBSET Kinds
  BY DEF Asked
<1>2. \A S \in SUBSET Asked(stored) : IsFiniteSet(S) /\ S \in SUBSET Kinds
  BY <1>1, FS_Subset
<1>3. stored \in [Kinds -> Int]
  OBVIOUS
<1>4. ASSUME NEW S \in SUBSET Asked(stored) PROVE SumOf(stored, S) \in Int
  <2>1. IsFiniteSet(S) /\ S \in SUBSET Kinds
    BY <1>2
  <2> QED
    BY <1>3, <2>1, SumTakesOne
<1> QED
  BY <1>1, <1>2, <1>3, <1>4

\* A row is that of the kinds of its group.
LEMMA RowsAre ==
    ASSUME NEW Kinds, IsFiniteSet(Kinds), NEW stored \in [Kinds -> Nat],
           NEW row \in Groups(stored)
    PROVE  /\ row.calls = SumOf(stored, KindsOf(stored, row))
           /\ row.errors = SumOf(stored, {k \in KindsOf(stored, row) : k.error})
           /\ row.warnings = SumOf(stored, {k \in KindsOf(stored, row) : k.warned})
           /\ row.calls \in Int /\ row.errors \in Int /\ row.warnings \in Int
           /\ row = Row(stored, row.group)
           /\ \E k \in Asked(stored) : row.group = GroupOf(k)
<1>1. PICK k \in Asked(stored) : row = Row(stored, GroupOf(k))
  BY DEF Groups
<1>2. /\ row.group = GroupOf(k)
      /\ row.calls = SumOf(stored, {c \in Asked(stored) : GroupOf(c) = GroupOf(k)})
      /\ row.errors = SumOf(stored, {c \in {d \in Asked(stored) : GroupOf(d) = GroupOf(k)} : c.error})
      /\ row.warnings = SumOf(stored, {c \in {d \in Asked(stored) : GroupOf(d) = GroupOf(k)} : c.warned})
  BY <1>1 DEF Row
<1>3. KindsOf(stored, row) = {c \in Asked(stored) : GroupOf(c) = GroupOf(k)}
  BY <1>2 DEF KindsOf
<1>4. /\ row.calls = SumOf(stored, KindsOf(stored, row))
      /\ row.errors = SumOf(stored, {c \in KindsOf(stored, row) : c.error})
      /\ row.warnings = SumOf(stored, {c \in KindsOf(stored, row) : c.warned})
  BY <1>2, <1>3
<1>5. /\ KindsOf(stored, row) \in SUBSET Asked(stored)
      /\ {c \in KindsOf(stored, row) : c.error} \in SUBSET Asked(stored)
      /\ {c \in KindsOf(stored, row) : c.warned} \in SUBSET Asked(stored)
  BY DEF KindsOf
<1>6. row.calls \in Int /\ row.errors \in Int /\ row.warnings \in Int
  BY <1>4, <1>5, AskedFinite
<1> QED
  BY <1>1, <1>2, <1>4, <1>6

\* There are finitely many rows.
LEMMA RowsFinite ==
    ASSUME NEW Kinds, IsFiniteSet(Kinds), NEW stored \in [Kinds -> Nat]
    PROVE  IsFiniteSet(Groups(stored))
<1>0. PICK F : F = [k \in Asked(stored) |-> Row(stored, GroupOf(k))]
  OBVIOUS
<1>1. DOMAIN F = Asked(stored) /\ Groups(stored) = {F[k] : k \in Asked(stored)}
  BY <1>0 DEF Groups
<1>2. IsFiniteSet(Asked(stored))
  BY AskedFinite
<1> QED
  BY <1>1, <1>2, ImageFinite

\* The kinds of calls in some of the rows.
InRows(stored, rows) == {k \in Asked(stored) : Row(stored, GroupOf(k)) \in rows}

\* Summed up over rows, the calls are those of the rows' kinds.
LEMMA SumOverRows ==
    ASSUME NEW Kinds, IsFiniteSet(Kinds), NEW stored \in [Kinds -> Nat],
           NEW rows \in SUBSET Groups(stored)
    PROVE  /\ Calls(rows) = SumOf(stored, InRows(stored, rows))
           /\ Errors(rows) = SumOf(stored, {k \in InRows(stored, rows) : k.error})
           /\ Warnings(rows) = SumOf(stored, {k \in InRows(stored, rows) : k.warned})
<1>0. PICK K : K = InRows(stored, rows)
  OBVIOUS
<1>1. IsFiniteSet(rows)
  BY RowsFinite, FS_Subset
<1>2. ASSUME NEW S \in SUBSET K, NEW h \in [rows -> Int],
             \A row \in rows : h[row] = SumOf(stored, KindsOf(stored, row) \cap S)
      PROVE  SumOf(h, rows) = SumOf(stored, S)
  <2> DEFINE key == [k \in S |-> Row(stored, GroupOf(k))]
  <2>1. key \in [S -> rows]
    BY <1>0 DEF InRows
  <2>2. ASSUME NEW row \in rows
        PROVE  KindsOf(stored, row) \cap S = {k \in S : key[k] = row}
    <3>1. row = Row(stored, row.group)
      BY RowsAre
    <3>2. \A g : Row(stored, g).group = g
      BY DEF Row
    <3>3. \A k \in S : Row(stored, GroupOf(k)) = row <=> GroupOf(k) = row.group
      BY <3>1, <3>2
    <3> QED
      BY <1>0, <3>3 DEF KindsOf, InRows
  <2>3. \A row \in rows : h[row] = SumOf(stored, {k \in S : key[k] = row})
    BY <1>2, <2>2
  <2>4. IsFiniteSet(S) /\ S \in SUBSET Kinds /\ stored \in [Kinds -> Int]
    BY <1>0, AskedFinite DEF InRows
  <2> HIDE DEF key
  <2> QED
    BY <1>1, <2>1, <2>3, <2>4, SumBy
<1>3. \A row \in rows : KindsOf(stored, row) \in SUBSET K
  <2> SUFFICES ASSUME NEW row \in rows, NEW k \in KindsOf(stored, row) PROVE k \in K
    OBVIOUS
  <2>1. row = Row(stored, GroupOf(k)) /\ k \in Asked(stored)
    BY RowsAre DEF KindsOf
  <2> QED
    BY <1>0, <2>1 DEF InRows
<1>4. Calls(rows) = SumOf(stored, K)
  <2>1. \A row \in rows : row.calls = SumOf(stored, KindsOf(stored, row) \cap K) /\ row.calls \in Int
    <3> SUFFICES ASSUME NEW row \in rows
                 PROVE  row.calls = SumOf(stored, KindsOf(stored, row) \cap K) /\ row.calls \in Int
      OBVIOUS
    <3>1. KindsOf(stored, row) \cap K = KindsOf(stored, row)
      BY <1>3
    <3>2. row.calls = SumOf(stored, KindsOf(stored, row)) /\ row.calls \in Int
      BY RowsAre
    <3> QED
      BY <3>1, <3>2
  <2>2. [row \in rows |-> row.calls] \in [rows -> Int]
    BY <2>1
  <2> QED
    BY <1>2, <2>1, <2>2 DEF Calls
<1>5. Errors(rows) = SumOf(stored, {k \in K : k.error})
  <2>1. \A row \in rows : KindsOf(stored, row) \cap {k \in K : k.error} = {k \in KindsOf(stored, row) : k.error}
    BY <1>3
  <2>2. ASSUME NEW row \in rows
        PROVE  /\ row.errors = SumOf(stored, KindsOf(stored, row) \cap {k \in K : k.error})
               /\ row.errors \in Int
    <3>1. row.errors = SumOf(stored, {k \in KindsOf(stored, row) : k.error}) /\ row.errors \in Int
      BY RowsAre
    <3> QED
      BY <2>1, <3>1
  <2>3. [row \in rows |-> row.errors] \in [rows -> Int]
    BY <2>2
  <2> QED
    BY <1>2, <2>2, <2>3 DEF Errors
<1>6. Warnings(rows) = SumOf(stored, {k \in K : k.warned})
  <2>1. \A row \in rows : KindsOf(stored, row) \cap {k \in K : k.warned} = {k \in KindsOf(stored, row) : k.warned}
    BY <1>3
  <2>2. ASSUME NEW row \in rows
        PROVE  /\ row.warnings = SumOf(stored, KindsOf(stored, row) \cap {k \in K : k.warned})
               /\ row.warnings \in Int
    <3>1. row.warnings = SumOf(stored, {k \in KindsOf(stored, row) : k.warned}) /\ row.warnings \in Int
      BY RowsAre
    <3> QED
      BY <2>1, <3>1
  <2>3. [row \in rows |-> row.warnings] \in [rows -> Int]
    BY <2>2
  <2> QED
    BY <1>2, <2>2, <2>3 DEF Warnings
<1> QED
  BY <1>0, <1>4, <1>5, <1>6

\* The rows behind an edge have the calls of the agent to the backend.
LEMMA EdgesAre ==
    ASSUME NEW Kinds, IsFiniteSet(Kinds), NEW stored \in [Kinds -> Nat],
           NEW k \in Asked(stored), NEW e, e = Edge(Groups(stored), EdgeOf(GroupOf(k)))
    PROVE  /\ EdgeCountsItsCalls(stored, e)
           /\ <<e.agent, e.backend>> = EdgeOf(GroupOf(k))
           /\ e.agent = k.agent
<1> DEFINE x == EdgeOf(GroupOf(k))
           mine == {row \in Groups(stored) : EdgeOf(row.group) = x}
           K == {c \in Asked(stored) : EdgeOf(GroupOf(c)) = x}
<1>1. /\ e.agent = x[1] /\ e.backend = x[2]
      /\ e.calls = Calls(mine) /\ e.errors = Errors(mine) /\ e.warnings = Warnings(mine)
  BY DEF Edge
<1>2. x = <<x[1], x[2]>> /\ x[1] = k.agent
  BY DEF EdgeOf, GroupOf
<1>3. InRows(stored, mine) = K
  <2>1. \A g : Row(stored, g).group = g
    BY DEF Row
  <2>2. \A c \in Asked(stored) : Row(stored, GroupOf(c)) \in Groups(stored)
    BY DEF Groups
  <2> QED
    BY <2>1, <2>2 DEF InRows
<1>4. mine \in SUBSET Groups(stored)
  OBVIOUS
<1>5. K = {c \in Asked(stored) : EdgeOf(GroupOf(c)) = <<e.agent, e.backend>>}
  BY <1>1, <1>2
<1> HIDE DEF mine, K
<1>6. /\ Calls(mine) = SumOf(stored, K)
      /\ Errors(mine) = SumOf(stored, {c \in K : c.error})
      /\ Warnings(mine) = SumOf(stored, {c \in K : c.warned})
  BY <1>3, <1>4, SumOverRows
<1>7. EdgeCountsItsCalls(stored, e)
  BY <1>1, <1>5, <1>6 DEF EdgeCountsItsCalls
<1> QED
  BY <1>1, <1>2, <1>7

\* The edges are those of the calls.
LEMMA EdgesGiven ==
    ASSUME NEW stored, NEW e
    PROVE  e \in Edges(Groups(stored)) <=>
               \E k \in Asked(stored) : e = Edge(Groups(stored), EdgeOf(GroupOf(k)))
<1>1. \A k \in Asked(stored) : /\ Row(stored, GroupOf(k)) \in Groups(stored)
                              /\ Row(stored, GroupOf(k)).group = GroupOf(k)
  BY DEF Groups, Row
<1>2. \A row \in Groups(stored) : \E k \in Asked(stored) : row.group = GroupOf(k)
  <2>1. \A g : Row(stored, g).group = g
    BY DEF Row
  <2> QED
    BY <2>1 DEF Groups
<1> QED
  BY <1>1, <1>2 DEF Edges

\* The agents are those of the calls, each with all of its calls.
LEMMA AgentsAre ==
    ASSUME NEW Kinds, IsFiniteSet(Kinds), NEW stored \in [Kinds -> Nat]
    PROVE  /\ DOMAIN AgentCalls(Groups(stored)) = {k.agent : k \in Asked(stored)}
           /\ \A a \in {k.agent : k \in Asked(stored)} :
                 AgentCalls(Groups(stored))[a] = SumOf(stored, CallsOf(stored, a))
<1> DEFINE A == {k.agent : k \in Asked(stored)}
<1>1. \A k \in Asked(stored) : /\ Row(stored, GroupOf(k)) \in Groups(stored)
                              /\ Row(stored, GroupOf(k)).group = GroupOf(k)
                              /\ GroupOf(k).agent = k.agent
  BY DEF Groups, Row, GroupOf
<1>2. \A row \in Groups(stored) : \E k \in Asked(stored) : row.group = GroupOf(k)
  <2>1. \A g : Row(stored, g).group = g
    BY DEF Row
  <2> QED
    BY <2>1 DEF Groups
<1>3. A = {row.group.agent : row \in Groups(stored)}
  BY <1>1, <1>2
<1>4. ASSUME NEW a \in A
      PROVE  AgentCalls(Groups(stored))[a] = SumOf(stored, CallsOf(stored, a))
  <2> DEFINE mine == {row \in Groups(stored) : row.group.agent = a}
  <2>1. AgentCalls(Groups(stored))[a] = Calls(mine)
    BY <1>3 DEF AgentCalls
  <2>2. mine \in SUBSET Groups(stored) /\ InRows(stored, mine) = CallsOf(stored, a)
    BY <1>1 DEF CallsOf, InRows
  <2> HIDE DEF mine
  <2>3. Calls(mine) = SumOf(stored, CallsOf(stored, a))
    BY <2>2, SumOverRows
  <2> QED
    BY <2>1, <2>3
<1>5. DOMAIN AgentCalls(Groups(stored)) = A
  BY <1>3 DEF AgentCalls
<1> QED
  BY <1>4, <1>5

\* The edges of an agent have all of its calls.
LEMMA EdgesOfAgent ==
    ASSUME NEW Kinds, IsFiniteSet(Kinds), NEW stored \in [Kinds -> Nat],
           NEW a, NEW R, R = {e \in Edges(Groups(stored)) : e.agent = a}
    PROVE  Calls(R) = SumOf(stored, CallsOf(stored, a))
<1> DEFINE K == CallsOf(stored, a)
           edge(k) == Edge(Groups(stored), EdgeOf(GroupOf(k)))
<1>1. K \in SUBSET Asked(stored)
  BY DEF CallsOf
<1>2. IsFiniteSet(K) /\ K \in SUBSET Kinds /\ stored \in [Kinds -> Int]
  BY <1>1, AskedFinite
<1>3. \A k \in Asked(stored) : /\ edge(k) \in Edges(Groups(stored))
                              /\ edge(k).agent = k.agent
                              /\ <<edge(k).agent, edge(k).backend>> = EdgeOf(GroupOf(k))
                              /\ EdgeCountsItsCalls(stored, edge(k))
  BY EdgesAre, EdgesGiven
<1>4. PICK key : key = [k \in K |-> edge(k)]
  OBVIOUS
<1>5. key \in [K -> R]
  BY <1>1, <1>3, <1>4 DEF CallsOf
<1>6. R = {key[k] : k \in K}
  <2>1. \A e \in R : \E k \in K : e = edge(k)
    BY <1>3, EdgesGiven DEF CallsOf
  <2> QED
    BY <1>4, <1>5, <2>1
<1>7. IsFiniteSet(R)
  BY <1>2, <1>4, <1>6, ImageFinite
<1>8. ASSUME NEW e \in R
      PROVE  e.calls = SumOf(stored, {k \in K : key[k] = e}) /\ e.calls \in Int
  <2>1. PICK c \in K : e = edge(c)
    BY <1>4, <1>6
  <2>2. /\ EdgeCountsItsCalls(stored, e) /\ e.agent = a
        /\ <<e.agent, e.backend>> = EdgeOf(GroupOf(c))
    BY <1>1, <1>3, <2>1
  <2>3. \A k \in Asked(stored) : EdgeOf(GroupOf(k)) = <<e.agent, e.backend>> => k.agent = a /\ edge(k) = e
    BY <1>3, <2>1, <2>2
  <2>4. \A k \in K : edge(k) = e => EdgeOf(GroupOf(k)) = <<e.agent, e.backend>>
    BY <1>1, <1>3
  <2>5. {k \in K : key[k] = e} = {k \in Asked(stored) : EdgeOf(GroupOf(k)) = <<e.agent, e.backend>>}
    BY <1>1, <1>4, <2>3, <2>4 DEF CallsOf
  <2>6. e.calls = SumOf(stored, {k \in K : key[k] = e})
    BY <2>2, <2>5 DEF EdgeCountsItsCalls
  <2>7. {k \in K : key[k] = e} \in SUBSET Asked(stored)
    BY <1>1
  <2> QED
    BY <2>6, <2>7, AskedFinite
<1>9. PICK h : h = [e \in R |-> e.calls]
  OBVIOUS
<1>10. h \in [R -> Int] /\ \A e \in R : h[e] = SumOf(stored, {k \in K : key[k] = e})
  BY <1>8, <1>9
<1> HIDE DEF K
<1>11. SumOf(h, R) = SumOf(stored, K)
  BY <1>2, <1>5, <1>7, <1>10, SumBy
<1> QED
  BY <1>9, <1>11 DEF Calls, K

\* The order of the agents is total: who comes before another has fewer before
\* itself.
LEMMA BeforeFacts ==
    ASSUME NEW A, A \subseteq Int, IsFiniteSet(A), NEW f \in [A -> Int]
    PROVE  /\ \A a \in A : /\ Before(f, a) \in SUBSET A /\ IsFiniteSet(Before(f, a))
                           /\ Cardinality(Before(f, a)) \in Nat
           /\ \A a, b \in A : b \in Before(f, a) =>
                                 Cardinality(Before(f, b)) < Cardinality(Before(f, a))
           /\ \A a, b \in A : a # b => a \in Before(f, b) \/ b \in Before(f, a)
           /\ \A a, b \in A : b \notin Before(f, a) => f[b] <= f[a]
<1>1. ASSUME NEW a \in A
      PROVE  /\ Before(f, a) \in SUBSET A /\ IsFiniteSet(Before(f, a))
             /\ Cardinality(Before(f, a)) \in Nat
  <2>1. Before(f, a) \in SUBSET A
    BY DEF Before
  <2> QED
    BY <2>1, FS_Subset, FS_CardinalityType
<1>2. ASSUME NEW a \in A, NEW b \in A, b \in Before(f, a)
      PROVE  Cardinality(Before(f, b)) < Cardinality(Before(f, a))
  <2>1. Before(f, b) \subseteq Before(f, a) /\ b \notin Before(f, b)
    <3>1. DOMAIN f = A /\ \A c \in A : f[c] \in Int /\ c \in Int
      OBVIOUS
    <3>2. f[b] > f[a] \/ (f[b] = f[a] /\ b < a)
      BY <1>2 DEF Before
    <3>3. ASSUME NEW c \in Before(f, b) PROVE c \in Before(f, a)
      BY <3>1, <3>2 DEF Before
    <3>4. b \notin Before(f, b)
      <4>1. f[b] \in Int /\ b \in Int
        BY <3>1
      <4> QED
        BY <4>1 DEF Before
    <3> QED
      BY <3>3, <3>4
  <2>2. Before(f, b) \in SUBSET Before(f, a) /\ Before(f, b) # Before(f, a)
    BY <1>2, <2>1
  <2>3. /\ Cardinality(Before(f, b)) <= Cardinality(Before(f, a))
        /\ Cardinality(Before(f, b)) # Cardinality(Before(f, a))
    BY <1>1, <2>2, FS_Subset
  <2> QED
    BY <1>1, <2>3
<1>3. \A a, b \in A : a # b => a \in Before(f, b) \/ b \in Before(f, a)
  <2> SUFFICES ASSUME NEW a \in A, NEW b \in A, a # b
               PROVE  a \in Before(f, b) \/ b \in Before(f, a)
    OBVIOUS
  <2>1. f[a] \in Int /\ f[b] \in Int /\ a \in Int /\ b \in Int /\ DOMAIN f = A
    OBVIOUS
  <2> QED
    BY <2>1 DEF Before
<1>4. \A a, b \in A : b \notin Before(f, a) => f[b] <= f[a]
  BY DEF Before
<1> QED
  BY <1>1, <1>2, <1>3, <1>4

\* Those that are kept are as many as may be, and no other is busier.
LEMMA KeptAre ==
    ASSUME NEW A, A \subseteq Int, IsFiniteSet(A), NEW f \in [A -> Int], NEW limit \in Int
    PROVE  /\ Kept(f, limit) \subseteq A
           /\ \A a \in A \ Kept(f, limit), b \in Kept(f, limit) : f[a] <= f[b]
           /\ A \ Kept(f, limit) # {} => limit > 0 /\ Cardinality(Kept(f, limit)) = limit
<1>0. PICK kept : kept = Kept(f, limit)
  OBVIOUS
<1>1. PICK size : size = [a \in A |-> Cardinality(Before(f, a))]
  OBVIOUS
<1>2. /\ size \in [A -> Nat]
      /\ \A a, b \in A : b \in Before(f, a) => size[b] < size[a]
  BY <1>1, BeforeFacts
<1>3. kept \subseteq A /\ \A a \in A : a \in kept <=> limit <= 0 \/ size[a] < limit
  BY <1>0, <1>1 DEF Kept
<1>4. ASSUME NEW a \in A \ kept, NEW b \in kept
      PROVE  b \in Before(f, a) /\ f[a] <= f[b]
  <2>1. limit > 0 /\ size[b] < limit /\ ~(size[a] < limit) /\ a # b /\ b \in A
    BY <1>3
  <2>2. size[b] < size[a]
    BY <1>2, <2>1
  <2>3. a \notin Before(f, b)
    BY <1>2, <2>1, <2>2
  <2> QED
    BY <2>1, <2>3, BeforeFacts
<1>5. ASSUME A \ kept # {}
      PROVE  limit > 0 /\ Cardinality(kept) = limit
  <2>1. limit > 0
    <3>1. PICK a \in A : a \notin kept
      BY <1>5
    <3> QED
      BY <1>3, <3>1
  <2>2. IsFiniteSet(kept) /\ Cardinality(kept) \in Nat
    BY <1>3, FS_Subset, FS_CardinalityType
  <2>3. Cardinality(kept) >= limit
    <3>1. PICK T : T = {size[a] : a \in A \ kept}
      OBVIOUS
    <3>2. T \subseteq Nat /\ T # {}
      BY <1>2, <1>5, <3>1
    <3>3. PICK n \in T : \A m \in T : n <= m
      BY <3>2, LeastElement
    <3>4. PICK a \in A \ kept : \A b \in A \ kept : size[a] <= size[b]
      BY <3>1, <3>3
    <3>5. \A b \in Before(f, a) : b \in kept
      <4> SUFFICES ASSUME NEW b \in Before(f, a), b \notin kept PROVE FALSE
        OBVIOUS
      <4>1. b \in A
        BY BeforeFacts
      <4>2. size[b] < size[a] /\ size[a] <= size[b]
        BY <1>2, <3>4, <4>1
      <4> QED
        BY <1>2, <4>1, <4>2
    <3>6. Before(f, a) = kept
      BY <1>4, <3>5
    <3>7. size[a] = Cardinality(kept) /\ ~(size[a] < limit) /\ size[a] \in Nat
      BY <1>1, <1>2, <1>3, <3>6
    <3> QED
      BY <3>7
  <2>4. Cardinality(kept) <= limit
    <3>1. kept # {}
      BY <2>1, <2>2, <2>3, FS_EmptySet
    <3>2. PICK T : T = {limit - size[a] : a \in kept}
      OBVIOUS
    <3>3. T \subseteq Nat /\ T # {}
      <4>1. \A a \in kept : size[a] \in Nat /\ size[a] < limit
        BY <1>2, <1>3, <2>1
      <4>2. \A a \in kept : limit - size[a] \in Nat
        BY <4>1
      <4> QED
        BY <3>1, <3>2, <4>2
    <3>4. PICK n \in T : \A m \in T : n <= m
      BY <3>3, LeastElement
    <3>5. PICK z \in kept : \A b \in kept : limit - size[z] <= limit - size[b]
      BY <3>2, <3>4
    <3>6. kept \ {z} \subseteq Before(f, z)
      <4> SUFFICES ASSUME NEW b \in kept, b # z PROVE b \in Before(f, z)
        OBVIOUS
      <4>1. b \in A /\ z \in A /\ size[b] \in Nat /\ size[z] \in Nat
        BY <1>2, <1>3
      <4>2. ~(size[z] < size[b])
        BY <3>5, <4>1
      <4> QED
        BY <1>2, <4>1, <4>2, BeforeFacts
    <3>7. /\ z \in A /\ size[z] < limit /\ size[z] = Cardinality(Before(f, z)) /\ size[z] \in Nat
      BY <1>1, <1>2, <1>3, <2>1
    <3>8. IsFiniteSet(Before(f, z))
      BY <3>7, BeforeFacts
    <3>9. Cardinality(kept \ {z}) <= size[z]
      BY <3>6, <3>7, <3>8, FS_Subset
    <3>10. Cardinality(kept \ {z}) = Cardinality(kept) - 1
      BY <2>2, FS_RemoveElement
    <3> QED
      BY <2>2, <3>7, <3>9, <3>10
  <2> QED
    BY <2>1, <2>2, <2>3, <2>4
<1> QED
  BY <1>0, <1>3, <1>4, <1>5

\* Whatever calls are stored and however many agents are asked for.
THEOREM MapCounts ==
    ASSUME NEW Kinds, IsFiniteSet(Kinds), \A k \in Kinds : k.agent \in Int,
           NEW stored \in [Kinds -> Nat], NEW limit \in Int
    PROVE  CountsEveryCall(stored, limit)
<1>0. PICK rows : rows = Groups(stored)
  OBVIOUS
<1>1. PICK f : f = AgentCalls(rows)
  OBVIOUS
<1>2. PICK A : A = {k.agent : k \in Asked(stored)}
  OBVIOUS
<1>3. PICK kept : kept = Kept(f, limit)
  OBVIOUS
<1>4. PICK map : map = QueryTopology(stored, limit)
  OBVIOUS
<1>5. /\ DOMAIN map.agents = kept /\ \A a \in kept : map.agents[a] = f[a]
      /\ map.edges = {e \in Edges(rows) : e.agent \in kept}
      /\ map.backends = {e.backend : e \in {x \in Edges(rows) : x.agent \in kept}}
  BY <1>0, <1>1, <1>3, <1>4 DEF QueryTopology
<1>6. Asked(stored) \in SUBSET Kinds /\ IsFiniteSet(Asked(stored))
  BY AskedFinite
<1>7. A \subseteq Int /\ IsFiniteSet(A)
  <2>1. PICK g : g = [k \in Asked(stored) |-> k.agent]
    OBVIOUS
  <2>2. DOMAIN g = Asked(stored) /\ A = {g[k] : k \in Asked(stored)}
    BY <1>2, <2>1
  <2> QED
    <3>1. IsFiniteSet(Asked(stored)) /\ \A k \in Asked(stored) : k.agent \in Int
      BY <1>6
    <3>2. IsFiniteSet(A)
      BY <2>2, <3>1, ImageFinite
    <3> QED
      BY <1>2, <3>1, <3>2
<1>8. DOMAIN f = A /\ \A a \in A : f[a] = SumOf(stored, CallsOf(stored, a))
  BY <1>0, <1>1, <1>2, AgentsAre
<1>9. \A a \in A : SumOf(stored, CallsOf(stored, a)) \in Int
  BY AskedFinite DEF CallsOf
<1>10. f \in [A -> Int]
  <2>1. f = [a \in A |-> f[a]]
    BY <1>0, <1>1, <1>8 DEF AgentCalls
  <2> QED
    BY <1>8, <1>9, <2>1
<1>11. /\ kept \subseteq A
       /\ \A a \in A \ kept, b \in kept : f[a] <= f[b]
       /\ A \ kept # {} => limit > 0 /\ Cardinality(kept) = limit
  BY <1>3, <1>7, <1>10, KeptAre
<1>12. \A e \in map.edges : EdgeCountsItsCalls(stored, e)
  BY <1>0, <1>5, EdgesGiven, EdgesAre
<1>13. \A a \in kept : map.agents[a] = SumOf(stored, CallsOf(stored, a))
  BY <1>5, <1>8, <1>11
<1>14. ASSUME NEW a \in kept
       PROVE  map.agents[a] = Calls({e \in map.edges : e.agent = a})
  <2>1. {e \in map.edges : e.agent = a} = {e \in Edges(rows) : e.agent = a}
    BY <1>5
  <2>2. Calls({e \in map.edges : e.agent = a}) = SumOf(stored, CallsOf(stored, a))
    BY <1>0, <2>1, EdgesOfAgent
  <2> QED
    BY <1>13, <2>2
<1>15. \A a \in A \ kept, b \in kept : SumOf(stored, CallsOf(stored, a)) <= map.agents[b]
  BY <1>5, <1>8, <1>11
<1>16. map.backends = {EdgeOf(GroupOf(k))[2] : k \in {c \in Asked(stored) : c.agent \in kept}}
  <2>1. \A k \in Asked(stored) : /\ Edge(rows, EdgeOf(GroupOf(k))) \in Edges(rows)
                                /\ Edge(rows, EdgeOf(GroupOf(k))).agent = k.agent
    BY <1>0, EdgesGiven, EdgesAre
  <2>2. \A k \in Asked(stored) : Edge(rows, EdgeOf(GroupOf(k))).backend = EdgeOf(GroupOf(k))[2]
    BY DEF Edge
  <2>3. \A e \in Edges(rows) : \E k \in Asked(stored) : e = Edge(rows, EdgeOf(GroupOf(k)))
    BY <1>0, EdgesGiven
  <2> QED
    BY <1>5, <2>1, <2>2, <2>3
<1> QED
  BY <1>2, <1>4, <1>5, <1>11, <1>12, <1>13, <1>14, <1>15, <1>16 DEF CountsEveryCall

-----------------------------------------------------------------------------
(* Queries.                                                                *)

AnyLimit(limit) == limit.type \in {"number", "digits"} => limit.value \in Int

\* Half is a number, and a duration has one for it below zero and one above.
LEMMA HalfIs == Half \in Nat /\ Day < Half /\ Day \in Nat /\ Hour \in Nat /\ Hour > 0 /\ Day > Hour
BY QueriesAssumption

\* What fits a duration stays what it is; what does not becomes something that does.
LEMMA Wraps ==
    ASSUME NEW n \in Int
    PROVE  /\ Wrap(n) \in Int /\ Wrap(n) >= -Half /\ Wrap(n) < Half
           /\ n >= -Half /\ n < Half => Wrap(n) = n
<1> DEFINE b == 2 * Half
           x == n + Half
<1>1. b \in Nat \ {0} /\ x \in Int
  BY HalfIs
<1>2. x % b \in 0..(b - 1)
  BY <1>1
<1>3. x \in 0..(b - 1) => x % b = x
  <2> SUFFICES ASSUME x \in 0..(b - 1) PROVE x % b = x
    OBVIOUS
  <2>1. x % b = x
    BY <1>1
  <2> QED
    BY <2>1
<1>4. Wrap(n) = (x % b) - Half
  BY DEF Wrap
<1> QED
  BY <1>1, <1>2, <1>3, <1>4, HalfIs

AnySince(s) == s.n \in Int

\* The window of a tool ends now.  It begins where the question says, or later
\* if the question names more than a duration can hold.
LEMMA WindowAsked ==
    ASSUME NEW s, AnySince(s), NEW time \in Int
    PROVE  /\ ToolWindow(s, time).to = time
           /\ ToolWindow(s, time).from \in Int /\ AskedSpan(s) \in Int
           /\ ToolWindow(s, time).from >= time - AskedSpan(s)
           /\ ~TooLong(s) => ToolWindow(s, time).from = time - AskedSpan(s)
<1>1. ToolWindow(s, time).to = time /\ ToolWindow(s, time).from = time + Wrap(-ParseSince(s))
  BY DEF ToolWindow
<1>2. CASE s.unit = "d" /\ s.n > 0
  <2> PICK p : p = s.n * Day
    OBVIOUS
  <2>1. p \in Nat
    BY <1>2, HalfIs DEF AnySince
  <2>2. AskedSpan(s) = p /\ ParseSince(s) = Wrap(p)
    BY <1>2 DEF AskedSpan, ParseSince
  <2>3. /\ Wrap(p) \in Int /\ Wrap(p) >= -Half /\ Wrap(p) < Half
        /\ p < Half => Wrap(p) = p
    BY <2>1, Wraps, HalfIs
  <2> PICK w : w = Wrap(p)
    OBVIOUS
  <2>4. /\ Wrap(-w) \in Int /\ Wrap(-w) >= -Half
        /\ w < Half /\ -w >= -Half /\ -w < Half => Wrap(-w) = -w
    BY <2>3, Wraps, HalfIs
  <2>5. TooLong(s) <=> p >= Half
    BY <2>2 DEF TooLong
  <2>6. ~TooLong(s) => w = p
    BY <2>1, <2>3, <2>5, HalfIs
  <2>7. Wrap(-w) >= -p
    <3>1. CASE p >= Half
      BY <3>1, <2>1, <2>4, HalfIs
    <3>2. CASE p < Half
      BY <3>2, <2>1, <2>3, <2>4, HalfIs
    <3> QED
      BY <3>1, <3>2, <2>1, HalfIs
  <2>8. ~TooLong(s) => Wrap(-w) = -p
    BY <2>1, <2>4, <2>5, <2>6, HalfIs
  <2>9. ToolWindow(s, time).from = time + Wrap(-w)
    BY <1>1, <2>2
  <2> QED
    BY <1>1, <2>1, <2>2, <2>4, <2>7, <2>8, <2>9
<1>3. CASE s.unit = "h" /\ s.n > 0
  <2> PICK p : p = s.n * Hour
    OBVIOUS
  <2>1. p \in Nat
    BY <1>3, HalfIs DEF AnySince
  <2>2. AskedSpan(s) = p /\ ParseSince(s) = IF p < Half THEN p ELSE Day
    BY <1>3 DEF AskedSpan, ParseSince
  <2>3. TooLong(s) <=> p >= Half
    BY <2>2 DEF TooLong
  <2>4. CASE p < Half
    <3>1. Wrap(-p) = -p
      BY <2>1, <2>4, Wraps, HalfIs
    <3> QED
      BY <1>1, <2>1, <2>2, <2>4, <3>1
  <2>5. CASE p >= Half
    <3>1. Wrap(-Day) = -Day
      BY Wraps, HalfIs
    <3>2. ParseSince(s) = Day
      BY <2>1, <2>2, <2>5, HalfIs
    <3> QED
      BY <1>1, <2>1, <2>2, <2>3, <2>5, <3>1, <3>2, HalfIs
  <2> QED
    BY <2>1, <2>4, <2>5, HalfIs
<1>4. CASE ~(s.unit = "d" /\ s.n > 0) /\ ~(s.unit = "h" /\ s.n > 0)
  <2>1. AskedSpan(s) = Day /\ ParseSince(s) = Day
    BY <1>4 DEF AskedSpan, ParseSince
  <2>2. Wrap(-Day) = -Day
    BY Wraps, HalfIs
  <2> QED
    BY <1>1, <2>1, <2>2, HalfIs
<1> QED
  BY <1>2, <1>3, <1>4

\* Clamping takes the nearest of the allowed numbers.
LEMMA ClampNearest ==
    ASSUME NEW n \in Int, NEW lo \in Int, NEW hi \in Int, lo <= hi
    PROVE  /\ ClampInt(n, lo, hi) = Nearest(n, lo, hi)
           /\ ClampInt(n, lo, hi) \in lo..hi
<1> PICK c : c = ClampInt(n, lo, hi)
  OBVIOUS
<1>1. c \in lo..hi /\ \A j \in lo..hi : Distance(n, c) <= Distance(n, j)
  BY DEF ClampInt, Distance
<1>2. ASSUME NEW k \in lo..hi, Distance(n, k) <= Distance(n, c)
      PROVE  k = c
  BY <1>2 DEF ClampInt, Distance
<1> PICK m : m = Nearest(n, lo, hi)
  OBVIOUS
<1>3. m \in lo..hi /\ \A j \in lo..hi : Distance(n, m) <= Distance(n, j)
  BY <1>1 DEF Nearest
<1> QED
  BY <1>1, <1>2, <1>3

\* The number of rows a tool asks the store for.
LEMMA RowsAsked ==
    ASSUME NEW limit, AnyLimit(limit), NEW max \in Nat, NEW default \in 1..max
    PROVE  /\ ClampInt(IntArg(limit, default), 1, max) = AskedRows(limit, default, max)
           /\ AskedRows(limit, default, max) \in 1..max
<1>1. CASE limit.type \in {"number", "digits"}
  <2>1. IntArg(limit, default) = limit.value /\ limit.value \in Int
    BY <1>1 DEF IntArg, AnyLimit
  <2> PICK v \in Int : v = limit.value
    BY <2>1
  <2>2. AskedRows(limit, default, max) = Nearest(v, 1, max)
    BY <1>1 DEF AskedRows
  <2>3. 1 \in Int /\ max \in Int /\ 1 <= max /\ v \in Int
    OBVIOUS
  <2>4. ClampInt(v, 1, max) = Nearest(v, 1, max) /\ ClampInt(v, 1, max) \in 1..max
    BY <2>3, ClampNearest
  <2> QED
    BY <2>1, <2>2, <2>4
<1>2. CASE limit.type \notin {"number", "digits"}
  <2>1. IntArg(limit, default) = default
    BY <1>2 DEF IntArg
  <2>2. AskedRows(limit, default, max) = default
    BY <1>2 DEF AskedRows
  <2>3. ClampInt(default, 1, max) = default
    BY DEF ClampInt
  <2> QED
    BY <2>1, <2>2, <2>3
<1> QED
  BY <1>1, <1>2

\* What the store may answer are newest rows.
LEMMA NewestIsNewestOf ==
    ASSUME NEW rows, IsFiniteSet(rows), \A t \in rows : t.start \in Int,
           NEW n \in Nat, NEW answer \in Newest(rows, n)
    PROVE  NewestOf(answer, rows, n)
<1>1. /\ answer \subseteq rows
      /\ Cardinality(answer) = IF Cardinality(rows) < n THEN Cardinality(rows) ELSE n
      /\ \A s \in answer, t \in rows \ answer : s.start >= t.start
  BY DEF Newest
<1>2. Cardinality(rows) \in Nat /\ IsFiniteSet(answer) /\ Cardinality(answer) \in Nat
  BY <1>1, FS_Subset, FS_CardinalityType
<1>3. Cardinality(answer) <= n
  BY <1>1, <1>2
<1>4. Cardinality(answer) < n => answer = rows
  <2>1. Cardinality(answer) < n => Cardinality(answer) = Cardinality(rows)
    BY <1>1, <1>2
  <2> QED
    BY <1>1, <2>1, FS_Subset
<1>5. \A t \in rows \ answer : \A s \in answer : t.start <= s.start
  BY <1>1
<1> QED
  BY <1>1, <1>3, <1>4, <1>5 DEF NewestOf

\* Of finitely many rows there is a newest.
LEMMA OneIsNewest ==
    ASSUME NEW rows, IsFiniteSet(rows), rows # {}, \A t \in rows : t.start \in Int
    PROVE  \E m \in rows : \A t \in rows : m.start >= t.start
<1> PICK T : T = {s \in SUBSET rows : s = {} \/ \E m \in s : \A t \in s : m.start >= t.start}
  OBVIOUS
<1>1. {} \in T
  OBVIOUS
<1>2. ASSUME NEW s \in SUBSET rows, NEW x \in rows, s \in T
      PROVE  s \cup {x} \in T
  <2>1. CASE s = {}
    BY <2>1
  <2>2. CASE s # {}
    <3>1. PICK m \in s : \A t \in s : m.start >= t.start
      BY <1>2, <2>2
    <3>2. CASE x.start >= m.start
      <4>1. \A t \in s \cup {x} : x.start >= t.start
        BY <3>1, <3>2
      <4> QED
        BY <4>1
    <3>3. CASE ~(x.start >= m.start)
      <4>1. \A t \in s \cup {x} : m.start >= t.start
        BY <3>1, <3>3
      <4> QED
        BY <4>1, <3>1
    <3> QED
      BY <3>2, <3>3
  <2> QED
    BY <2>1, <2>2
<1>3. \A s \in SUBSET rows : s \in T
  BY <1>1, <1>2, SubsetInduction
<1> QED
  BY <1>3

\* So there always is an answer.
LEMMA NewestExists ==
    ASSUME NEW rows, IsFiniteSet(rows), \A t \in rows : t.start \in Int, NEW n \in Nat
    PROVE  Newest(rows, n) # {}
<1> DEFINE Cut(S) == \A s \in S, t \in rows \ S : s.start >= t.start
<1> PICK N \in Nat : N = Cardinality(rows)
  BY FS_CardinalityType
<1> PICK T : T = {k \in 0..N : \E S \in SUBSET rows : Cardinality(S) = k /\ Cut(S)}
  OBVIOUS
<1>1. 0 \in T
  BY FS_EmptySet
<1>2. ASSUME NEW k \in 1..N, k - 1 \in T
      PROVE  k \in T
  <2>1. PICK S \in SUBSET rows : Cardinality(S) = k - 1 /\ Cut(S)
    BY <1>2
  <2>2. IsFiniteSet(S) /\ IsFiniteSet(rows \ S)
    BY FS_Subset
  <2>3. rows \ S # {}
    <3>1. SUFFICES ASSUME rows \ S = {} PROVE FALSE
      OBVIOUS
    <3>2. S = rows
      BY <3>1
    <3> QED
      BY <2>1, <3>2
  <2>4. PICK m \in rows \ S : \A t \in rows \ S : m.start >= t.start
    BY <2>2, <2>3, OneIsNewest
  <2>5. Cardinality(S \cup {m}) = k
    <3>1. m \notin S /\ Cardinality(S) + 1 = k
      BY <2>1
    <3>2. Cardinality(S \cup {m}) = Cardinality(S) + 1
      BY <2>2, <3>1, FS_AddElement
    <3> QED
      BY <3>1, <3>2
  <2>6. Cut(S \cup {m})
    BY <2>1, <2>4
  <2>7. S \cup {m} \in SUBSET rows /\ k \in 0..N
    OBVIOUS
  <2> QED
    BY <2>5, <2>6, <2>7
<1>3. \A k \in 0..N : k \in T
  <2> HIDE DEF Cut
  <2> QED
    BY <1>1, <1>2, InductionUpTo
<1> PICK k \in 0..N : k = IF N < n THEN N ELSE n
  OBVIOUS
<1>4. PICK S \in SUBSET rows : Cardinality(S) = k /\ Cut(S)
  BY <1>3
<1>5. S \in Newest(rows, n)
  BY <1>4 DEF Newest
<1> QED
  BY <1>5

Rows(rows) == IsFiniteSet(rows) /\ \A t \in rows : t.start \in Int
FlagGiven(flag) == flag \in {NoArg, TruthArg(TRUE), TruthArg(FALSE)}
AgentGiven(arg) == \/ arg = NoArg
                   \/ arg.type = "word" /\ arg.value # NoText
AnyToolArgs(args) ==
    /\ AnySince(args.since) /\ AnyLimit(args.limit)
    /\ FlagGiven(args.only_errors) /\ FlagGiven(args.only_warnings)
    /\ AgentGiven(args.agent_id)
    /\ args.keyword.type = "word" /\ args.keyword.value # NoText

LEMMA FlagRead ==
    ASSUME NEW flag, FlagGiven(flag)
    PROVE  BoolArg(flag) <=> flag = TruthArg(TRUE)
BY DEF FlagGiven, BoolArg, NoArg, TruthArg

LEMMA WordRead ==
    ASSUME NEW arg
    PROVE  /\ arg.type = "word" => StrArg(arg) = arg.value
           /\ arg = NoArg => StrArg(arg) = NoText /\ arg.type # "word"
BY DEF StrArg, NoArg

\* What the query is given by list_traces.
Filter(args) ==
    [onlyErrors |-> BoolArg(args.only_errors), onlyWarnings |-> BoolArg(args.only_warnings),
     agent |-> StrArg(args.agent_id),
     limit |-> ClampInt(IntArg(args.limit, ToolRows), 1, ToolRowsMax)]

\* The filter of list_traces takes the traces that are wanted.
LEMMA FilterTakes ==
    ASSUME NEW t, NEW args, AnyToolArgs(args)
    PROVE  (Selected(t, Filter(args)) /\ Filter(args).agent \in {NoText, t.agent})
           <=> /\ args.agent_id.type = "word" => t.agent = args.agent_id.value
               /\ \/ args.only_errors # TruthArg(TRUE) /\ args.only_warnings # TruthArg(TRUE)
                  \/ args.only_errors = TruthArg(TRUE) /\ t.errors
                  \/ args.only_warnings = TruthArg(TRUE) /\ t.warnings
<1>1. /\ Filter(args).onlyErrors = BoolArg(args.only_errors)
      /\ Filter(args).onlyWarnings = BoolArg(args.only_warnings)
      /\ Filter(args).agent = StrArg(args.agent_id)
  BY DEF Filter
<1>2. /\ BoolArg(args.only_errors) <=> args.only_errors = TruthArg(TRUE)
      /\ BoolArg(args.only_warnings) <=> args.only_warnings = TruthArg(TRUE)
  BY FlagRead DEF AnyToolArgs
<1>3. StrArg(args.agent_id) \in {NoText, t.agent}
      <=> (args.agent_id.type = "word" => t.agent = args.agent_id.value)
  <2>1. CASE args.agent_id = NoArg
    BY <2>1, WordRead
  <2>2. CASE args.agent_id.type = "word" /\ args.agent_id.value # NoText
    BY <2>2, WordRead
  <2> QED
    BY <2>1, <2>2 DEF AnyToolArgs, AgentGiven
<1>4. Selected(t, Filter(args)) <=>
        \/ args.only_errors # TruthArg(TRUE) /\ args.only_warnings # TruthArg(TRUE)
        \/ args.only_errors = TruthArg(TRUE) /\ t.errors
        \/ args.only_warnings = TruthArg(TRUE) /\ t.warnings
  BY <1>1, <1>2 DEF Selected
<1> QED
  BY <1>1, <1>3, <1>4

\* The store takes the limits of the tools as they are.
LEMMA LimitKept ==
    ASSUME NEW n \in 1..ToolRowsMax
    PROVE  Limited(n, PageRows, PageRowsMax) = n
BY QueriesAssumption DEF Limited

\* list_traces answers with the newest of the traces it was asked for.
THEOREM ListsAnswer ==
    ASSUME NEW rows, Rows(rows), NEW time \in Int, NEW args, AnyToolArgs(args)
    PROVE  ListsAsAsked(rows, args, time)
<1> PICK w : w = ToolWindow(args.since, time)
  OBVIOUS
<1> PICK n : n = AskedRows(args.limit, ToolRows, ToolRowsMax)
  OBVIOUS
<1> PICK sel : sel = {t \in rows : /\ InRange(t, w) /\ Selected(t, Filter(args))
                                  /\ Filter(args).agent \in {NoText, t.agent}}
  OBVIOUS
<1>1. /\ w.to = time /\ w.from \in Int /\ AskedSpan(args.since) \in Int
      /\ w.from >= time - AskedSpan(args.since)
      /\ ~TooLong(args.since) => w.from = time - AskedSpan(args.since)
  BY WindowAsked DEF AnyToolArgs
<1>2. n \in 1..ToolRowsMax /\ Filter(args).limit = n
  <2>1. ToolRowsMax \in Nat /\ ToolRows \in 1..ToolRowsMax
    BY QueriesAssumption
  <2> QED
    BY <2>1, RowsAsked DEF AnyToolArgs, Filter
<1>3. ListTraces(rows, args, time) = Newest(sel, n)
  BY <1>2, LimitKept DEF ListTraces, QueryTraces, Filter
<1>4. sel \subseteq rows /\ IsFiniteSet(sel) /\ (\A t \in sel : t.start \in Int) /\ n \in Nat
  BY <1>2, FS_Subset, QueriesAssumption DEF Rows
<1>5. \A t \in rows : InRange(t, w) => t \in AskedTraces(rows, args.since, time)
  BY <1>1 DEF InRange, AskedTraces, Rows
<1>6. ~TooLong(args.since) => sel = WantedTraces(rows, args, time)
  <2> SUFFICES ASSUME ~TooLong(args.since), NEW t \in rows
               PROVE  t \in sel <=> t \in WantedTraces(rows, args, time)
    BY DEF WantedTraces, AskedTraces
  <2>1. InRange(t, w) <=> t \in AskedTraces(rows, args.since, time)
    BY <1>1 DEF InRange, AskedTraces
  <2> QED
    BY <2>1, FilterTakes DEF WantedTraces
<1>7. ListTraces(rows, args, time) # {}
  BY <1>3, <1>4, NewestExists
<1>8. ASSUME NEW answer \in ListTraces(rows, args, time)
      PROVE  IF TooLong(args.since) THEN answer \subseteq AskedTraces(rows, args.since, time)
             ELSE NewestOf(answer, WantedTraces(rows, args, time), n)
  <2>1. NewestOf(answer, sel, n)
    BY <1>3, <1>4, <1>8, NewestIsNewestOf
  <2>2. answer \subseteq sel
    BY <2>1 DEF NewestOf
  <2>3. sel \subseteq AskedTraces(rows, args.since, time)
    BY <1>5
  <2> QED
    BY <1>6, <2>1, <2>2, <2>3
<1> QED
  BY <1>7, <1>8 DEF ListsAsAsked

\* get_metrics counts the traces of the same window.
THEOREM MetricsCount ==
    ASSUME NEW rows, Rows(rows), NEW time \in Int, NEW args, AnyToolArgs(args)
    PROVE  CountsAsAsked(rows, args, time)
<1> PICK w : w = ToolWindow(args.since, time)
  OBVIOUS
<1>1. ASSUME ~TooLong(args.since)
      PROVE  {t \in rows : InRange(t, w)} = AskedTraces(rows, args.since, time)
  <2>1. w.to = time /\ w.from = time - AskedSpan(args.since)
    BY <1>1, WindowAsked DEF AnyToolArgs
  <2> QED
    BY <2>1 DEF InRange, AskedTraces
<1>2. /\ QueryMetrics(rows, w).traces = Cardinality({t \in rows : InRange(t, w)})
      /\ QueryMetrics(rows, w).errors = Cardinality({t \in {u \in rows : InRange(u, w)} : t.errors})
  BY DEF QueryMetrics
<1> QED
  BY <1>1, <1>2 DEF CountsAsAsked, GetMetrics

\* The rows of a join of finitely many rows are finitely many.
LEMMA HitsFinite ==
    ASSUME NEW rows, Rows(rows), NEW details, IsFiniteSet(details), NEW P \in SUBSET (rows \X details)
    PROVE  Rows({Hit(p[1], p[2]) : p \in P})
<1> DEFINE hit(p) == Hit(p[1], p[2])
<1>1. IsFiniteSet(P)
  BY FS_Product, FS_Subset DEF Rows
<1> PICK f : f = [p \in P |-> hit(p)]
  OBVIOUS
<1>2. DOMAIN f = P /\ \A p \in P : f[p] = hit(p)
  OBVIOUS
<1>3. IsFiniteSet({f[p] : p \in P})
  BY <1>1, <1>2, ImageFinite
<1>4. {f[p] : p \in P} = {hit(p) : p \in P}
  BY <1>2
<1>5. \A p \in P : hit(p).start \in Int
  BY DEF Rows, Hit
<1> QED
  BY <1>3, <1>4, <1>5 DEF Rows

\* search_spans finds the word in the traces of the window it was asked for.
THEOREM SearchFinds ==
    ASSUME NEW rows, Rows(rows), NEW details, IsFiniteSet(details),
           NEW time \in Int, NEW args, AnyToolArgs(args)
    PROVE  FindsAsAsked(rows, details, args, time)
<1> PICK w : w = ToolWindow(args.since, time)
  OBVIOUS
<1> PICK n : n = AskedRows(args.limit, Matches, MatchesMax)
  OBVIOUS
<1> PICK word : word = args.keyword.value
  OBVIOUS
<1> PICK P : P = {p \in rows \X details : /\ p[2].trace = p[1].id /\ InRange(p[1], w)
                                        /\ p[2].field \in SearchFields /\ word \in p[2].words}
  OBVIOUS
<1> PICK found : found = {Hit(p[1], p[2]) : p \in P}
  OBVIOUS
<1>1. StrArg(args.keyword) = word /\ word # NoText
  BY WordRead DEF AnyToolArgs
<1>2. n \in 1..MatchesMax /\ ClampInt(IntArg(args.limit, Matches), 1, MatchesMax) = n /\ n \in Nat
  <2>1. MatchesMax \in Nat /\ Matches \in 1..MatchesMax
    BY QueriesAssumption
  <2> QED
    BY <2>1, RowsAsked DEF AnyToolArgs
<1>3. SearchTool(rows, details, args, time) = Newest(found, n)
  BY <1>1, <1>2 DEF SearchTool, SearchSpans
<1>4. Rows(found)
  BY HitsFinite
<1>5. ASSUME ~TooLong(args.since)
      PROVE  found = Hits(rows, details, args, time)
  <2>1. w.to = time /\ w.from = time - AskedSpan(args.since)
    BY <1>5, WindowAsked DEF AnyToolArgs
  <2>2. P = {u \in AskedTraces(rows, args.since, time) \X details :
                /\ u[2].trace = u[1].id /\ u[2].field \in SearchFields
                /\ word \in u[2].words}
    BY <2>1 DEF InRange, AskedTraces
  <2> QED
    BY <2>2 DEF Hits
<1> QED
  BY <1>3, <1>4, <1>5, <1>2, NewestExists, NewestIsNewestOf DEF FindsAsAsked, Rows

BoundGiven(bound) == bound.given => bound.at \in Int

\* A page's limit: what cannot be read is 0, and what is not allowed is the default.
LEMMA PageLimited ==
    ASSUME NEW limit, AnyLimit(limit)
    PROVE  /\ Limited(IntArg(limit, 0), PageRows, PageRowsMax) = PageLimit(limit)
           /\ PageLimit(limit) \in Nat
<1>0. PageRowsMax \in Nat /\ PageRows \in 1..PageRowsMax
  BY QueriesAssumption
<1>1. CASE limit.type \in {"number", "digits"}
  <2>1. IntArg(limit, 0) = limit.value /\ limit.value \in Int
    BY <1>1 DEF IntArg, AnyLimit
  <2> QED
    BY <1>0, <1>1, <2>1 DEF Limited, PageLimit
<1>2. CASE limit.type \notin {"number", "digits"}
  BY <1>0, <1>2 DEF IntArg, Limited, PageLimit
<1> QED
  BY <1>1, <1>2

\* The filter of a page takes every trace.
LEMMA PageTakesAll ==
    ASSUME NEW t, NEW f, f.onlyErrors = FALSE, f.onlyWarnings = FALSE, f.agent = NoText
    PROVE  Selected(t, f) /\ f.agent \in {NoText, t.agent}
BY DEF Selected

\* A page has the newest traces of the window it names, and counts all of them.
THEOREM PagesAnswer ==
    ASSUME NEW rows, Rows(rows), NEW time \in Int, NEW q,
           BoundGiven(q.from), BoundGiven(q.to), AnyLimit(q.limit)
    PROVE  ShowsAsAsked(rows, q, time)
<1> PICK w : w = PageWindow(q.from, q.to, Quarter, time)
  OBVIOUS
<1> PICK n : n = PageLimit(q.limit)
  OBVIOUS
<1> PICK shown : shown = OnPage(rows, q, time)
  OBVIOUS
<1> PICK f : f = [onlyErrors |-> FALSE, onlyWarnings |-> FALSE, agent |-> NoText,
                  limit |-> IntArg(q.limit, 0)]
  OBVIOUS
<1>1. \A t \in rows : InRange(t, w) <=> t \in shown
  BY DEF PageWindow, GivenOr, InRange, OnPage
<1>2. shown \subseteq rows /\ Rows(shown) /\ n \in Nat
  BY FS_Subset, PageLimited DEF OnPage, Rows
<1>3. \A t \in rows : Selected(t, f) /\ f.agent \in {NoText, t.agent}
  BY PageTakesAll
<1>4. {t \in rows : InRange(t, w) /\ Selected(t, f) /\ f.agent \in {NoText, t.agent}} = shown
  BY <1>1, <1>2, <1>3
<1>5. f.limit = IntArg(q.limit, 0) /\ Limited(IntArg(q.limit, 0), PageRows, PageRowsMax) = n
  BY PageLimited
<1>6. Page(rows, q, time) = Newest(shown, n)
  <2>1. Page(rows, q, time) = QueryTraces(rows, w, f)
    BY DEF Page
  <2> QED
    BY <1>4, <1>5, <2>1 DEF QueryTraces
<1>7. {t \in rows : InRange(t, w)} = shown
  BY <1>1, <1>2
<1>8. /\ PageMetrics(rows, q, time).traces = Cardinality(shown)
      /\ PageMetrics(rows, q, time).averaged \subseteq shown
  BY <1>7 DEF PageMetrics, QueryMetrics
<1>9. Page(rows, q, time) # {}
  BY <1>2, <1>6, NewestExists DEF Rows
<1>10. \A answer \in Page(rows, q, time) : NewestOf(answer, shown, n)
  BY <1>2, <1>6, NewestIsNewestOf DEF Rows
<1> QED
  BY <1>8, <1>9, <1>10 DEF ShowsAsAsked

-----------------------------------------------------------------------------
(* Otlp.                                                                   *)

\* The sequence f[N] is what FlattenSeq makes of seqs.
Flattened(f, seqs) ==
    /\ f[1] = seqs[1]
    /\ \A i \in 2..Len(seqs) : f[i] = f[i - 1] \o seqs[i]

LEMMA EmptySeqIn == \A X : <<>> \in Seq(X)
OBVIOUS

LEMMA FlattenUnfolds ==
    ASSUME NEW X, NEW seqs \in Seq(Seq(X)), Len(seqs) # 0
    PROVE  \E f : Flattened(f, seqs) /\ FlattenSeq(seqs) = f[Len(seqs)]
<1> PICK N \in Nat : N = Len(seqs)
  OBVIOUS
<1>0. N >= 1 /\ \A i \in 1..N : seqs[i] \in Seq(X)
  OBVIOUS
<1> DEFINE step == [i \in 1..N |-> [s \in Seq(X) |-> s \o seqs[i]]]
           Is(f) == f = [i \in 1..N |-> IF i = 1 THEN seqs[i] ELSE f[i - 1] \o seqs[i]]
<1>1. step \in [1..N -> [Seq(X) -> Seq(X)]]
  BY <1>0
<1>2. <<>> \in Seq(X)
  BY EmptySeqIn
<1>3. PICK g \in [0..N -> Seq(X)] : Recursion(g, N, <<>>, step)
  <2> HIDE DEF step
  <2> QED
    BY <1>1, <1>2, RecursionExists
<1>4. \A i \in 1..N : g[i - 1] \in Seq(X) /\ g[i] = g[i - 1] \o seqs[i]
  <2> SUFFICES ASSUME NEW i \in 1..N PROVE g[i - 1] \in Seq(X) /\ g[i] = g[i - 1] \o seqs[i]
    OBVIOUS
  <2>1. i - 1 \in 0..N
    OBVIOUS
  <2>2. g[i - 1] \in Seq(X)
    BY <2>1
  <2>3. g[i] = step[i][g[i - 1]]
    BY <1>3 DEF Recursion
  <2> QED
    BY <2>2, <2>3
<1>5. g[1] = seqs[1]
  <2>1. g[0] = <<>>
    BY <1>3 DEF Recursion
  <2>2. g[1] = g[0] \o seqs[1] /\ seqs[1] \in Seq(X)
    <3>1. 1 \in 1..N /\ 1 - 1 = 0
      BY <1>0
    <3> QED
      BY <1>0, <1>4, <3>1
  <2> QED
    BY <2>1, <2>2, ConcatEmptySeq
<1> PICK h : h = [i \in 1..N |-> g[i]]
  OBVIOUS
<1>6. Is(h)
  <2>1. \A i \in 1..N : h[i] = IF i = 1 THEN seqs[i] ELSE h[i - 1] \o seqs[i]
    <3> SUFFICES ASSUME NEW i \in 1..N PROVE h[i] = IF i = 1 THEN seqs[i] ELSE h[i - 1] \o seqs[i]
      OBVIOUS
    <3>1. CASE i = 1
      BY <1>5, <3>1
    <3>2. CASE i # 1
      <4>1. i - 1 \in 1..N
        BY <3>2
      <4>2. h[i] = g[i] /\ h[i - 1] = g[i - 1]
        BY <4>1
      <4> QED
        BY <1>4, <3>2, <4>2
    <3> QED
      BY <3>1, <3>2
  <2>2. h = [i \in 1..N |-> h[i]]
    OBVIOUS
  <2> QED
    BY <2>1, <2>2
<1> DEFINE f == CHOOSE x : Is(x)
<1>7. Is(f)
  <2> HIDE DEF Is
  <2> QED
    BY <1>6
<1>8. Flattened(f, seqs)
  <2>1. ASSUME NEW x, Is(x)
        PROVE  \A i \in 1..N : x[i] = IF i = 1 THEN seqs[i] ELSE x[i - 1] \o seqs[i]
    BY <2>1
  <2> HIDE DEF f
  <2>2. \A i \in 1..N : f[i] = IF i = 1 THEN seqs[i] ELSE f[i - 1] \o seqs[i]
    <3> HIDE DEF Is
    <3> QED
      BY <1>7, <2>1
  <2>3. 1 \in 1..N /\ \A i \in 2..N : i \in 1..N /\ i # 1
    BY <1>0
  <2> HIDE DEF Is
  <2> QED
    BY <2>2, <2>3 DEF Flattened
<1>9. FlattenSeq(seqs) = f[N]
  BY DEF FlattenSeq
<1> QED
  <2> HIDE DEF f
  <2> QED
    BY <1>8, <1>9

\* The sequence a has the values of m on the sequence b.
Mapped(m, a, b) == Len(a) = Len(b) /\ \A k \in 1..Len(a) : a[k] = m[b[k]]

LEMMA MappedConcat ==
    ASSUME NEW X, NEW Y, NEW m, NEW a \in Seq(X), NEW b \in Seq(Y), NEW c \in Seq(X), NEW d \in Seq(Y),
           Mapped(m, a, b), Mapped(m, c, d)
    PROVE  Mapped(m, a \o c, b \o d)
<1>1. /\ Len(a) = Len(b) /\ \A k \in 1..Len(a) : a[k] = m[b[k]]
      /\ Len(c) = Len(d) /\ \A k \in 1..Len(c) : c[k] = m[d[k]]
  BY DEF Mapped
<1>2. Len(a \o c) = Len(a) + Len(c) /\ Len(b \o d) = Len(b) + Len(d)
  OBVIOUS
<1>3. ASSUME NEW k \in 1..Len(a \o c)
      PROVE  (a \o c)[k] = m[(b \o d)[k]]
  <2>1. CASE k <= Len(a)
    <3>1. k \in 1..Len(a) /\ k \in 1..Len(b)
      BY <1>1, <2>1
    <3>2. (a \o c)[k] = a[k] /\ (b \o d)[k] = b[k]
      BY <1>2, <3>1
    <3> QED
      BY <1>1, <3>1, <3>2
  <2>2. CASE k > Len(a)
    <3> PICK j : j = k - Len(a)
      OBVIOUS
    <3>1. j \in 1..Len(c)
      BY <1>2, <2>2
    <3>2. (a \o c)[k] = c[j] /\ (b \o d)[k] = d[j]
      BY <1>1, <1>2, <2>2
    <3> QED
      BY <1>1, <3>1, <3>2
  <2>3. k <= Len(a) \/ k > Len(a)
    OBVIOUS
  <2> QED
    BY <2>1, <2>2, <2>3, Zenon
<1> QED
  BY <1>1, <1>2, <1>3 DEF Mapped

\* What is mapped one by one is mapped in the flat sequence.
LEMMA FlattenMaps ==
    ASSUME NEW X, NEW Y, NEW m, NEW A \in Seq(Seq(X)), NEW B \in Seq(Seq(Y)),
           Len(A) = Len(B), \A i \in 1..Len(A) : Mapped(m, A[i], B[i])
    PROVE  /\ Mapped(m, FlattenSeq(A), FlattenSeq(B))
           /\ FlattenSeq(A) \in Seq(X) /\ FlattenSeq(B) \in Seq(Y)
<1>1. CASE Len(A) = 0
  <2>1. FlattenSeq(A) = A /\ FlattenSeq(B) = B
    BY <1>1 DEF FlattenSeq
  <2>3. A = <<>> /\ B = <<>>
    BY <1>1, EmptySeq
  <2>2. <<>> \in Seq(X) /\ <<>> \in Seq(Y)
    BY EmptySeqIn
  <2> QED
    BY <1>1, <2>1, <2>2, <2>3 DEF Mapped
<1>2. CASE Len(A) # 0
  <2> PICK N \in Nat : N = Len(A)
    OBVIOUS
  <2>1. PICK f : Flattened(f, A) /\ FlattenSeq(A) = f[N]
    BY <1>2, FlattenUnfolds
  <2>2. PICK g : Flattened(g, B) /\ FlattenSeq(B) = g[N]
    BY <1>2, FlattenUnfolds
  <2>3. \A i \in 1..N : A[i] \in Seq(X) /\ B[i] \in Seq(Y)
    OBVIOUS
  <2> DEFINE Good(i) == f[i] \in Seq(X) /\ g[i] \in Seq(Y) /\ Mapped(m, f[i], g[i])
  <2> PICK T : T = {i \in 0..N : i = 0 \/ Good(i)}
    OBVIOUS
  <2>4. 0 \in T
    OBVIOUS
  <2>8. \A i \in 1..N : i \in 0..N /\ (Good(i) => i \in T) /\ (i \in T => Good(i))
    OBVIOUS
  <2>5. ASSUME NEW i \in 1..N, i - 1 \in T
        PROVE  i \in T
    <3>1. CASE i = 1
      <4>1. f[i] = A[1] /\ g[i] = B[1] /\ 1 \in 1..N /\ i \in 0..N
        BY <2>1, <2>2, <3>1 DEF Flattened
      <4>2. Good(i)
        BY <2>3, <4>1
      <4> QED
        BY <2>8, <4>2
    <3>2. CASE i # 1
      <4>1. f[i - 1] \in Seq(X) /\ g[i - 1] \in Seq(Y) /\ Mapped(m, f[i - 1], g[i - 1])
        <5>1. i - 1 \in 1..N
          BY <3>2
        <5> QED
          BY <2>5, <2>8, <5>1
      <4>2. A[i] \in Seq(X) /\ B[i] \in Seq(Y) /\ Mapped(m, A[i], B[i])
        BY <2>3
      <4>3. f[i] = f[i - 1] \o A[i] /\ g[i] = g[i - 1] \o B[i]
        <5>1. i \in 2..Len(A) /\ i \in 2..Len(B)
          BY <3>2
        <5> QED
          BY <2>1, <2>2, <5>1 DEF Flattened
      <4>4. Mapped(m, f[i - 1] \o A[i], g[i - 1] \o B[i])
        BY <4>1, <4>2, MappedConcat
      <4>5. f[i - 1] \o A[i] \in Seq(X) /\ g[i - 1] \o B[i] \in Seq(Y)
        BY <4>1, <4>2, ConcatProperties
      <4>6. Good(i)
        BY <4>3, <4>4, <4>5
      <4> QED
        BY <2>8, <4>6
    <3> QED
      BY <3>1, <3>2
  <2>6. \A i \in 0..N : i \in T
    BY <2>4, <2>5, InductionUpTo
  <2>7. Good(N)
    <3>1. N \in 1..N /\ N \in 0..N
      BY <1>2
    <3> QED
      BY <2>6, <2>8, <3>1
  <2> QED
    BY <2>1, <2>2, <2>7
<1> QED
  BY <1>1, <1>2

\* An attribute list has a last attribute with a key, if it has one.
LEMMA LastIs ==
    ASSUME NEW L, NEW list \in Seq(L), NEW key
    PROVE  \/ /\ \A i \in DOMAIN list : list[i].key # key
              /\ Lookup(list, key) = NoValue
           \/ \E i \in DOMAIN list :
                 IsLast(list, key, i) /\ Lookup(list, key) = AttributeValue(list[i])
<1> PICK at : at = {i \in DOMAIN list : list[i].key = key}
  OBVIOUS
<1>1. at \in SUBSET (1..Len(list)) /\ DOMAIN list = 1..Len(list) /\ Len(list) \in Nat
  OBVIOUS
<1>2. CASE at = {}
  BY <1>2 DEF Lookup
<1>3. CASE at # {}
  <2>1. PICK m \in at : \A x \in at : m >= x
    BY <1>1, <1>3, LargestElement
  <2> PICK i : i = CHOOSE k \in at : \A j \in at : j <= k
    OBVIOUS
  <2>2. i \in at /\ \A j \in at : j <= i
    <3>1. m \in at /\ \A j \in at : j <= m
      BY <1>1, <2>1
    <3> QED
      BY <3>1
  <2>3. Lookup(list, key) = AttributeValue(list[i])
    BY <1>3 DEF Lookup
  <2>4. IsLast(list, key, i) /\ i \in DOMAIN list
    <3>1. i \in DOMAIN list /\ list[i].key = key
      BY <2>2
    <3>2. \A j \in DOMAIN list : list[j].key = key => j <= i
      BY <2>2
    <3> QED
      BY <3>1, <3>2 DEF IsLast
  <2> QED
    BY <2>3, <2>4
<1> QED
  BY <1>2, <1>3

LEMMA OnlyOneLast ==
    ASSUME NEW L, NEW list \in Seq(L), NEW key, NEW i \in DOMAIN list, NEW j \in DOMAIN list,
           IsLast(list, key, i), IsLast(list, key, j)
    PROVE  i = j
BY DEF IsLast

LEMMA ValueRead ==
    ASSUME NEW a
    PROVE  /\ AttributeValue(a) = IF Readable(a) THEN a.value ELSE "0"
           /\ AttributeValue(a) # NoValue
<1>1. "0" # NoValue
  BY Zenon DEF NoValue
<1> QED
  BY <1>1 DEF AttributeValue, Readable

\* A status attribute that says that the call failed, or that nothing answered.
SaysFailure(value) == value \in DOMAIN Atoi /\ Atoi[value] >= 400
SaysNothing(value) == value \in DOMAIN Atoi /\ Atoi[value] = 0

\* What the status attribute and the mark of the exporter come to.
LEMMA StatusIs ==
    ASSUME NEW value, NEW code
    PROVE  /\ Status(value, code) \in Int
           /\ Status(value, code) >= 400 <=> (code = 2 \/ SaysFailure(value))
           /\ Status(value, code) = 0 <=> (code # 2 /\ SaysNothing(value))
<1> PICK status : status = IF value \in DOMAIN Atoi THEN Atoi[value] ELSE IF code # 2 THEN 200 ELSE 0
  OBVIOUS
<1>1. Status(value, code) = IF code = 2 /\ status < 400 THEN 500 ELSE status
  BY DEF Status
<1>2. status \in Int
  BY AtoiAssumption
<1>3. CASE value \in DOMAIN Atoi
  <2>1. status = Atoi[value]
    BY <1>3
  <2>2. (SaysFailure(value) <=> status >= 400) /\ (SaysNothing(value) <=> status = 0)
    BY <1>3, <2>1 DEF SaysFailure, SaysNothing
  <2>3. CASE code = 2
    BY <1>1, <1>2, <2>2, <2>3
  <2>4. CASE code # 2
    BY <1>1, <1>2, <2>2, <2>4
  <2> QED
    BY <2>3, <2>4
<1>4. CASE value \notin DOMAIN Atoi
  <2>1. ~SaysFailure(value) /\ ~SaysNothing(value)
    BY <1>4 DEF SaysFailure, SaysNothing
  <2>2. CASE code = 2
    <3>1. status = 0
      BY <1>4, <2>2
    <3> QED
      BY <1>1, <2>1, <2>2, <3>1
  <2>3. CASE code # 2
    <3>1. status = 200
      BY <1>4, <2>3
    <3> QED
      BY <1>1, <2>1, <2>3, <3>1
  <2> QED
    BY <2>2, <2>3
<1> QED
  BY <1>3, <1>4

LEMMA StatusSays ==
    ASSUME NEW L, NEW s, s.attributes \in Seq(L)
    PROVE  LET status == Status(Lookup(s.attributes, StatusKey), s.code)
           IN /\ status \in Int
              /\ status >= 400 <=> Failed(s)
              /\ status = 0 <=> (Unread(s) /\ ~Failed(s))
<1> PICK list \in Seq(L) : list = s.attributes
  OBVIOUS
<1> PICK value : value = Lookup(list, StatusKey)
  OBVIOUS
<1> PICK code : code = s.code
  OBVIOUS
<1> DEFINE bad(i) == /\ IsLast(list, StatusKey, i)
                     /\ Readable(list[i]) /\ SaysFailure(list[i].value)
           zero(i) == /\ IsLast(list, StatusKey, i)
                      /\ Readable(list[i]) => SaysNothing(list[i].value)
<1>1. /\ Failed(s) <=> (code = 2 \/ \E i \in DOMAIN list : bad(i))
      /\ Unread(s) <=> \E i \in DOMAIN list : zero(i)
  BY DEF Failed, Unread, SaysFailure, SaysNothing
<1>2. ASSUME \A i \in DOMAIN list : list[i].key # StatusKey, value = NoValue
      PROVE  /\ SaysFailure(value) <=> \E j \in DOMAIN list : bad(j)
             /\ SaysNothing(value) <=> \E j \in DOMAIN list : zero(j)
  <2>1. ~SaysFailure(value) /\ ~SaysNothing(value)
    BY <1>2, AtoiAssumption DEF SaysFailure, SaysNothing
  <2>2. \A i \in DOMAIN list : ~bad(i) /\ ~zero(i)
    BY <1>2 DEF IsLast
  <2> QED
    BY <2>1, <2>2
<1>3. ASSUME NEW i \in DOMAIN list, IsLast(list, StatusKey, i), value = AttributeValue(list[i])
      PROVE  /\ SaysFailure(value) <=> \E j \in DOMAIN list : bad(j)
             /\ SaysNothing(value) <=> \E j \in DOMAIN list : zero(j)
  <2>1. \A j \in DOMAIN list : IsLast(list, StatusKey, j) => j = i
    BY <1>3, OnlyOneLast
  <2>2. /\ (\E j \in DOMAIN list : bad(j)) <=> bad(i)
        /\ (\E j \in DOMAIN list : zero(j)) <=> zero(i)
    BY <2>1
  <2>3. CASE Readable(list[i])
    <3>1. value = list[i].value
      BY <1>3, <2>3, ValueRead
    <3> QED
      BY <1>3, <2>2, <2>3, <3>1
  <2>4. CASE ~Readable(list[i])
    <3>1. value = "0"
      BY <1>3, <2>4, ValueRead
    <3>2. ~SaysFailure(value) /\ SaysNothing(value)
      BY <3>1, AtoiAssumption DEF SaysFailure, SaysNothing
    <3> QED
      BY <1>3, <2>2, <2>4, <3>2
  <2> QED
    BY <2>3, <2>4
<1>4. \/ (\A i \in DOMAIN list : list[i].key # StatusKey) /\ value = NoValue
      \/ \E i \in DOMAIN list : IsLast(list, StatusKey, i) /\ value = AttributeValue(list[i])
  BY LastIs
<1>5. /\ SaysFailure(value) <=> \E j \in DOMAIN list : bad(j)
      /\ SaysNothing(value) <=> \E j \in DOMAIN list : zero(j)
  <2> HIDE DEF bad, zero
  <2> QED
    BY <1>2, <1>3, <1>4
<1>6. /\ Status(value, code) \in Int
      /\ Status(value, code) >= 400 <=> (code = 2 \/ SaysFailure(value))
      /\ Status(value, code) = 0 <=> (code # 2 /\ SaysNothing(value))
  BY StatusIs
<1>7. SaysNothing(value) => ~SaysFailure(value)
  BY DEF SaysFailure, SaysNothing
<1> QED
  <2> HIDE DEF bad, zero
  <2> QED
    BY <1>1, <1>5, <1>6, <1>7, Zenon

\* The label of a span that came whole is decided by its status alone, unless
\* its body is looked at.
LEMMA LabelOf ==
    ASSUME NEW sp, sp.dropped = FALSE, sp.status \in Int
    PROVE  /\ LabelError(sp) = "http_status" <=> sp.status >= 400
           /\ LabelError(sp) = "no_answer" <=> sp.status = 0
<1>1. CASE sp.status = 0
  BY <1>1 DEF LabelError
<1>2. CASE sp.status >= 400
  BY <1>2 DEF LabelError
<1>3. CASE sp.status # 0 /\ ~(sp.status >= 400)
  <2>1. LabelError(sp) = IF sp.status \in 1..399 /\ BodyFailure(sp) THEN "body_failure" ELSE ""
    BY <1>3 DEF LabelError
  <2>2. LabelError(sp) # "http_status" /\ LabelError(sp) # "no_answer"
    BY <2>1, Zenon
  <2> QED
    BY <1>3, <2>2
<1> QED
  BY <1>1, <1>2, <1>3

LEMMA AgentIs ==
    ASSUME NEW L, NEW resource \in Seq(L)
    PROVE  NamedAfter(OrDefault(Lookup(resource, "service.name"), "otel-unattributed"), resource)
<1> PICK v : v = Lookup(resource, "service.name")
  OBVIOUS
<1>1. CASE (\A i \in DOMAIN resource : resource[i].key # "service.name") /\ v = NoValue
  BY <1>1 DEF OrDefault, NamedAfter
<1>2. ASSUME NEW i \in DOMAIN resource, IsLast(resource, "service.name", i),
             v = AttributeValue(resource[i])
      PROVE  NamedAfter(OrDefault(v, "otel-unattributed"), resource)
  <2>1. OrDefault(v, "otel-unattributed") = v
    BY <1>2, ValueRead DEF OrDefault
  <2>2. v = IF Readable(resource[i]) THEN resource[i].value ELSE "0"
    BY <1>2, ValueRead
  <2> QED
    BY <1>2, <2>1, <2>2 DEF NamedAfter
<1> QED
  BY <1>1, <1>2, LastIs

\* A converted span has the name, the service and the label of its source.
LEMMA SpanKept ==
    ASSUME NEW L, NEW s, s.attributes \in Seq(L), NEW resource \in Seq(L), NEW said
    PROVE  /\ ConvertSpan(resource, s).id = s.id
           /\ NamedAfter(ConvertSpan(resource, s).agent, resource)
           /\ LabelledAsExported(ConvertSpan(resource, s), s, said)
<1> PICK c : c = ConvertSpan(resource, s)
  OBVIOUS
<1> PICK status : status = Status(Lookup(s.attributes, StatusKey), s.code)
  OBVIOUS
<1>1. /\ c.id = s.id
      /\ c.agent = OrDefault(Lookup(resource, "service.name"), "otel-unattributed")
  BY DEF ConvertSpan
<1>2. /\ [c EXCEPT !.response = said].status = status
      /\ [c EXCEPT !.response = said].dropped = FALSE
  BY DEF ConvertSpan, StatusKey
<1>3. /\ status \in Int
      /\ status >= 400 <=> Failed(s)
      /\ status = 0 <=> (Unread(s) /\ ~Failed(s))
  BY StatusSays
<1> PICK sp : sp = [c EXCEPT !.response = said]
  OBVIOUS
<1>4. sp.status = status /\ sp.dropped = FALSE
  BY <1>2
<1>5. /\ LabelError(sp) = "http_status" <=> Failed(s)
      /\ LabelError(sp) = "no_answer" <=> (Unread(s) /\ ~Failed(s))
  BY <1>3, <1>4, LabelOf
<1>6. LabelledAsExported(c, s, said)
  BY <1>5 DEF LabelledAsExported
<1> QED
  BY <1>1, <1>6, AgentIs

LEMMA Member ==
    ASSUME NEW R, NEW q \in Seq(R), NEW i \in DOMAIN q
    PROVE  q[i] \in R
OBVIOUS

LEMMA FunctionIsSeq ==
    ASSUME NEW R, NEW n \in Nat, NEW f \in [1..n -> R]
    PROVE  f \in Seq(R) /\ Len(f) = n
OBVIOUS

Exports(L, S) == Seq([resource : Seq(L), spans : Seq(S)])

\* The inlet keeps every span of a request it takes, in order, under its service
\* and with the label the exporter gave reason for.
THEOREM SpansKept ==
    ASSUME NEW L, NEW S, \A s \in S : s.attributes \in Seq(L),
           NEW request \in Exports(L, S), ~Malformed(request), NEW texts
    PROVE  KeepsSpans(request, texts)
<1> DEFINE Y == [s : S, resource : Seq(L)]
           made(y) == ConvertSpan(y.resource, y.s)
           X == {made(y) : y \in Y}
           m == [y \in Y |-> made(y)]
           converted(r) == [j \in DOMAIN r.spans |-> ConvertSpan(r.resource, r.spans[j])]
           said(r) == [j \in DOMAIN r.spans |-> [s |-> r.spans[j], resource |-> r.resource]]
           A == [i \in DOMAIN request |-> converted(request[i])]
           B == [i \in DOMAIN request |-> said(request[i])]
<1>1. ASSUME NEW i \in DOMAIN request
      PROVE  /\ request[i].spans \in Seq(S) /\ request[i].resource \in Seq(L)
  <2> PICK R : R = [resource : Seq(L), spans : Seq(S)]
    OBVIOUS
  <2>1. request \in Seq(R)
    BY DEF Exports
  <2>2. request[i] \in R
    BY <2>1, Member
  <2> QED
    BY <2>2
<1>2. ASSUME NEW r, r.spans \in Seq(S), r.resource \in Seq(L)
      PROVE  /\ converted(r) \in Seq(X) /\ said(r) \in Seq(Y)
             /\ Mapped(m, converted(r), said(r))
  <2>1. DOMAIN r.spans = 1..Len(r.spans) /\ Len(r.spans) \in Nat
    BY <1>2
  <2>2. ASSUME NEW j \in DOMAIN r.spans
        PROVE  /\ said(r)[j] \in Y /\ m[said(r)[j]] = converted(r)[j] /\ converted(r)[j] \in X
    <3> PICK y : y = [s |-> r.spans[j], resource |-> r.resource]
      OBVIOUS
    <3>1. r.spans[j] \in S
      BY <1>2
    <3>2. y \in Y /\ y.s = r.spans[j] /\ y.resource = r.resource
      BY <1>2, <3>1
    <3>3. said(r)[j] = y /\ converted(r)[j] = made(y)
      BY <3>2
    <3>4. m[y] = made(y) /\ made(y) \in X
      BY <3>2
    <3> QED
      BY <3>2, <3>3, <3>4
  <2>3. converted(r) \in [DOMAIN r.spans -> X] /\ said(r) \in [DOMAIN r.spans -> Y]
    <3>1. /\ \A j \in DOMAIN r.spans : converted(r)[j] \in X
          /\ \A j \in DOMAIN r.spans : said(r)[j] \in Y
      BY <2>2
    <3> HIDE DEF X, Y, m
    <3>2. /\ converted(r) = [j \in DOMAIN r.spans |-> converted(r)[j]]
          /\ said(r) = [j \in DOMAIN r.spans |-> said(r)[j]]
      OBVIOUS
    <3> HIDE DEF converted, said
    <3> QED
      BY <3>1, <3>2
  <2> HIDE DEF X, Y, m, converted, said
  <2> PICK n \in Nat : n = Len(r.spans)
    BY <2>1
  <2>4. DOMAIN r.spans = 1..n /\ converted(r) \in [1..n -> X] /\ said(r) \in [1..n -> Y]
    BY <2>1, <2>3
  <2>5. converted(r) \in Seq(X) /\ Len(converted(r)) = n
    BY <2>4, FunctionIsSeq
  <2>6. said(r) \in Seq(Y) /\ Len(said(r)) = n
    BY <2>4, FunctionIsSeq
  <2> QED
    BY <2>2, <2>4, <2>5, <2>6 DEF Mapped
<1>3. /\ A \in Seq(Seq(X)) /\ B \in Seq(Seq(Y)) /\ Len(A) = Len(B)
      /\ \A i \in 1..Len(A) : Mapped(m, A[i], B[i])
  <2>1. DOMAIN request = 1..Len(request) /\ Len(request) \in Nat
    BY DEF Exports
  <2>2. \A i \in DOMAIN request : /\ A[i] \in Seq(X) /\ B[i] \in Seq(Y)
                                 /\ Mapped(m, A[i], B[i])
    <3> HIDE DEF X, Y, m, converted, said
    <3> QED
      BY <1>1, <1>2
  <2>3. A \in [DOMAIN request -> Seq(X)]
    <3> HIDE DEF X, Y, m, B
    <3>1. \A i \in DOMAIN request : A[i] \in Seq(X)
      BY <2>2
    <3>2. A = [i \in DOMAIN request |-> A[i]]
      OBVIOUS
    <3> HIDE DEF A
    <3> QED
      BY <3>1, <3>2
  <2>4. B \in [DOMAIN request -> Seq(Y)]
    <3> HIDE DEF X, Y, m, A
    <3>1. \A i \in DOMAIN request : B[i] \in Seq(Y)
      BY <2>2
    <3>2. B = [i \in DOMAIN request |-> B[i]]
      OBVIOUS
    <3> HIDE DEF B
    <3> QED
      BY <3>1, <3>2
  <2> HIDE DEF X, Y, m, A, B
  <2> PICK n \in Nat : n = Len(request)
    BY <2>1
  <2>5. A \in [1..n -> Seq(X)] /\ B \in [1..n -> Seq(Y)] /\ DOMAIN request = 1..n
    BY <2>1, <2>3, <2>4
  <2>6. A \in Seq(Seq(X)) /\ Len(A) = n
    BY <2>5, FunctionIsSeq
  <2>7. B \in Seq(Seq(Y)) /\ Len(B) = n
    BY <2>5, FunctionIsSeq
  <2> QED
    BY <2>2, <2>5, <2>6, <2>7
<1>4. Convert(request) = FlattenSeq(A) /\ Sources(request) = FlattenSeq(B)
  BY DEF Convert, Sources
<1>5. /\ Mapped(m, Convert(request), Sources(request))
      /\ Convert(request) \in Seq(X) /\ Sources(request) \in Seq(Y)
  <2> HIDE DEF X, Y, m, A, B
  <2>1. /\ Mapped(m, FlattenSeq(A), FlattenSeq(B))
        /\ FlattenSeq(A) \in Seq(X) /\ FlattenSeq(B) \in Seq(Y)
    BY <1>3, FlattenMaps
  <2> QED
    BY <1>4, <2>1
<1> PICK out : out = Convert(request)
  OBVIOUS
<1> PICK source : source = Sources(request)
  OBVIOUS
<1>6. ASSUME NEW y \in Y
      PROVE  /\ m[y].id = y.s.id /\ NamedAfter(m[y].agent, y.resource)
             /\ \A x \in texts : LabelledAsExported(m[y], y.s, x)
  <2>1. y.s.attributes \in Seq(L) /\ y.resource \in Seq(L)
    OBVIOUS
  <2>2. m[y] = ConvertSpan(y.resource, y.s)
    OBVIOUS
  <2> HIDE DEF m, Y
  <2> QED
    BY <2>1, <2>2, SpanKept
<1>7. /\ Len(out) = Len(source) /\ source \in Seq(Y)
      /\ \A k \in 1..Len(out) : out[k] = m[source[k]] /\ source[k] \in Y
  <2> HIDE DEF X, Y, m
  <2> QED
    BY <1>5 DEF Mapped
<1>8. DOMAIN out = 1..Len(out)
  <2> HIDE DEF X, Y, m, A, B
  <2> QED
    BY <1>5
<1> QED
  <2> HIDE DEF X, Y, m, A, B, made, converted, said
  <2> QED
    BY <1>6, <1>7, <1>8 DEF KeepsSpans

-----------------------------------------------------------------------------
(* The properties of MCParts.  Its steps only hand the parts their inputs,  *)
(* so what holds of every input holds in every state.                       *)

\* The inputs the parts are given are of the kinds the theorems are about.
PartsInv ==
    /\ text.length \in Nat /\ text.at \in Int /\ text.width \in Nat /\ text.at < text.length
    /\ inputs # <<>> => \E i \in Inputs(which) : inputs = <<i>>
    /\ pattern \in Seq(Letters \cup {Star}) /\ dest \in Seq(Letters) /\ spans \in Seq(SpanKinds)

\* Nothing but a step of their own part changes the inputs.
LEMMA InputFrame ==
    ASSUME inputs # <<>> => \E i \in Inputs(which) : inputs = <<i>>, UNCHANGED <<which, inputs>>
    PROVE  inputs' # <<>> => \E i \in Inputs(which)' : inputs' = <<i>>
BY DEF Inputs

LEMMA PartsFrame ==
    ASSUME PartsInv, UNCHANGED <<which, text, inputs, pattern, dest, spans>>
    PROVE  PartsInv'
BY DEF PartsInv, Inputs

\* Every state has such inputs.
THEOREM PartsInvariant == Spec => []PartsInv
<1>1. Init => PartsInv
  BY DEF Init, PartsInv
<1>2. PartsInv /\ [Next]_<<otherVars, heatVars, chatVars, busVars>> => PartsInv'
  <2> SUFFICES ASSUME PartsInv, [Next]_<<otherVars, heatVars, chatVars, busVars>>
               PROVE  PartsInv'
    OBVIOUS
  <2>1. CASE LongerPattern
    <3>1. pattern' \in Seq(Letters \cup {Star})
      BY <2>1 DEF LongerPattern, PartsInv
    <3> QED
      BY <2>1, <3>1, InputFrame DEF LongerPattern, PartsInv
  <2>2. CASE LongerDest
    <3>1. dest' \in Seq(Letters)
      BY <2>2 DEF LongerDest, PartsInv
    <3> QED
      BY <2>2, <3>1, InputFrame DEF LongerDest, PartsInv
  <2>3. CASE MoreSpans
    <3>1. spans' \in Seq(SpanKinds)
      BY <2>3 DEF MoreSpans, PartsInv
    <3> QED
      BY <2>3, <3>1, InputFrame DEF MoreSpans, PartsInv
  <2>4. CASE OtherText
    <3>1. PICK n \in 0..MaxText : \E i \in -1..(n - 1), w \in 0..(MaxText - 2) :
             text' = [length |-> n, at |-> i, width |-> w]
      BY <2>4 DEF OtherText
    <3>2. PICK i \in -1..(n - 1), w \in 0..(MaxText - 2) :
             text' = [length |-> n, at |-> i, width |-> w]
      BY <3>1
    <3>3. which' = which /\ inputs' = inputs
      BY <2>4 DEF OtherText
    <3>4. /\ text'.length \in Nat /\ text'.at \in Int /\ text'.width \in Nat
          /\ text'.at < text'.length
      BY <3>2, MaxTextAssumption
    <3> QED
      BY <2>4, <3>3, <3>4 DEF OtherText, PartsInv, Inputs
  <2>5. CASE GiveInput
    <3>1. PICK i \in Inputs(which) : inputs' = <<i>>
      BY <2>5 DEF GiveInput
    <3>2. which' = which /\ text' = text
      BY <2>5 DEF GiveInput
    <3>3. Inputs(which)' = Inputs(which)
      BY <3>2 DEF Inputs
    <3> QED
      BY <2>5, <3>1, <3>2, <3>3 DEF GiveInput, PartsInv
  <2>6. CASE HeatStep
    BY <2>6, PartsFrame DEF HeatStep, otherVars
  <2>7. CASE OfChat(ChatNext)
    BY <2>7, PartsFrame DEF OfChat, otherVars
  <2>8. CASE BusStep
    BY <2>8, PartsFrame DEF BusStep, otherVars
  <2>9. CASE UNCHANGED <<otherVars, heatVars, chatVars, busVars>>
    BY <2>9, PartsFrame DEF otherVars
  <2> QED
    BY <2>1, <2>2, <2>3, <2>4, <2>5, <2>6, <2>7, <2>8, <2>9 DEF Next
<1> QED
  BY <1>1, <1>2, PTL DEF Spec

\* An input that was given is one of its part.
LEMMA InputGiven ==
    ASSUME PartsInv, NEW part, Of(part)
    PROVE  input \in Inputs(part)
<1>1. PICK i \in Inputs(which) : inputs = <<i>>
  BY DEF PartsInv, Of
<1>2. inputs[1] = i
  BY <1>1
<1> QED
  BY <1>1, <1>2 DEF Of, input

\* match agrees with what a pattern with wildcards means, with its chunks in
\* order and anchored at the ends, but for the patterns without a wildcard.
THEOREM MatchIsGlobHolds == Spec => []MatchIsGlob
<1>1. PartsInv => MatchIsGlob
  <2> SUFFICES ASSUME PartsInv PROVE MatchIsGlob
    OBVIOUS
  <2>1. pattern \in Seq(Letters \cup {Star}) /\ dest \in Seq(Letters \cup {Star})
    BY SeqMonotonic DEF PartsInv
  <2> QED
    BY <2>1, MatchesAreGlobs DEF MatchIsGlob
<1> QED
  BY <1>1, PartsInvariant, PTL

\* Label loses, moves and duplicates no span, and marks as failed what failed.
THEOREM LabelGroupsRunsHolds == Spec => []LabelGroupsRuns
<1>1. \A says, type, tool, error : Call(says, error).error = error /\ Plain(type, tool, error).error = error
  BY Zenon DEF Call, Plain
<1>2. \A x \in SpanKinds : x.error \in BOOLEAN
  <2> SUFFICES ASSUME NEW x \in SpanKinds PROVE x.error \in BOOLEAN
    OBVIOUS
  <2>1. \/ \E says : x = Call(says, TRUE) \/ x = Call(says, FALSE)
        \/ \E type, tool : x = Plain(type, tool, TRUE) \/ x = Plain(type, tool, FALSE)
    BY Zenon DEF SpanKinds
  <2>2. x.error = TRUE \/ x.error = FALSE
    BY <1>1, <2>1
  <2> QED
    BY <2>2
<1>3. PartsInv => LabelGroupsRuns
  <2> SUFFICES ASSUME PartsInv PROVE LabelGroupsRuns
    OBVIOUS
  <2>1. spans \in Seq(SpanKinds)
    BY DEF PartsInv
  <2> QED
    BY <1>2, <2>1, LabelsGroupRuns DEF LabelGroupsRuns
<1> QED
  BY <1>3, PartsInvariant, PTL

\* What snippetAround returns is in range and as wide as it may be.
THEOREM SnippetWellCutHolds == Spec => []SnippetWellCut
<1>1. PartsInv => SnippetWellCut
  BY SnippetsAreWellCut DEF PartsInv, SnippetWellCut
<1> QED
  BY <1>1, PartsInvariant, PTL

\* A keyword of up to half the width is shown whole.
THEOREM KeywordShownHolds == Spec => []KeywordShown
<1>1. ASSUME PartsInv, text.at >= 0, NEW size \in 1..(text.width \div 2),
             text.at + size <= text.length
      PROVE  ShowsMatch(text.length, text.at, size, text.width)
  <2>1. /\ text.length \in Nat /\ text.width \in Nat /\ text.at \in Nat
        /\ size \in Nat /\ 2 * size <= text.width
    BY <1>1 DEF PartsInv
  <2> QED
    BY <1>1, <2>1, MatchesAreShown
<1>2. PartsInv => KeywordShown
  BY <1>1 DEF KeywordShown
<1> QED
  BY <1>2, PartsInvariant, PTL

\* The payloads, spans and exchanges that are given are such as the theorems
\* above are about.
LEMMA PayloadsGiven == MCPayloads \subseteq [Fields -> SUBSET (Rules \cup Masks)]
<1>1. ASSUME NEW S
      PROVE  Holding(S) \in [Fields -> SUBSET (Rules \cup Masks)]
  <2> DEFINE In(f) == {x \in Rules \cup Masks : <<f, x>> \in S}
  <2>1. \A f : In(f) \in SUBSET (Rules \cup Masks)
    OBVIOUS
  <2>2. Holding(S) = [f \in Fields |-> In(f)]
    BY Zenon DEF Holding
  <2> HIDE DEF In
  <2> QED
    BY <2>1, <2>2
<1> QED
  BY <1>1 DEF MCPayloads

\* Redaction takes out nothing that was not warned of, and keeps no secret.
THEOREM MaskedIsWarnedHolds == Spec => []MaskedIsWarned
<1>1. ASSUME PartsInv, Of("enrich")
      PROVE  /\ WarnedOf(Enriched(input), input)
             /\ OnlySecretsMasked(Enriched(input), input)
             /\ WarningsTrue(Enriched(input), input)
  <2>1. input \in MCPayloads
    BY <1>1, InputGiven DEF Inputs
  <2> QED
    BY <2>1, PayloadsGiven, EnrichmentIsSound
<1>2. PartsInv => MaskedIsWarned
  BY <1>1 DEF MaskedIsWarned
<1> QED
  BY <1>2, PartsInvariant, PTL

LEMMA SpansGiven ==
    /\ MCSpans \subseteq [DetailNames -> Nat]
    /\ MCWrites \subseteq Seq(Writes)
<1>1. MCSpans \subseteq [DetailNames -> Nat]
  BY DEF MCSpans
<1>2. ASSUME NEW k \in 0..3
      PROVE  [1..k -> Writes] \subseteq Seq(Writes)
  BY <1>2, IsASeq
<1> QED
  BY <1>1, <1>2 DEF MCWrites

\* A page shows every span as it was captured, whatever was written again.
THEOREM ReadBackHolds == Spec => []ReadBack
<1>1. ASSUME PartsInv, Of("rows")
      PROVE  ReadsBack(input.sp, input.writes)
  <2>1. input \in [sp : MCSpans, writes : MCWrites]
    BY <1>1, InputGiven DEF Inputs
  <2>2. input.sp \in MCSpans /\ input.writes \in MCWrites
    BY <2>1
  <2> QED
    BY <2>2, SpansGiven, SpansReadBack
<1>2. PartsInv => ReadBack
  BY <1>1 DEF ReadBack
<1> QED
  BY <1>2, PartsInvariant, PTL

LEMMA ExchangesGiven ==
    ASSUME NEW e \in MCExchanges
    PROVE  /\ e.r \in AnyRequest /\ e.up \in AnyAnswer
           /\ e.up.fate # "none" => e.up.status # 0
<1>1. Prose \in AnyText /\ Blank \in AnyText
  BY DEF Prose, AnyText, Blank
<1>2. Texts \subseteq AnyText
  BY DEF Texts, AnyText
<1>3. ASSUME NEW k \in {"llm", "tool", "db", "output", "external"}
      PROVE  StepRequest(k) \in AnyRequest
  <2>1. StepPath(k) \subseteq Paths
    BY DEF StepPath, Paths
  <2> QED
    BY <2>1 DEF StepRequest, AnyRequest
<1>4. MCRequests \subseteq AnyRequest
  <2>1. OwnRequests \subseteq AnyRequest
    <3>1. ASSUME NEW b \in {"healthz", "connect", "bad request"}
          PROVE  [StepRequest("db") EXCEPT !.by = b] \in AnyRequest
      BY <1>3 DEF AnyRequest
    <3> QED
      BY <3>1 DEF OwnRequests
  <2>2. ASSUME NEW q \in ProxiedRequests
        PROVE  q \in AnyRequest
    <3>1. PICK p \in Destinations, n \in 1..(BodyLimit + 1), b \in BOOLEAN, c \in BOOLEAN :
             q = [by |-> "proxying", path |-> p, size |-> n, broken |-> b, chat |-> c]
      BY DEF ProxiedRequests
    <3>2. p \in SUBSET Paths
      BY DEF Paths, Destinations
    <3>3. n \in Nat \ {0}
      BY BodyLimitAssumption
    <3> QED
      BY <3>1, <3>2, <3>3 DEF AnyRequest
  <2> QED
    BY <2>1, <2>2 DEF MCRequests
<1>5. ASSUME NEW up \in MCAnswers
      PROVE  up \in AnyAnswer /\ (up.fate # "none" => up.status # 0)
  BY <1>2, <1>1 DEF MCAnswers, AnyAnswer, Whole
<1>6. ASSUME NEW d \in Directives, NEW n \in {0, 503}
      PROVE  /\ MockModel(d, n) \in AnyAnswer
             /\ MockModel(d, n).fate # "none" => MockModel(d, n).status # 0
  <2>1. /\ [Prose EXCEPT !.opens = "refusal"] \in AnyText
        /\ [Prose EXCEPT !.overload = "kept"] \in AnyText
        /\ [Prose EXCEPT !.last = "letter"] \in AnyText
    BY DEF Prose, AnyText
  <2>2. ASSUME NEW status \in Nat \ {0}, NEW body \in {"chat", "other"}, NEW x \in AnyText
        PROVE  /\ Whole(status, body, x) \in AnyAnswer
               /\ Whole(status, body, x).status # 0
    BY DEF Whole, AnyAnswer
  <2>3. CASE d \in {"", "slow"}
    <3>1. MockModel(d, n) = Whole(200, "chat", Prose)
      BY <2>3 DEF MockModel
    <3>2. Whole(200, "chat", Prose) \in AnyAnswer /\ Whole(200, "chat", Prose).status # 0
      BY <1>1, <2>2
    <3> QED
      BY <3>1, <3>2
  <2>4. CASE d = "refuse"
    BY <2>1, <2>2, <2>4 DEF MockModel
  <2>5. CASE d = "overload"
    BY <2>1, <2>2, <2>5 DEF MockModel
  <2>6. CASE d = "cutoff"
    BY <2>1, <2>2, <2>6 DEF MockModel
  <2>7. CASE d = "fail"
    <3>1. PICK status \in Nat \ {0} : status = IF n = 0 THEN 500 ELSE n
      OBVIOUS
    <3>2. MockModel(d, n) = Whole(status, "other", Prose)
      BY <2>7, <3>1 DEF MockModel
    <3> QED
      BY <1>1, <2>2, <3>2
  <2>8. CASE d = "timeout"
    <3>1. MockModel(d, n) = [Whole(0, "other", Blank) EXCEPT !.fate = "none"]
      BY <2>8 DEF MockModel
    <3>2. Whole(0, "other", Blank) \in AnyAnswer
      BY <1>1 DEF Whole, AnyAnswer
    <3>3. /\ [Whole(0, "other", Blank) EXCEPT !.fate = "none"] \in AnyAnswer
          /\ [Whole(0, "other", Blank) EXCEPT !.fate = "none"].fate = "none"
      BY <3>2 DEF AnyAnswer
    <3> QED
      BY <3>1, <3>3
  <2> QED
    BY <2>3, <2>4, <2>5, <2>6, <2>7, <2>8 DEF Directives
<1>7. CASE e \in {[r |-> r, up |-> up] : r \in {StepRequest(k) : k \in {"llm", "tool"}}, up \in MCAnswers}
  BY <1>3, <1>5, <1>7
<1>8. CASE e \in {[r |-> r, up |-> up] : r \in MCRequests,
                    up \in {a \in MCAnswers : a.text \in {Prose, Blank} /\ a.status # 429}}
  BY <1>4, <1>5, <1>8
<1>9. CASE e \in DemoExchanges
  <2>1. PICK k \in {"llm", "tool", "db", "output", "external"}, up \in DemoAnswers :
             e = [r |-> StepRequest(k), up |-> up]
    BY <1>9 DEF DemoExchanges
  <2>2. PICK d \in Directives, n \in {0, 503} : up = MockModel(d, n)
    BY DEF DemoAnswers
  <2>3. up \in AnyAnswer /\ (up.fate # "none" => up.status # 0)
    BY <1>6, <2>2
  <2>4. e.r = StepRequest(k) /\ e.up = up
    BY <2>1
  <2>5. StepRequest(k) \in AnyRequest
    BY <1>3
  <2> QED
    BY <2>3, <2>4, <2>5
<1> QED
  BY <1>7, <1>8, <1>9 DEF MCExchanges

\* The labels of the exchanges are those of the taxonomy, but for Divergence.
THEOREM ErrorTaxonomyHolds == Spec => []ErrorTaxonomy
<1>1. ASSUME PartsInv, Of("capture"), Forwarded(input.r)
      PROVE  LabelledAsDocumented(input.r, input.up)
  <2>1. input \in MCExchanges
    BY <1>1, InputGiven DEF Inputs
  <2> QED
    BY <1>1, <2>1, ExchangesGiven, LabelsFollowTaxonomy
<1>2. PartsInv => ErrorTaxonomy
  BY <1>1 DEF ErrorTaxonomy
<1> QED
  BY <1>2, PartsInvariant, PTL

\* The span of an exchange says of the answer what the agent got.
THEOREM AgentAndSpanAgreeHolds == Spec => []AgentAndSpanAgree
<1>1. ASSUME PartsInv, Of("capture")
      PROVE  SpanAgrees(input.r, input.up)
  <2>1. input \in MCExchanges
    BY <1>1, InputGiven DEF Inputs
  <2> QED
    BY <2>1, ExchangesGiven, SpansAgreeWithReplies
<1>2. PartsInv => AgentAndSpanAgree
  BY <1>1 DEF AgentAndSpanAgree
<1> QED
  BY <1>2, PartsInvariant, PTL

\* Every step is one of the bus or leaves it alone.
LEMMA BusSteps == Spec => BusSpec
<1>1. Init => BusInit
  BY DEF Init
<1>2. [Next]_<<otherVars, heatVars, chatVars, busVars>> => [BusNext]_busVars
  BY DEF Next, LongerPattern, LongerDest, MoreSpans, OtherText, GiveInput, HeatStep, OfChat, BusStep
<1> QED
  BY <1>1, <1>2, PTL DEF Spec, BusSpec

\* Every copy of a message is handled, queued, counted as dropped or still to
\* be offered; none comes twice, before its subscription or out of order.
THEOREM CopiesAccountedHolds == Spec => []CopiesAccounted
<1>1. BusInv => CopiesAccounted
  BY DEF BusInv
<1> QED
  BY <1>1, BusSteps, BusInvariant, PTL

\* The kinds of calls of the run are what the theorem about the map asks for.
LEMMA CallKindsGiven == IsFiniteSet(CallKinds) /\ \A k \in CallKinds : k.agent \in Int
<1>1. ASSUME NEW a, NEW b, NEW c, NEW d, NEW e, NEW f, NEW g
      PROVE  IsFiniteSet({a, b, c, d, e, f, g})
  <2>1. IsFiniteSet(({a} \cup {b}) \cup {c})
    BY FS_Singleton, FS_AddElement
  <2>2. IsFiniteSet((((({a} \cup {b}) \cup {c}) \cup {d}) \cup {e}))
    BY <2>1, FS_AddElement
  <2>3. IsFiniteSet(((((({a} \cup {b}) \cup {c}) \cup {d}) \cup {e}) \cup {f}) \cup {g})
    BY <2>2, FS_AddElement
  <2>4. ((((({a} \cup {b}) \cup {c}) \cup {d}) \cup {e}) \cup {f}) \cup {g} = {a, b, c, d, e, f, g}
    OBVIOUS
  <2> QED
    BY <2>3, <2>4
<1>2. IsFiniteSet(CallKinds)
  BY <1>1 DEF CallKinds
<1>3. \A k \in CallKinds : k.agent \in {1, 2, 3}
  BY DEF CallKinds, StoredCall
<1> QED
  BY <1>2, <1>3

\* The network map counts every stored call of its window once.
THEOREM MapCountsEveryCallHolds == Spec => []MapCountsEveryCall
<1>1. PartsInv => MapCountsEveryCall
  <2> SUFFICES ASSUME PartsInv, Of("map") PROVE CountsEveryCall(input.calls, input.limit)
    BY DEF MapCountsEveryCall
  <2>1. input \in [calls : [CallKinds -> 0..2], limit : 0..2]
    BY InputGiven DEF Inputs
  <2>2. input.calls \in [CallKinds -> Nat] /\ input.limit \in Int
    BY <2>1
  <2> QED
    BY <2>2, CallKindsGiven, MapCounts
<1> QED
  BY <1>1, PartsInvariant, PTL

\* The tables of the run are finite sets of traces with a start.
LEMMA TablesGiven ==
    ASSUME NEW n
    PROVE  Rows(TableOf(n))
<1> DEFINE K == {u \in (DOMAIN TraceKinds) \X (1..2) : u[2] <= n[u[1]]}
<1>1. DOMAIN TraceKinds = 1..4
  BY DEF TraceKinds
<1>2. IsFiniteSet((1..4) \X (1..2))
  <2>1. \A k \in Nat : IsFiniteSet(1..k)
    BY FS_Interval
  <2>2. IsFiniteSet(1..4) /\ IsFiniteSet(1..2)
    BY <2>1
  <2> QED
    BY <2>2, FS_Product
<1>3. IsFiniteSet(K)
  BY <1>1, <1>2, FS_Subset
<1> PICK f : f = [t \in K |-> TraceOf(t)]
  OBVIOUS
<1>4. IsFiniteSet({f[t] : t \in K})
  BY <1>3, ImageFinite
<1>5. {f[t] : t \in K} = TableOf(n)
  BY DEF TableOf
<1>6. ASSUME NEW t \in TableOf(n)
      PROVE  t.start \in Int
  <2>1. PICK u \in K : t = TraceOf(u)
    BY DEF TableOf
  <2>2. t.start = TraceKinds[u[1]].start /\ u[1] \in 1..4
    BY <1>1, <2>1 DEF TraceOf
  <2>3. \A k \in 1..4 : TraceKinds[k].start \in Int
    BY HalfIs DEF TraceKinds, MCNow
  <2> QED
    BY <2>2, <2>3
<1> QED
  BY <1>4, <1>5, <1>6 DEF Rows

\* So are the texts in which the tools search.
LEMMA TextsGiven ==
    ASSUME NEW rows, IsFiniteSet(rows)
    PROVE  IsFiniteSet(TextsOf(rows))
<1> PICK K : K = rows \X ((1..2) \X MCFields)
  OBVIOUS
<1>1. IsFiniteSet(MCFields)
  <2>1. IsFiniteSet(({"user_prompt"} \cup {"response"}) \cup {"model"})
    BY FS_Singleton, FS_AddElement
  <2>2. ({"user_prompt"} \cup {"response"}) \cup {"model"} = MCFields
    BY DEF MCFields
  <2> QED
    BY <2>1, <2>2
<1>2. IsFiniteSet(K)
  <2>1. 1 \in Int /\ 2 \in Int
    OBVIOUS
  <2>2. IsFiniteSet(1..2)
    BY <2>1, FS_Interval
  <2>3. IsFiniteSet((1..2) \X MCFields)
    BY <1>1, <2>2, FS_Product
  <2> QED
    BY <2>3, FS_Product
<1> DEFINE h == [u \in K |-> TextOf(u[1], u[2][1], u[2][2])]
<1>3. DOMAIN h = K /\ \A u \in K : h[u] = TextOf(u[1], u[2][1], u[2][2])
  OBVIOUS
<1> HIDE DEF h
<1> PICK g : DOMAIN g = K /\ \A u \in K : g[u] = TextOf(u[1], u[2][1], u[2][2])
  BY <1>3
<1>4. IsFiniteSet({g[u] : u \in K})
  BY <1>2, ImageFinite
<1>5. TextsOf(rows) \subseteq {g[u] : u \in K}
  <2> SUFFICES ASSUME NEW x \in TextsOf(rows) PROVE x \in {g[u] : u \in K}
    OBVIOUS
  <2>1. PICK t \in rows, k \in 1..2, f \in MCFields : x = TextOf(t, k, f)
    BY DEF TextsOf
  <2>2. <<t, <<k, f>>>> \in K /\ g[<<t, <<k, f>>>>] = x
    BY <2>1
  <2> QED
    BY <2>2
<1> QED
  BY <1>4, <1>5, FS_Subset

\* The questions of the run are such as the theorems are about.
LEMMA ArgsGiven ==
    ASSUME NEW args \in MCToolArgs
    PROVE  AnyToolArgs(args)
<1>1. \A limit \in Limits : AnyLimit(limit)
  BY DEF Limits, AnyLimit, NoArg, WordArg, NumberArg, DigitsArg
<1>2. \A name, flags : FlagGiven(Flag(name, flags))
  BY DEF Flag, FlagGiven
<1>3. "refund" # NoText /\ "b" # NoText
  BY Zenon DEF NoText
<1>4. AgentGiven(NoArg) /\ AgentGiven(WordArg("b"))
  BY <1>3 DEF AgentGiven, WordArg
<1>5. \A u, n \in Int : AnySince(Since(u, n))
  BY DEF AnySince, Since
<1>6. ASSUME NEW s, AnySince(s), NEW limit, AnyLimit(limit), NEW flags, NEW agent, AgentGiven(agent)
      PROVE  AnyToolArgs(ToolArgs(s, limit, flags, agent))
  BY <1>2, <1>3, <1>6 DEF AnyToolArgs, ToolArgs, WordArg
<1>7. CASE args \in {ToolArgs(s, l, {}, NoArg) :
        s \in {Since("none", 0), Since("h", 0), Since("h", 1), Since("h", 20), Anytime,
               Since("d", 1), Since("d", 6), Since("d", 11)}, l \in Limits}
  <2>1. PICK s \in {Since("none", 0), Since("h", 0), Since("h", 1), Since("h", 20), Anytime,
                    Since("d", 1), Since("d", 6), Since("d", 11)}, limit \in Limits :
              args = ToolArgs(s, limit, {}, NoArg)
    BY <1>7
  <2>2. AnySince(s)
    BY DEF Since, Anytime, AnySince
  <2> QED
    BY <1>1, <1>4, <1>6, <2>1, <2>2
<1>8. CASE args \in {ToolArgs(Anytime, NumberArg(2), f, a) :
            f \in SUBSET {"errors", "warnings"}, a \in {NoArg, WordArg("b")}}
  <2>1. AnySince(Anytime) /\ AnyLimit(NumberArg(2))
    BY DEF Since, Anytime, AnySince, NumberArg, AnyLimit
  <2> QED
    BY <1>4, <1>6, <1>8, <2>1
<1> QED
  BY <1>7, <1>8 DEF MCToolArgs

LEMMA PagesGiven ==
    ASSUME NEW q \in MCPages
    PROVE  BoundGiven(q.from) /\ BoundGiven(q.to) /\ AnyLimit(q.limit)
<1>1. \A limit \in Limits : AnyLimit(limit)
  BY DEF Limits, AnyLimit, NoArg, WordArg, NumberArg, DigitsArg
<1>2. \A bound \in Bounds : BoundGiven(bound)
  BY HalfIs DEF Bounds, BoundGiven, MCNow
<1> QED
  BY <1>1, <1>2 DEF MCPages

\* The tools and the pages answer what they are asked.
THEOREM AnsweredAsAskedHolds == Spec => []AnsweredAsAsked
<1>1. ASSUME PartsInv, Of("tools")
      PROVE  /\ ListsAsAsked(TableOf(input.table), input.args, MCNow)
             /\ CountsAsAsked(TableOf(input.table), input.args, MCNow)
             /\ FindsAsAsked(TableOf(input.table), TextsOf(TableOf(input.table)), input.args, MCNow)
  <2> PICK rows : rows = TableOf(input.table)
    OBVIOUS
  <2> PICK args : args = input.args
    OBVIOUS
  <2>1. AnyToolArgs(args)
    <3>1. input \in [table : Tables, args : MCToolArgs]
      BY <1>1, InputGiven DEF Inputs
    <3> QED
      BY <3>1, ArgsGiven
  <2>2. Rows(rows) /\ IsFiniteSet(TextsOf(rows)) /\ MCNow \in Int
    BY TablesGiven, TextsGiven DEF Rows, MCNow
  <2>3. ListsAsAsked(rows, args, MCNow)
    BY <2>1, <2>2, ListsAnswer
  <2>4. CountsAsAsked(rows, args, MCNow)
    BY <2>1, <2>2, MetricsCount
  <2>5. FindsAsAsked(rows, TextsOf(rows), args, MCNow)
    BY <2>1, <2>2, SearchFinds
  <2> QED
    BY <2>3, <2>4, <2>5
<1>2. ASSUME PartsInv, Of("pages")
      PROVE  ShowsAsAsked(TableOf(input.table), input.q, MCNow)
  <2>1. input \in [table : Tables, q : MCPages]
    BY <1>2, InputGiven DEF Inputs
  <2>2. BoundGiven(input.q.from) /\ BoundGiven(input.q.to) /\ AnyLimit(input.q.limit)
    BY <2>1, PagesGiven
  <2>3. Rows(TableOf(input.table)) /\ MCNow \in Int
    BY TablesGiven DEF MCNow
  <2> QED
    BY <2>2, <2>3, PagesAnswer
<1>3. PartsInv => AnsweredAsAsked
  BY <1>1, <1>2 DEF AnsweredAsAsked, ToolsAnswerAsAsked, PagesAnswerAsAsked
<1> QED
  BY <1>3, PartsInvariant, PTL

\* What the attributes and the spans of the export requests are made of.
Keys == {"service.name", "http.response.status_code", "gen_ai.request.model", "gen_ai.completion"}
Types == {"string", "int", "double", "bool", "bare number"}
Values == {NoValue, "0", "200", "204", "404", "500", "OK", "m", "Done.", "and then",
           "billing", "search"}
AnyAttribute == {Attribute(key, type, value) : key \in Keys, type \in Types, value \in Values}
AnySpan == [id : Nat, code : 0..2, attributes : Seq(AnyAttribute)]

LEMMA OneOf == \A L : \A a \in L : <<a>> \in Seq(L)
OBVIOUS
LEMMA TwoOf == \A L : \A a, b \in L : <<a, b>> \in Seq(L)
OBVIOUS
LEMMA AttributeIn ==
    \A key \in Keys, type \in Types, value \in Values : Attribute(key, type, value) \in AnyAttribute
BY DEF AnyAttribute

LEMMA StatusGiven == StatusAttributes \subseteq Seq(AnyAttribute)
<1> SUFFICES ASSUME NEW list \in StatusAttributes PROVE list \in Seq(AnyAttribute)
  OBVIOUS
<1> PICK A : A = AnyAttribute
  OBVIOUS
<1>0. "http.response.status_code" \in Keys
  BY DEF Keys
<1>1. CASE list = <<>>
  BY <1>1, EmptySeqIn
<1>2. ASSUME NEW a \in {<<"string", NoValue>>, <<"string", "404">>, <<"string", "OK">>,
                        <<"int", "0">>, <<"int", "200">>, <<"double", "404">>, <<"bool", NoValue>>,
                        <<"bare number", "500">>},
             list = <<Attribute("http.response.status_code", a[1], a[2])>>
      PROVE  list \in Seq(AnyAttribute)
  <2>1. a[1] \in Types /\ a[2] \in Values
    <3>1. {"string", "int", "double", "bool", "bare number"} \subseteq Types
      BY DEF Types
    <3>2. {NoValue, "404", "OK", "0", "200", "500"} \subseteq Values
      BY DEF Values
    <3>3. \A t \in Types, v \in Values : <<t, v>>[1] \in Types /\ <<t, v>>[2] \in Values
      OBVIOUS
    <3>4. PICK t \in Types, v \in Values : a = <<t, v>>
      BY <1>2, <3>1, <3>2, Zenon
    <3> QED
      BY <3>3, <3>4
  <2>2. Attribute("http.response.status_code", a[1], a[2]) \in AnyAttribute
    BY <1>0, <2>1, AttributeIn
  <2> QED
    BY <1>2, <2>2, OneOf
<1>3. CASE list = <<Attribute("http.response.status_code", "int", "404"),
                    Attribute("http.response.status_code", "int", "204")>>
  <2>1. "int" \in Types /\ "404" \in Values /\ "204" \in Values
    BY DEF Types, Values
  <2>2. /\ Attribute("http.response.status_code", "int", "404") \in AnyAttribute
        /\ Attribute("http.response.status_code", "int", "204") \in AnyAttribute
    BY <1>0, <2>1, AttributeIn
  <2> QED
    BY <1>3, <2>2, TwoOf
<1> QED
  BY <1>1, <1>2, <1>3 DEF StatusAttributes

LEMMA ModelGiven == ModelAttributes \subseteq Seq(AnyAttribute)
<1> SUFFICES ASSUME NEW list \in ModelAttributes PROVE list \in Seq(AnyAttribute)
  OBVIOUS
<1>0. "gen_ai.request.model" \in Keys /\ "gen_ai.completion" \in Keys /\ "string" \in Types
  BY DEF Keys, Types
<1>1. CASE list = <<>>
  BY <1>1, EmptySeqIn
<1>2. ASSUME NEW v \in {"Done.", "and then", NoValue},
             list = <<Attribute("gen_ai.request.model", "string", "m"),
                      Attribute("gen_ai.completion", "string", v)>>
      PROVE  list \in Seq(AnyAttribute)
  <2>1. "m" \in Values /\ v \in Values
    BY DEF Values
  <2>2. /\ Attribute("gen_ai.request.model", "string", "m") \in AnyAttribute
        /\ Attribute("gen_ai.completion", "string", v) \in AnyAttribute
    BY <1>0, <2>1, AttributeIn
  <2> QED
    BY <1>2, <2>2, TwoOf
<1> QED
  BY <1>1, <1>2 DEF ModelAttributes

LEMMA ServicesGiven == Services \subseteq Seq(AnyAttribute)
<1> SUFFICES ASSUME NEW list \in Services PROVE list \in Seq(AnyAttribute)
  OBVIOUS
<1>1. CASE list = <<>>
  BY <1>1, EmptySeqIn
<1>2. ASSUME NEW type \in Types, NEW v \in Values, list = <<Attribute("service.name", type, v)>>
      PROVE  list \in Seq(AnyAttribute)
  <2>1. "service.name" \in Keys
    BY DEF Keys
  <2>2. Attribute("service.name", type, v) \in AnyAttribute
    BY <2>1, AttributeIn
  <2> QED
    BY <1>2, <2>2, OneOf
<1>3. /\ "string" \in Types /\ "bool" \in Types
      /\ "billing" \in Values /\ "search" \in Values /\ NoValue \in Values
  BY DEF Types, Values
<1> QED
  BY <1>1, <1>2, <1>3 DEF Services

LEMMA OtlpSpansGiven == OtlpSpans \subseteq AnySpan
<1> SUFFICES ASSUME NEW s \in OtlpSpans PROVE s \in AnySpan
  OBVIOUS
<1>1. PICK c \in 0..2, sa \in StatusAttributes, ma \in ModelAttributes : s = OtlpSpan(c, sa, ma)
  BY DEF OtlpSpans
<1> PICK list : list = sa \o ma
  OBVIOUS
<1>2. list \in Seq(AnyAttribute)
  BY StatusGiven, ModelGiven, ConcatProperties
<1>3. s = [id |-> 1, code |-> c, attributes |-> list]
  BY <1>1 DEF OtlpSpan
<1> QED
  BY <1>2, <1>3 DEF AnySpan

\* The export requests of the run are such as SpansKept is about.
LEMMA ExportsGiven == MCExports \subseteq Exports(AnyAttribute, AnySpan)
<1> PICK R : R = [resource : Seq(AnyAttribute), spans : Seq(AnySpan)]
  OBVIOUS
<1>1. ASSUME NEW s \in Services, NEW q \in Seq(AnySpan)
      PROVE  [resource |-> s, spans |-> q] \in R
  BY ServicesGiven
<1>2. \A x \in AnySpan : [x EXCEPT !.id = 2] \in AnySpan /\ [x EXCEPT !.id = 3] \in AnySpan
  BY DEF AnySpan
<1> SUFFICES ASSUME NEW request \in MCExports PROVE request \in Seq(R)
  BY DEF Exports
<1>3. CASE request \in {<<[resource |-> s, spans |-> <<x>>]>> : s \in Services, x \in OtlpSpans}
  <2>1. PICK s \in Services, x \in OtlpSpans : request = <<[resource |-> s, spans |-> <<x>>]>>
    BY <1>3
  <2>2. <<x>> \in Seq(AnySpan)
    BY OtlpSpansGiven, OneOf
  <2> PICK r : r = [resource |-> s, spans |-> <<x>>]
    OBVIOUS
  <2>3. r \in R /\ request = <<r>>
    BY <1>1, <2>1, <2>2
  <2> QED
    BY <2>3, OneOf
<1>4. CASE request \in
          {<<[resource |-> s, spans |-> <<x, [y EXCEPT !.id = 2]>>],
             [resource |-> u, spans |-> <<[x EXCEPT !.id = 3]>>]>> :
              s \in Services, u \in Services,
              x \in {z \in OtlpSpans : Len(z.attributes) = 1},
              y \in {z \in OtlpSpans : z.attributes = <<>>}}
  <2>1. PICK s \in Services, u \in Services, x \in OtlpSpans, y \in OtlpSpans :
            request = <<[resource |-> s, spans |-> <<x, [y EXCEPT !.id = 2]>>],
                        [resource |-> u, spans |-> <<[x EXCEPT !.id = 3]>>]>>
    BY <1>4
  <2> PICK second : second = [y EXCEPT !.id = 2]
    OBVIOUS
  <2> PICK third : third = [x EXCEPT !.id = 3]
    OBVIOUS
  <2>2. x \in AnySpan /\ second \in AnySpan /\ third \in AnySpan
    BY <1>2, OtlpSpansGiven
  <2>3. <<x, second>> \in Seq(AnySpan) /\ <<third>> \in Seq(AnySpan)
    BY <2>2, OneOf, TwoOf
  <2> PICK r : r = [resource |-> s, spans |-> <<x, second>>]
    OBVIOUS
  <2> PICK q : q = [resource |-> u, spans |-> <<third>>]
    OBVIOUS
  <2>4. r \in R /\ q \in R
    BY <1>1, <2>3
  <2>5. request = <<r, q>>
    BY <2>1
  <2> QED
    BY <2>4, <2>5, TwoOf
<1> QED
  BY <1>3, <1>4 DEF MCExports

\* The OTLP inlet keeps the spans it takes, with the labels they call for.
THEOREM OtlpErrorsKeptHolds == Spec => []OtlpErrorsKept
<1>1. ASSUME PartsInv, Of("otlp"), ~Malformed(input), NEW texts
      PROVE  KeepsSpans(input, texts)
  <2>1. input \in MCExports
    BY <1>1, InputGiven DEF Inputs
  <2>2. input \in Exports(AnyAttribute, AnySpan)
    BY <2>1, ExportsGiven
  <2>3. \A s \in AnySpan : s.attributes \in Seq(AnyAttribute)
    BY DEF AnySpan
  <2> QED
    BY <1>1, <2>2, <2>3, SpansKept
<1>2. PartsInv => OtlpErrorsKept
  BY <1>1, Zenon DEF OtlpErrorsKept
<1> QED
  BY <1>2, PartsInvariant, PTL
=============================================================================
