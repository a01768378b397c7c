------------------------------ MODULE Payload ------------------------------
(***************************************************************************)
(* What becomes of a span's payload between handleSpan and a page of the   *)
(* dashboard: the checker scans it, redaction masks it (checker, redact),  *)
(* the store flattens it into rows of trace_detail and puts it together    *)
(* again (spanDetails, InsertSpan, UpdateSpanBehavior, spanFromDetails).   *)
(*                                                                         *)
(* A payload says which patterns occur in which field.  A span is a value  *)
(* per detail name, 0 for Go's zero value.                                 *)
(***************************************************************************)
EXTENDS Integers, Sequences, FiniteSets

-----------------------------------------------------------------------------
(* Enrichment.                                                             *)

Fields == {"system_prompt", "user_prompt", "response", "request_body", "response_body"}
ScanOrder == <<"system_prompt", "user_prompt", "response", "request_body">>

\* The rules of the checker, one for the prompt injections, and the patterns
\* of redaction.
Rules == {"injection", "aws_key", "api_key", "ssn", "card_number"}
Masks == {"aws_key", "api_key", "ssn", "card_number", "email"}

\* Scan: one warning per rule, for the first field it matches.
Scan(payload) ==
    {w \in [rule : Rules, field : Fields] :
        \E i \in DOMAIN ScanOrder :
            /\ w.field = ScanOrder[i] /\ w.rule \in payload[w.field]
            /\ \A k \in 1..(i - 1) : w.rule \notin payload[ScanOrder[k]]}

\* redact.Span: in every field.
Redacted(payload) == [f \in Fields |-> payload[f] \ Masks]

\* What handleSpan stores: the warnings of the raw payload, and the masked one.
MaskedFirst(payload) ==
    [payload |-> Redacted(payload), warnings |-> Scan(Redacted(payload))]
Enriched(payload) == [payload |-> Redacted(payload), warnings |-> Scan(payload)]

\* What is missing in the stored payload was warned of, unless the checker has
\* no rule for it (an address) or does not look there (a response body that is
\* no completion).
WarnedOf(stored, payload) ==
    \A f \in Fields : \A x \in payload[f] \ stored.payload[f] :
        \/ \E w \in stored.warnings : w.rule = x
        \/ x = "email" \/ f = "response_body"

\* No secret that redaction knows is stored, and nothing else is lost.
OnlySecretsMasked(stored, payload) ==
    \A f \in Fields : stored.payload[f] \subseteq payload[f] \ Masks
                      /\ payload[f] \ Masks \subseteq stored.payload[f]

\* A warning names a field that had it, and no two are for one rule.
WarningsTrue(stored, payload) ==
    \A w \in stored.warnings :
        /\ w.rule \in payload[w.field]
        /\ \A v \in stored.warnings : v.rule = w.rule => v = w

-----------------------------------------------------------------------------
(* Rows.                                                                   *)

AlwaysWritten == {"type", "sequence", "start_time", "end_time", "client_ip",
                  "destination", "method", "status_code", "error"}
WrittenIfSet == Fields \cup {"error_kind", "model", "dropped", "warnings"}
LabelNames == {"behavior", "sub_behavior"}
Tokens == {"prompt_tokens", "completion_tokens"}
DetailNames == AlwaysWritten \cup WrittenIfSet \cup LabelNames \cup Tokens

NoRows == [n \in {} |-> 0]

\* Both token counts depend on the first.
SpanDetails(sp) ==
    LET names == AlwaysWritten
                 \cup {n \in WrittenIfSet \cup LabelNames : sp[n] # 0}
                 \cup IF sp["prompt_tokens"] > 0 THEN Tokens ELSE {}
    IN [n \in names |-> sp[n]]

\* ON CONFLICT (span_id, detail_name) DO UPDATE.
Upsert(rows, new) ==
    [n \in DOMAIN rows \cup DOMAIN new |-> IF n \in DOMAIN new THEN new[n] ELSE rows[n]]

ReplaceSpan(rows, sp) == SpanDetails(sp)
InsertSpan(rows, sp) == Upsert(rows, SpanDetails(sp))

\* Both labels, also an empty one.
UpdateSpanBehavior(rows, sp) == Upsert(rows, [n \in LabelNames |-> sp[n]])

SpanFromDetails(rows) ==
    [n \in DetailNames |-> IF n \in DOMAIN rows THEN rows[n] ELSE 0]

\* The labeler sets the labels of a span that another goroutine may be about to
\* insert: it finds none, the first, or both.
Unlabelled(sp) == [n \in DetailNames |-> IF n \in LabelNames THEN 0 ELSE sp[n]]
HalfLabelled(sp) == [sp EXCEPT !["sub_behavior"] = 0]

Write(rows, sp, w) ==
    CASE w = "insert" -> InsertSpan(rows, Unlabelled(sp))
      [] w = "insert half labelled" -> InsertSpan(rows, HalfLabelled(sp))
      [] w = "insert labelled" -> InsertSpan(rows, sp)
      [] w = "label" -> UpdateSpanBehavior(rows, sp)

Inserts == {"insert", "insert half labelled", "insert labelled"}
Writes == Inserts \cup {"label"}

RowsAfter(sp, writes) ==
    LET after[i \in 0..Len(writes)] ==
            IF i = 0 THEN NoRows ELSE Write(after[i - 1], sp, writes[i])
    IN after[Len(writes)]

\* A page shows the span as it was captured and labelled, once it was inserted,
\* whenever the labels were written; a label is missing only if no write had
\* it.  Completion tokens are lost where the prompt is said to have had none.
ReadsBack(sp, writes) ==
    LET done == {writes[i] : i \in DOMAIN writes}
        shown == SpanFromDetails(RowsAfter(sp, writes))
        expected(n) ==
            CASE n = "behavior" ->
                    IF done \subseteq {"insert"} THEN 0 ELSE sp[n]
              [] n = "sub_behavior" ->
                    IF done \subseteq {"insert", "insert half labelled"} THEN 0 ELSE sp[n]
              [] n = "completion_tokens" ->
                    IF sp["prompt_tokens"] = 0 THEN 0 ELSE sp[n]
              [] OTHER -> sp[n]
    IN done \cap Inserts # {} => \A n \in DetailNames : shown[n] = expected(n)
=============================================================================
