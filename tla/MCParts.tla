------------------------------ MODULE MCParts ------------------------------
(* The small parts of the system, one at a time: inputs for the algorithms, *)
(* built up step by step (the patterns and destinations of Policy, the      *)
(* spans of Labeler, the texts of Snippet) or given at once (the exchanges  *)
(* of Capture, the spans of Payload, the requests of Otlp, the stored calls *)
(* of NetMap and the questions of Queries), the users of Heatmap and of     *)
(* ChatPage, and the goroutines of MemoryBus.                               *)
EXTENDS Policy, Labeler, Snippet, Heatmap, ChatPage,
        Capture, Payload, Otlp, NetMap, Queries, MemoryBus

CONSTANTS Letters, MaxPattern, MaxDest, MaxSpans, MaxText

ASSUME MaxTextAssumption == MaxText \in Nat

VARIABLES which, pattern, dest, spans, text, inputs
otherVars == <<which, pattern, dest, spans, text, inputs>>
input == inputs[1]

\* One span of each kind the labeler tells apart, some with errors; one prompt
\* mentions the keywords of two groups.
Call(says, error) == [type |-> "llm_call", says |-> says, tool |-> "", error |-> error]
Plain(type, tool, error) == [type |-> type, says |-> {}, tool |-> tool, error |-> error]
SpanKinds == {Call({"plan", "summar"}, FALSE), Call({"summar"}, TRUE), Call({}, FALSE),
              Plain("tool_call", "web", FALSE), Plain("tool_call", "mail", TRUE),
              Plain("db_call", "", FALSE), Plain("other", "", FALSE)}

MCPresets == {[ms |-> 6, cols |-> 3], [ms |-> 12, cols |-> 2]}
MCDefaultPreset == [ms |-> 6, cols |-> 3]
MCLatencyBounds == <<2, 4>>
MCClosedTraces == [start : 8..27, latency : {1, 2, 5}]

-----------------------------------------------------------------------------
(* Inputs given at once.                                                    *)

\* Exchanges: requests of every kind with every answer, and those of the demo.
Destinations == {{"/v1/chat/completions"}, {"/v1/messages", "/tools/"}, {"/tools/", "/db/"},
                 {"/db/"}, {"/user/"}, {}}
ProxiedRequests ==
    {[by |-> "proxying", path |-> p, size |-> n, broken |-> b, chat |-> c] :
        p \in Destinations, n \in 1..(BodyLimit + 1), b \in BOOLEAN, c \in BOOLEAN}
OwnRequests == {[StepRequest("db") EXCEPT !.by = b] : b \in {"healthz", "connect", "bad request"}}
MCRequests == ProxiedRequests \cup OwnRequests
Texts == {Blank} \cup {x \in [opens : {"plain", "refusal"}, overload : {"no", "kept", "beyond"},
                             last : {"stop", "letter", "curly"}, long : BOOLEAN] :
                         x.overload = "beyond" => x.long}
MCAnswers ==
    {[Whole(0, "other", Blank) EXCEPT !.fate = "none"]}
    \cup {[fate |-> f, framed |-> fr, status |-> st, body |-> b, text |-> x] :
            f \in {"whole", "cut"}, fr \in {"length", "chunked", "close"},
            st \in {200, 404, 429}, b \in {"chat", "other"}, x \in Texts}
Directives == {"", "slow", "refuse", "overload", "cutoff", "fail", "timeout"}
DemoAnswers == {MockModel(d, n) : d \in Directives, n \in {0, 503}}
DemoExchanges ==
    {[r |-> StepRequest(k), up |-> up] :
        k \in {"llm", "tool", "db", "output", "external"}, up \in DemoAnswers}
\* A request of each kind with every answer, every request with one of each fate.
MCExchanges ==
    {[r |-> r, up |-> up] : r \in {StepRequest(k) : k \in {"llm", "tool"}}, up \in MCAnswers}
    \cup {[r |-> r, up |-> up] : r \in MCRequests,
            up \in {a \in MCAnswers : a.text \in {Prose, Blank} /\ a.status # 429}}
    \cup DemoExchanges

\* Up to three secrets in the fields of a payload; and spans with each of the
\* details that are not always written, and up to three writes.
Holding(places) == [f \in Fields |-> {x \in Rules \cup Masks : <<f, x>> \in places}]
MCPayloads ==
    LET places == Fields \X (Rules \cup Masks)
    IN {Holding(S) : S \in {{}} \cup {{a, b, c} : a \in places, b \in places, c \in places}}
OptionalNames == LabelNames \cup Tokens \cup {"warnings", "dropped", "error"}
MCSpans == {[n \in DetailNames |-> IF n \in zero THEN 0 ELSE 1] : zero \in SUBSET OptionalNames}
MCWrites == UNION {[1..k -> Writes] : k \in 0..3}

\* The statuses that occur.
MCAtoi == [v \in {"0", "200", "204", "404", "500"} |->
            CHOOSE n \in {0, 200, 204, 404, 500} : ToString(n) = v]

\* Export requests: a span with each combination of the attributes that count,
\* or three spans of two services.
StatusAttributes ==
    {<<>>} \cup {<<Attribute("http.response.status_code", a[1], a[2])>> :
                    a \in {<<"string", NoValue>>, <<"string", "404">>, <<"string", "OK">>,
                           <<"int", "0">>, <<"int", "200">>, <<"double", "404">>, <<"bool", NoValue>>,
                           <<"bare number", "500">>}}
    \cup {<<Attribute("http.response.status_code", "int", "404"),
            Attribute("http.response.status_code", "int", "204")>>}
ModelAttributes ==
    {<<>>} \cup {<<Attribute("gen_ai.request.model", "string", "m"),
                   Attribute("gen_ai.completion", "string", v)>> :
                    v \in {"Done.", "and then", NoValue}}
OtlpSpan(c, sa, ma) == [id |-> 1, code |-> c, attributes |-> sa \o ma]
OtlpSpans == {OtlpSpan(c, sa, ma) : c \in 0..2, sa \in StatusAttributes, ma \in ModelAttributes}
Services == {<<>>, <<Attribute("service.name", "string", "billing")>>,
             <<Attribute("service.name", "string", "search")>>,
             <<Attribute("service.name", "bool", NoValue)>>}
MCExports ==
    {<<[resource |-> s, spans |-> <<x>>]>> : s \in Services, x \in OtlpSpans}
    \cup {<<[resource |-> s, spans |-> <<x, [y EXCEPT !.id = 2]>>],
            [resource |-> u, spans |-> <<[x EXCEPT !.id = 3]>>]>> :
            s \in Services, u \in Services,
            x \in {z \in OtlpSpans : Len(z.attributes) = 1},
            y \in {z \in OtlpSpans : z.attributes = <<>>}}

\* Stored calls: three agents, backends reached under several destinations.
At(host, last) == [host |-> host, last |-> last]
StoredCall(agent, type, to, error, warned, inWindow) ==
    [agent |-> agent, type |-> type, dest |-> to, error |-> error, warned |-> warned,
     inWindow |-> inWindow]
CallKinds == {StoredCall(1, "tool_call", At("h1", "mail"), FALSE, FALSE, TRUE),
              StoredCall(1, "tool_call", At("h2", "mail"), TRUE, FALSE, TRUE),
              StoredCall(1, "llm_call", At("h1", "chat"), FALSE, TRUE, FALSE),
              StoredCall(2, "llm_call", At("h1", "chat"), FALSE, TRUE, TRUE),
              StoredCall(2, "external", At("h1", "x"), FALSE, TRUE, TRUE),
              StoredCall(3, "external", At("h1", "y"), TRUE, FALSE, TRUE),
              StoredCall(3, "tool_call", At("h1", "mail"), FALSE, FALSE, TRUE)}

\* Questions: a table of up to four traces, as many as two of a kind.
MCNow == 100
TraceKinds == <<[agent |-> "a", start |-> MCNow, closed |-> FALSE, errors |-> FALSE, warnings |-> TRUE],
                [agent |-> "b", start |-> MCNow - 1, closed |-> TRUE, errors |-> TRUE, warnings |-> FALSE],
                [agent |-> "a", start |-> MCNow - Day, closed |-> TRUE, errors |-> FALSE, warnings |-> FALSE],
                [agent |-> "b", start |-> MCNow - Day - 1, closed |-> TRUE, errors |-> TRUE, warnings |-> TRUE]>>
Tables == {n \in [DOMAIN TraceKinds -> 0..2] : n[1] + n[2] + n[3] + n[4] <= 4}
TraceOf(t) == [id |-> t, agent |-> TraceKinds[t[1]].agent, start |-> TraceKinds[t[1]].start,
               closed |-> TraceKinds[t[1]].closed, errors |-> TraceKinds[t[1]].errors,
               warnings |-> TraceKinds[t[1]].warnings]
TableOf(n) == {TraceOf(t) : t \in {u \in (DOMAIN TraceKinds) \X (1..2) : u[2] <= n[u[1]]}}
\* Three details of each of two spans of every trace, two of which have the
\* word, one of them in a field that is not searched.
MCFields == {"user_prompt", "response", "model"}
TextOf(t, s, f) ==
    [trace |-> t.id, span |-> s, field |-> f, words |-> IF f = "response" THEN {} ELSE {"refund"}]
TextsOf(rows) == {TextOf(t, s, f) : t \in rows, s \in 1..2, f \in MCFields}
Limits == {NoArg, WordArg("many")} \cup {NumberArg(n) : n \in {0, 1, 2, 9}}
          \cup {DigitsArg(n) : n \in {1, 2}}
Flag(name, flags) == IF name \in flags THEN TruthArg(TRUE) ELSE NoArg
ToolArgs(since, limit, flags, agent) ==
    [since |-> since, limit |-> limit, only_errors |-> Flag("errors", flags),
     only_warnings |-> Flag("warnings", flags), agent_id |-> agent, keyword |-> WordArg("refund")]
Since(u, n) == [unit |-> u, n |-> n]
Anytime == Since("d", 2)
MCToolArgs ==
    {ToolArgs(s, l, {}, NoArg) :
        s \in {Since("none", 0), Since("h", 0), Since("h", 1), Since("h", 20), Anytime,
               Since("d", 1), Since("d", 6), Since("d", 11)}, l \in Limits}
    \cup {ToolArgs(Anytime, NumberArg(2), f, a) :
            f \in SUBSET {"errors", "warnings"}, a \in {NoArg, WordArg("b")}}
Bounds == {[given |-> FALSE, at |-> 0]} \cup {[given |-> TRUE, at |-> MCNow - n] : n \in {0, 1, Day + 1}}
MCPages == [from : Bounds, to : Bounds, limit : Limits]

Of(part) == which = part /\ inputs # <<>>
Inputs(part) ==
    CASE part = "capture" -> MCExchanges
      [] part = "enrich" -> MCPayloads
      [] part = "rows" -> [sp : MCSpans, writes : MCWrites]
      [] part = "otlp" -> MCExports
      [] part = "map" -> [calls : [CallKinds -> 0..2], limit : 0..2]
      [] part = "tools" -> [table : Tables, args : MCToolArgs]
      [] part = "pages" -> [table : Tables, q : MCPages]
GivenParts == {"capture", "enrich", "rows", "otlp", "map", "tools", "pages"}

-----------------------------------------------------------------------------

Init ==
    /\ which \in {"policy", "labeler", "snippet", "heatmap", "chat", "bus"} \cup GivenParts
    /\ pattern = <<>> /\ dest = <<>> /\ spans = <<>>
    /\ text = [length |-> 0, at |-> -1, width |-> 0]
    /\ inputs = <<>>
    /\ HeatInit /\ ChatInit /\ BusInit

LongerPattern ==
    /\ which = "policy" /\ dest = <<>> /\ Len(pattern) < MaxPattern
    /\ \E c \in Letters \cup {Star} : pattern' = Append(pattern, c)
    /\ UNCHANGED <<which, dest, spans, text, inputs, heatVars, chatVars, busVars>>

LongerDest ==
    /\ which = "policy" /\ Len(dest) < MaxDest
    /\ \E c \in Letters : dest' = Append(dest, c)
    /\ UNCHANGED <<which, pattern, spans, text, inputs, heatVars, chatVars, busVars>>

MoreSpans ==
    /\ which = "labeler" /\ Len(spans) < MaxSpans
    /\ \E s \in SpanKinds : spans' = Append(spans, s)
    /\ UNCHANGED <<which, pattern, dest, text, inputs, heatVars, chatVars, busVars>>

OtherText ==
    /\ which = "snippet"
    /\ \E n \in 0..MaxText : \E i \in -1..(n - 1), w \in 0..(MaxText - 2) :
          text' = [length |-> n, at |-> i, width |-> w]
    /\ UNCHANGED <<which, pattern, dest, spans, inputs, heatVars, chatVars, busVars>>

GiveInput ==
    /\ which \in GivenParts /\ inputs = <<>>
    /\ \E i \in Inputs(which) : inputs' = <<i>>
    /\ UNCHANGED <<which, pattern, dest, spans, text, heatVars, chatVars, busVars>>

HeatStep == which = "heatmap" /\ HeatNext /\ UNCHANGED <<otherVars, chatVars, busVars>>

OfChat(A) == which = "chat" /\ A /\ UNCHANGED <<otherVars, heatVars, busVars>>

BusStep == which = "bus" /\ BusNext /\ UNCHANGED <<otherVars, heatVars, chatVars>>

Next ==
    \/ LongerPattern \/ LongerDest \/ MoreSpans \/ OtherText \/ GiveInput
    \/ HeatStep \/ OfChat(ChatNext) \/ BusStep

\* The server answers, with a timeout on each completion, and its answers or
\* the end of the connection reach the browser.
Fairness == WF_chatVars(OfChat(Serve)) /\ WF_chatVars(OfChat(Arrive))

Spec == Init /\ [][Next]_<<otherVars, heatVars, chatVars, busVars>> /\ Fairness

-----------------------------------------------------------------------------

\* match agrees with what a pattern with wildcards means, with its chunks in
\* order and anchored at the ends, except that a pattern without a wildcard
\* also takes a longer destination that begins with it and ends with it.
MatchIsGlob ==
    LET literal == \A i \in DOMAIN pattern : pattern[i] # Star
    IN Match(pattern, dest) <=>
         \/ Glob(pattern, dest)
         \/ literal /\ IsPrefix(pattern, dest) /\ IsSuffix(pattern, dest)

\* Label loses, moves and duplicates no span: the branches are the runs of
\* spans with one behavior, and a branch or sub-branch is marked as failed
\* exactly when one of its spans is.
LabelGroupsRuns == IsGrouping(Label(spans), spans)

\* What snippetAround returns is in range, and as wide as it may be.
SnippetWellCut == WellCut(text.length, text.at, text.width)

\* A keyword of up to half the width is shown whole.
KeywordShown ==
    text.at >= 0 =>
        \A size \in 1..(text.width \div 2) :
            text.at + size <= text.length =>
                ShowsMatch(text.length, text.at, size, text.width)

\* A span's error label is the one the taxonomy of the documents gives the
\* exchange, except where Divergence says which other one it gets.
ErrorTaxonomy ==
    Of("capture") /\ Forwarded(input.r) => LabelledAsDocumented(input.r, input.up)

\* A forwarded request leaves one span, which says of the answer what the agent
\* got: its status, and that it was dropped exactly when the agent got an error
\* of the proxy or a broken body, or a chunked one that was cut and reads as
\* whole.  The request went on whole, or it was longer than the limit, or the
\* agent broke off; only then is a chat request captured without its prompts.
AgentAndSpanAgree ==
    Of("capture") => SpanAgrees(input.r, input.up)

\* What redaction took out of a stored payload was warned of, because the
\* checker saw the raw text; nothing it knows is stored.
MaskedIsWarned ==
    Of("enrich") => /\ WarnedOf(Enriched(input), input)
                    /\ OnlySecretsMasked(Enriched(input), input)
                    /\ WarningsTrue(Enriched(input), input)

\* In whatever order a span is inserted, inserted again and labelled, the page
\* of the trace shows it as it was captured.
ReadBack == Of("rows") => ReadsBack(input.sp, input.writes)

\* The inlet keeps every span of a request it takes, in order and under its
\* service, and the label of a span says http_status exactly when the exporter
\* marked it as failed or gave a failing status; a status that is no number
\* and no text counts as no answer at all.
OtlpErrorsKept ==
    Of("otlp") /\ ~Malformed(input) =>
        KeepsSpans(input, {Blank, Prose, [Prose EXCEPT !.last = "letter"]})

\* The network map counts every stored call of its window once, and leaves out
\* only the agents that called least.
MapCountsEveryCall == Of("map") => CountsEveryCall(input.calls, input.limit)

\* A tool lists the newest traces of the window it was asked for, as many as
\* were asked for within its maximum, those with errors or warnings if both
\* flags are set; the metrics of the same window count the same traces, and a
\* search finds the word in all of them, the newest first.
\* The exception is a number of days that does not fit a duration: it asks for
\* some of them at most.
ToolsAnswerAsAsked ==
    Of("tools") =>
        LET rows == TableOf(input.table)
        IN /\ ListsAsAsked(rows, input.args, MCNow)
           /\ CountsAsAsked(rows, input.args, MCNow)
           /\ FindsAsAsked(rows, TextsOf(rows), input.args, MCNow)

\* A page of the dashboard has the newest traces of its window, and its top bar
\* counts no fewer than the table shows.
PagesAnswerAsAsked ==
    Of("pages") => ShowsAsAsked(TableOf(input.table), input.q, MCNow)

\* The chat's tools and the dashboard's pages answer what they were asked.
AnsweredAsAsked == ToolsAnswerAsAsked /\ PagesAnswerAsAsked
=============================================================================
