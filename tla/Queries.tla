------------------------------- MODULE Queries -------------------------------
(***************************************************************************)
(* What a caller of the store asks for and what it gets: the tools of the  *)
(* chat (dispatch and its argument helpers), the handlers of the api, and  *)
(* QueryTraces, QueryMetrics and SearchSpans behind both.                  *)
(*                                                                         *)
(* A trace is a row [id, agent, start, closed, errors, warnings], one      *)
(* captured field of one of its spans a detail [trace, span, field,        *)
(* words]; an argument of a tool call is a record of its JSON type and its *)
(* value.                                                                  *)
(* Where ORDER BY start_time leaves a choice, a query has several answers. *)
(***************************************************************************)
EXTENDS Integers, FiniteSets, TLC

CONSTANTS
    Hour, Day,                \* 1 h and 24 h
    Width,                    \* the bits of a time.Duration, 64
    ToolRows, ToolRowsMax,    \* 50 and 200
    Matches, MatchesMax,      \* 20 and 100
    PageRows, PageRowsMax,    \* 1000 and 5000
    Quarter                   \* 15 min, the window of the dashboard

\* A time.Duration is a signed integer of Width bits; half of them are negative.
\* (The provers know nothing of powers, only what is assumed of Half.)
Half == 2 ^ (Width - 1)

ASSUME QueriesAssumption ==
    /\ Hour \in Nat \ {0} /\ Day \in Nat /\ Day > Hour /\ Half \in Nat /\ Day < Half
    /\ Quarter \in Nat
    /\ ToolRows \in 1..ToolRowsMax /\ Matches \in 1..MatchesMax /\ PageRows \in 1..PageRowsMax
    /\ ToolRowsMax \in 1..PageRowsMax /\ MatchesMax \in Nat /\ PageRowsMax \in Nat

-----------------------------------------------------------------------------
(* Arguments: the model sends loosely typed JSON.                          *)

NoText == ""
NoArg == [type |-> "none", value |-> 0]
NumberArg(n) == [type |-> "number", value |-> n]
DigitsArg(n) == [type |-> "digits", value |-> n]        \* a number in quotes
WordArg(v) == [type |-> "word", value |-> v]            \* another string
TruthArg(b) == [type |-> "bool", value |-> b]

IntArgNumbersOnly(arg, default) == IF arg.type = "number" THEN arg.value ELSE default
IntArg(arg, default) == IF arg.type \in {"number", "digits"} THEN arg.value ELSE default

BoolArg(arg) == \/ arg.type = "bool" /\ arg.value
                \/ arg.type = "word" /\ arg.value = "true"
StrArg(arg) == CASE arg.type = "word" -> arg.value
                 [] arg.type = "digits" -> ToString(arg.value)
                 [] OTHER -> NoText
ClampInt(n, lo, hi) == IF n < lo THEN lo ELSE IF n > hi THEN hi ELSE n

Wrap(n) == ((n + Half) % (2 * Half)) - Half

\* parseSince: a number of days wraps around, a number of hours that does not
\* fit is an error of ParseDuration; what cannot be read is a day.
ParseSince(s) ==
    CASE s.unit = "d" /\ s.n > 0 -> Wrap(s.n * Day)
      [] s.unit = "h" /\ s.n > 0 /\ s.n * Hour < Half -> s.n * Hour
      [] OTHER -> Day

ToolWindow(s, now) == [from |-> now + Wrap(-ParseSince(s)), to |-> now]

\* parseWindow and topology of the api: a bound that is missing or cannot be
\* parsed has its default, also from when only to is given.
GivenOr(bound, default) == IF bound.given THEN bound.at ELSE default
PageWindow(from, to, length, now) ==
    [from |-> GivenOr(from, now - length), to |-> GivenOr(to, now)]

-----------------------------------------------------------------------------
(* The queries.                                                            *)

InRange(t, w) == t.start >= w.from /\ t.start <= w.to

\* With both flags a trace needs one of the two.
Selected(t, f) ==
    CASE f.onlyErrors /\ f.onlyWarnings -> t.errors \/ t.warnings
      [] f.onlyErrors /\ ~f.onlyWarnings -> t.errors
      [] ~f.onlyErrors /\ f.onlyWarnings -> t.warnings
      [] OTHER -> TRUE

Limited(n, default, max) == IF n <= 0 \/ n > max THEN default ELSE n

\* ORDER BY start_time DESC LIMIT n.
Newest(rows, n) ==
    {S \in SUBSET rows :
        /\ Cardinality(S) = IF Cardinality(rows) < n THEN Cardinality(rows) ELSE n
        /\ \A s \in S, t \in rows \ S : s.start >= t.start}

QueryTraces(rows, w, f) ==
    Newest({t \in rows : InRange(t, w) /\ Selected(t, f) /\ f.agent \in {NoText, t.agent}},
           Limited(f.limit, PageRows, PageRowsMax))

QueryMetrics(rows, w) ==
    LET asked == {t \in rows : InRange(t, w)}
    IN [traces |-> Cardinality(asked), all |-> Cardinality(rows),
        errors |-> Cardinality({t \in asked : t.errors}),
        warnings |-> Cardinality({t \in asked : t.warnings}),
        averaged |-> {t \in asked : t.closed}]

SearchFields == {"system_prompt", "user_prompt", "response", "request_body", "response_body",
                 "destination"}

\* A match: the detail a row of the answer was made from.
Hit(row, detail) ==
    [trace |-> row.id, start |-> row.start, span |-> detail.span, field |-> detail.field]

\* One match per span and searched field that has the word, of the traces
\* started last; every caller's limit is one the query takes as it is.
SearchSpans(rows, details, word, w, limit) ==
    LET found == {p \in rows \X details :
                    /\ p[2].trace = p[1].id /\ InRange(p[1], w)
                    /\ p[2].field \in SearchFields /\ word \in p[2].words}
    IN IF word = NoText THEN {{}} ELSE Newest({Hit(p[1], p[2]) : p \in found}, limit)

-----------------------------------------------------------------------------
(* The callers.                                                            *)

ListTraces(rows, args, now) ==
    QueryTraces(rows, ToolWindow(args.since, now),
        [onlyErrors |-> BoolArg(args.only_errors), onlyWarnings |-> BoolArg(args.only_warnings),
         agent |-> StrArg(args.agent_id),
         limit |-> ClampInt(IntArg(args.limit, ToolRows), 1, ToolRowsMax)])

GetMetrics(rows, args, now) == QueryMetrics(rows, ToolWindow(args.since, now))

\* Without a keyword the tool answers with an error.
SearchTool(rows, details, args, now) ==
    IF StrArg(args.keyword) = NoText THEN {}
    ELSE SearchSpans(rows, details, StrArg(args.keyword), ToolWindow(args.since, now),
                     ClampInt(IntArg(args.limit, Matches), 1, MatchesMax))

\* The table and the top bar of the dashboard; a limit that is no number is 0.
Page(rows, q, now) ==
    QueryTraces(rows, PageWindow(q.from, q.to, Quarter, now),
        [onlyErrors |-> FALSE, onlyWarnings |-> FALSE, agent |-> NoText,
         limit |-> IntArg(q.limit, 0)])
PageMetrics(rows, q, now) == QueryMetrics(rows, PageWindow(q.from, q.to, Quarter, now))

-----------------------------------------------------------------------------
(* What they were asked.                                                   *)

\* The window a question names: "'15m', '1h', '24h', '7d'. Omit for the default
\* 24h".
AskedSpan(s) ==
    CASE s.unit = "d" /\ s.n > 0 -> s.n * Day
      [] s.unit = "h" /\ s.n > 0 -> s.n * Hour
      [] OTHER -> Day
TooLong(s) == AskedSpan(s) >= Half

\* The number of rows a limit asks for: the one nearest to it that is allowed.
Distance(a, b) == IF a <= b THEN b - a ELSE a - b
Nearest(n, lo, hi) ==
    CHOOSE k \in lo..hi : \A j \in lo..hi : Distance(n, k) <= Distance(n, j)
AskedRows(limit, default, max) ==
    IF limit.type \in {"number", "digits"} THEN Nearest(limit.value, 1, max) ELSE default

AskedTraces(rows, s, now) == {t \in rows : t.start >= now - AskedSpan(s) /\ t.start <= now}
WantedTraces(rows, args, now) ==
    {t \in AskedTraces(rows, args.since, now) :
        /\ args.agent_id.type = "word" => t.agent = args.agent_id.value
        /\ \/ args.only_errors # TruthArg(TRUE) /\ args.only_warnings # TruthArg(TRUE)
           \/ args.only_errors = TruthArg(TRUE) /\ t.errors
           \/ args.only_warnings = TruthArg(TRUE) /\ t.warnings}
Hits(rows, details, args, now) ==
    {Hit(p[1], p[2]) :
        p \in {u \in AskedTraces(rows, args.since, now) \X details :
                /\ u[2].trace = u[1].id /\ u[2].field \in SearchFields
                /\ args.keyword.value \in u[2].words}}

\* The answer has at most n of the rows, all of them if they are fewer, and
\* leaves out only rows that are not newer.
NewestOf(answer, rows, n) ==
    /\ answer \subseteq rows
    /\ Cardinality(answer) <= n
    /\ Cardinality(answer) < n => answer = rows
    /\ \A t \in rows \ answer : \A s \in answer : t.start <= s.start

\* There is an answer: the tools list the newest of the traces asked for, count
\* those of the same window, and find the word in every span of them that has it.  A number of days that does not
\* fit a duration asks for some of them at most.
ListsAsAsked(rows, args, now) ==
    /\ ListTraces(rows, args, now) # {}
    /\ \A answer \in ListTraces(rows, args, now) :
          IF TooLong(args.since) THEN answer \subseteq AskedTraces(rows, args.since, now)
          ELSE NewestOf(answer, WantedTraces(rows, args, now), AskedRows(args.limit, ToolRows, ToolRowsMax))
CountsAsAsked(rows, args, now) ==
    LET metrics == GetMetrics(rows, args, now)
        asked == AskedTraces(rows, args.since, now)
    IN ~TooLong(args.since) =>
         /\ metrics.traces = Cardinality(asked)
         /\ metrics.errors = Cardinality({t \in asked : t.errors})
FindsAsAsked(rows, details, args, now) ==
    /\ SearchTool(rows, details, args, now) # {}
    /\ ~TooLong(args.since) =>
          \A found \in SearchTool(rows, details, args, now) :
              NewestOf(found, Hits(rows, details, args, now), AskedRows(args.limit, Matches, MatchesMax))

\* A page has the newest traces of its window, a quarter of an hour unless it
\* says another, and its top bar counts the same traces; a limit that is
\* missing, not positive or too large is the default.
OnPage(rows, q, now) ==
    {t \in rows : /\ t.start >= IF q.from.given THEN q.from.at ELSE now - Quarter
                  /\ t.start <= IF q.to.given THEN q.to.at ELSE now}
PageLimit(limit) ==
    IF limit.type \in {"number", "digits"} /\ limit.value \in 1..PageRowsMax
    THEN limit.value ELSE PageRows
ShowsAsAsked(rows, q, now) ==
    /\ Page(rows, q, now) # {}
    /\ \A answer \in Page(rows, q, now) :
          NewestOf(answer, OnPage(rows, q, now), PageLimit(q.limit))
    /\ PageMetrics(rows, q, now).traces = Cardinality(OnPage(rows, q, now))
    /\ PageMetrics(rows, q, now).averaged \subseteq OnPage(rows, q, now)
=============================================================================
