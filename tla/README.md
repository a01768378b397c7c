# agent-trace: a verification project

TLA+ models of the tracing pipeline in this repository, checked with TLC, and
theorems about them proved with TLAPS. Paths are relative to the repository.

## The system

Agents talk to their LLMs and tools through a capture proxy, which records each
exchange as a *span*. Spans go to a collector, through a durable stream to a
processor that assembles them into *traces* and stores them, and from there to
the API and the dashboard.

    agents -> proxy --WebSocket--> collector --JetStream--> processor --SQL--> PostgreSQL
                 ^----- acks ----------'                        |                  |
                                                     live events (core NATS)   queries
                                                                v                  v
                                                         api hub --WebSocket--> dashboard

| component | state | operations | what makes it correct |
|---|---|---|---|
| proxy, `cmd/proxy` | resend buffer, sequence counter, connected flag, dropped counter, per-session cursor | capture (`ServeHTTP`, stateless), `enqueue`, `run`, `session`, ack reader | no captured span disappears unless it is stored, invalid, over the cap or counted; every held span is sent until it is acked |
| collector, `cmd/collector` | one read loop per connection | `ingest`, `validate` | an ack is sent only after durability, and covers nothing else |
| transport, `internal/transport` | the stream and its consumers; in-memory channels | `Publish`, `Subscribe` | at-least-once (NATS); the memory transport loses by design |
| processor, `cmd/processor` | open traces, dedup memory, counters | `handleSpan`, `sweep`, `closeLocked` and its goroutine, `retention` | acked messages are durable or counted; duplicates have no effect; traces close once and stay closed |
| store, `internal/store` | `trace_summary`, `trace_detail` | upserts, inserts, queries, retention deletes | rows agree with each other and with what was assembled |
| api, `cmd/api` | the hub's connections | broadcast, queries, chat, OTLP inlet | browsers see every event or can tell they missed one |
| chat, `internal/chat` | none between requests | a bounded tool loop | terminates; a tool error does not end the conversation |
| policy, labels, behavior, checker, redaction | none | pure functions of a span or a trace | agree with their definitions |
| dashboard | page state fed by HTTP snapshots and live events | load, reconnect, send, stop | snapshots that arrive late do not hide newer events |

The hard part is what these goroutines and processes do to each other: capture
goroutines, the shipper, its ack readers (also of dead connections), one
collector handler per connection, the consumer callback, the sweep, one
goroutine per closed trace, three processes that crash independently. The
hazards are listed one by one, with their lines, in `PROJECT.json`.

## Modules

| module | models | status |
|---|---|---|
| `AtLeastOnce` | abstract: what a hand-off of spans from a proxy to the stream promises | checked as a refinement, proved |
| `Delivery` | shipper, connections, collector, `Publish` | checked, safety proved |
| `DeliveryProofs` | theorems about `Delivery` | proved |
| `Processor` | `handleSpan`, `sweep`, close goroutines, the two tables | checked, safety proved |
| `ProcessorProofs` | theorems about `Processor` | proved |
| `LiveEdge` | the hub of the API, `useLive`, the home page and the page of a trace | checked, safety proved |
| `LiveEdgeProofs` | theorems about `LiveEdge` | proved |
| `Storage` | the rows over their whole life: `Processor`, the retention goroutine, `GetTrace` | checked, safety proved |
| `StorageProofs` | theorems about `Storage` | proved |
| `MemoryBus` | the in-memory transport | checked, proved |
| `Capture` | one request through the forward proxy and its error label | checked, proved |
| `Payload` | checker, redaction, and the detail rows of a span | checked, proved |
| `Otlp` | `otel.Convert` | checked, proved |
| `NetMap` | `QueryTopology` | checked, proved |
| `Queries` | the chat's tools, the api's handlers and the queries behind them | checked, proved |
| `Policy` | `match` and `Check` of the policy engine | checked, proved |
| `Labeler` | the behavior tree of a trace | checked, proved |
| `AlgorithmProofs` | theorems about `Policy` and `Labeler` | proved |
| `Snippet` | the cut-outs around search matches | checked, proved |
| `Heatmap` | the moving grid and the cell a user has selected | checked, proved |
| `ChatPage` | the chat page and the tool loop behind it | checked, safety proved |
| `DashboardProofs` | theorems about `Heatmap` and `ChatPage` | proved |
| `Sums` | the sum of a function over a set | |
| `Induction` | induction and recursion over data, folds and sums over finite sets, for the proofs | proved |
| `PartsProofs` | theorems about the functions, `MemoryBus`, and what they say of the states of `MCParts` | proved |
| `MCDelivery`, `MCProcessor`, `MCStorage`, `MCLiveEdge` | the constants of the instances | |
| `MCParts` | the modules from `MemoryBus` on, one at a time: the variable `which` picks one in the initial state | |

### Delivery

A span is its sequence number. `pending`, `seq`, `dropped` and `cursor` are the
variables of the code with the same meaning; `shipper` is the place of the `run`
goroutine (`dial`, `session`, `hangup` between the end of the session and
`connected.Store(false)`; without reattachment `strand` before the buffer is cleared
under the lock, and `count` until its length has been added to the counter,
`uncounted` in between). Everything that
belongs to a connection is a function of the connection's number, because the
handler and the ack reader of a dead connection live on beside those of the
next. `enqueue` is two actions, `Enter` (the unlocked read of `connected`) and
`Assign` (the part under the lock); the writer is `Snapshot` then one `Write` for
each span; the collector is `Receive`, `TransportStores`, `Accept`, with
`PublishFails` possible before and after the store.
`Break`, `Crash` and `Restart` are the faults: a crash of the collector loses
what it had read, a break loses what was written and not read, in both
directions. The history variables `evicted`, `stranded` and `failed` remember
where a span went; no action reads them.

### Processor

`handleSpan` is one action up to its unlock (`HandleSpan`, or `Duplicate`), then
one action per try of a store call (`InsertSpan`, `UpsertSummary`, `InsertFails`,
`UpsertFails`) and `Finish`, which publishes and acks. `Sweep` closes all idle
traces at once, as it does under one lock. `closeLocked` starts a goroutine per
trace: `phase[t]` is its program counter, and its steps are `LabelSpan`,
`SaveTree`, `CloseRow`, `CloseEvent`. A store call that fails, in the handler or in that
goroutine, may have taken effect. A span's labels are written by the close goroutine's caller without the
lock's protection from the handler that is inserting the same span: what that
handler reads is either choice (`StoreDetails`). `Crash` forgets everything in
memory; the messages that were on their way come again when their `AckWait` is over,
in any order (`Reordered`). How often the stream delivers one message is not limited
(the code's consumer parks it after five).

### Storage

`Storage` extends `Processor`: `ProcessorStep` is any of its steps. The retention
goroutine is `Delete(1)` and `Delete(2)`, the two statements of
`DeleteTracesBefore` with the cutoff they share; a statement that fails ends the
run and may have taken effect, and the second runs whatever the first found. A reader of the api is `BeginRead` and `EndRead`, the
two queries of `GetTrace`; a writer or a deletion may come between. Old traces
that are still written are states of the real system: the cutoff looks at the
start of a trace's first span, and a proxy may hold spans back for hours.
The history variable `fate` says what retention did to a trace and whether it was
written to afterwards.

### MemoryBus

`subs[s]` is the channel of a subscription, `taken[s]` what its handler was called
with. `Publish` copies the list of channels (`BeginPublish`) and offers the
message to each of them in a step of its own (`Offer`), so that publishers,
handlers and new subscriptions interleave. `EndSubscription` ends the goroutine and
leaves its channel, which fills up.

### LiveEdge

One browser page, of either kind, and its end in the hub. `row[t]` is the version of
the row of trace `t` in `trace_summary`, `shown[t]` the version on the page. `Write`
and `Publish` are two steps, as in the processor. `Upgrade` and `Register` are the
two halves of `hub.serve`: the browser's `OnOpen` may come between them. `Publish`
appends to the browser's bounded channel or drops the frame, `Pump` moves frames to
the connection, `Break` ends the connection in either half. On the page,
`Connect`, `OnOpen`, `OnClose`, `Disconnect` are the callbacks of `useLive`,
`OnMessage` applies an event, `Reload` and the callbacks start HTTP loads, and each
load is read from the store (`Read`) before it arrives (`LoadArrives`) or fails
(`LoadFails`), in any order with others. The history variables `missed` and
`overtaken` say which events never reached the page and which versions
something older replaced.

### ChatPage

`thread`, `pending`, `activeReq` and `reqCounter` are the state and the refs of the
component; `saved` is its copy in the session storage. A call to `/api/chat` is a
record in `calls`; it goes on after `Stop` and `NewChat`, and its result arrives when
the page may be waiting for another. The server's side of a call is a number of
rounds, each of which answers, fails, or runs tools. `given` remembers the
context sent with each question.

### Policy, Labeler, Snippet, Heatmap

The first three are functions: `Match` follows `match` chunk by chunk and is
compared with `Glob`, which says what wildcards mean; `Label` follows the labeler
span by span and is compared with the runs of equal behaviors in the trace;
`SnippetAround` is compared with what a reader of the search results needs. In
`Heatmap` the clock, the focus window and the selection are state, because a
selection is kept as an absolute time while the grid under it moves.

### Capture, Payload, Otlp, NetMap, Queries

Functions as well, from what a component is given to what it does.
`Capture!ServeHTTP` takes a request and what the upstream does (no answer, a cut
one, a whole one) to what goes upstream, what goes back and the spans enqueued;
`LabelError` is the processor's label of such a span, compared with `Taxonomy`, what
the documents say. A text is reduced to what the labels look at.
`Payload` follows a span from `handleSpan` to a page: `Enriched` is the checker and
the redaction in their order, `RowsAfter` the detail rows after any inserts and
label writes, `SpanFromDetails` what a page gets. `Otlp!Convert` makes spans of an
export request. `NetMap!QueryTopology` groups stored calls as the SQL does and
merges the groups as the loop behind it does; it is compared with counting the
calls. `Queries` has the loosely typed arguments of the tools, the windows with a
duration of `Width` bits, one match per span and searched field, and the answers of the store as sets of possible answers,
because `ORDER BY start_time` does not decide between two traces of one time.

## Runs

| run | instance | result |
|---|---|---|
| `delivery` | 3 spans, cap 2, span 2 invalid, 2 faults, 1 failed publish, with and without reattachment | type, loss, counter, ack and order invariants and the inductive invariant hold |
| `delivery_live` | the same without failed publishes, fair | refines `AtLeastOnce`; every held span is released |
| `delivery_ack_past_failure` | 1 failed publish | **violated**: a cumulative ack covers a failed publish |
| `delivery_no_resend` | 1 failed publish, fair | **violated**: a held span is not sent again on a live connection |
| `processor` | 3 spans, 3 messages, dedup memory 1, 1 store failure, 1 crash | safety invariants with the inductive one, and only swept traces can reopen |
| `processor_reopened` | no faults | **violated**: a closed row becomes running again |
| `processor_slow_call` | no faults | **violated**: a slow call splits a trace |
| `storage` | 2 deliveries, 1 store failure or 1 crash, retention after 1 unit | retention leaves no detail row it cannot find again; a page that says closed misses at most the payload of the span that ended its trace |
| `storage_live` | 2 store failures, fair | opened traces get closed; old traces are gone in the end |
| `live_edge` | 2 traces of 2 versions, channel of 1, 3 loads, 2 failures | the inductive invariant holds; a page at rest is stale only for the named reasons; a closed page has been loaded closed |
| `live_edge_refetch` | the same, no failures | **violated**: events before the registration reach nobody |
| `parts` | see below | each part of `MCParts` agrees with its definition |

The bounds are the smallest at which each hazard can happen. Delivery: two faults
give three connections, so that two dead ones can interfere with a live one; three
spans and a cap of two make the cap evict while the cursor is in the middle of the
buffer; one span is invalid so that a rejection lies between two accepted ones.
Processor: three spans, of which two overlap and finish out of order and one is
terminal after a gap; with three messages one can be a duplicate, and a dedup
memory of one has forgotten it if another came between; one crash falls anywhere.
In `processor` and `storage` a store call has one try, so that one failure already
gives a span up; in `storage_live` there are two failures, so that a retried span is
given up too. Storage: a trace is old after one unit of time while it may be written to
for two, so a retention run meets traces in every state; there is one failure or one
crash, not both, and a reader may ask between any two steps.
LiveEdge: two traces, because events of another trace fill the same channel and the
detail page ignores them; a channel of one is full at the second frame; three loads
and two failures let a failed catch-up overlap an older load. ChatPage: a stopped, a
failed and an answered question before a fourth, on both sides of a refresh, and
two rounds of tools. MemoryBus: two publishers of two messages, two subscriptions with a
channel of one: a channel is full at the second message, and a subscription may
come or end in the middle of a publication. The functions: at five letters a pattern has three chunks
between anchors and a destination in which they overlap; at four spans a
behavior comes back after another one. `Capture` is given all combinations of
the texts, statuses, framings and ends of an answer, `Payload` up to three secrets in
any fields and up to three writes in any order, `Otlp` every combination of the attributes
that count and three spans of two services, `NetMap` up to fourteen calls of
three agents that reach one backend under two destinations, `Queries` tables of up to
four traces of two spans, at, inside and outside the edges of the windows, and a duration of 6
bits, in which eleven days wrap around to a short window and six to a negative one.
`CHECK_DEADLOCK FALSE` is there because the bounded system stops: all spans
handled, all traces closed, no fault left, inputs at their full length.

## Fairness

`Delivery`: every goroutine that can take a step does (WF on the shipper's steps,
on each handler and each ack reader, on an enqueue that has passed its check), and
a crashed collector comes back. An ack reader facing a dead connection returns:
the dialer leaves TCP keepalive on. Faults and failures of `Publish` are never
required, nor are new spans. `Processor`: the clock advances, the consumer
continues, the sweep runs (a two-second ticker) and goroutines are scheduled; new
messages, failing store calls and crashes are not required. `Storage`: the same, and
the retention ticker goes on (every ten minutes, whatever the last run did). `ChatPage`: the server goes
on with a call (each completion has a timeout, the rounds are bounded) and its
results arrive; no user has to do anything. `LiveEdge` has safety properties only,
about the states in which nothing is on its way, and no fairness.

## Findings

1. A cumulative ack covers a span whose publish failed before (collector/main.go:78).
2. A span held after a failed publish is not resent while the connection lives (proxy/main.go:163).
3. A closed summary row can become running again, for ever (processor/main.go:189).
4. A call slower than the idle gap splits a trace (processor/main.go:302).
5. Events between a page's first load and its registration in the hub reach nobody,
   and only an open that follows a drop reloads (useLive.ts:49).

The passing runs and the theorems say what holds in spite of these:
`OnlyFailedPublishLoses`, `HeldIsReleased` without failed publishes,
`OnlySweptReopen` and `StaleOnlyIfMissed`.

Smaller observations are written into properties as named exceptions, instead of
runs of their own:

- A policy pattern without a wildcard also accepts a longer destination that begins
  and ends with it (policy.go:70-78 checks the two ends separately; `MatchIsGlob`).
- A question that is pending when the user leaves the chat page comes back unanswered
  and unmarked, and is in every later context (`QuestionsAccounted`,
  `ContextIsConversation`).
- `Divergence` of `Capture` lists where the label differs from the documented
  taxonomy: a 429 counts as an error although rate limits are "NOT errors"
  (processor/main.go:43); a completion that does not parse is none; a long answer is
  judged by the mark the capture put behind it; an answer that ends in a curly quote
  counts as cut off, because only its last byte is compared (processor/main.go:61); a
  body that ends with the connection and had no length passes for whole.
- A request body over 1 MiB goes upstream cut, a chunked answer that was cut reaches
  the agent as a regular one (`AgentAndSpanAgree`).
- Redaction masks addresses, and response bodies, without a warning: the checker has
  no rule for the first and does not read the second (`MaskedIsWarned`).
- Completion tokens are not stored for a span without prompt tokens (store.go:137;
  `ReadBack`).
- An OTLP status attribute that is empty or of another type makes a good span an
  unanswered one (otel.go:57; `OtlpErrorsKept`).
- A number of days that overflows a duration asks for a short or an empty window, and
  both flags of `list_traces` together mean either (`AnsweredAsAsked`).
- The goroutine that closes a trace runs beside `InsertSpan` of the terminal span
  (processor/main.go:171-183, 237-252): the closed row can be written, and the closed
  event published, before that span's payload is stored, with no failure and no crash.
  The detail page reloads on that event and then disables its live connection
  (TraceDetailClient.tsx:115-126), so it may show a closed trace without its output
  until somebody reloads it. The same holds for the span in hand when the sweep closes
  its trace. `ClosedPageMissesOnlyLast` excuses exactly these spans (`Unwritten`,
  `MayEnd`).
- `DetailsHaveSummary` and `OldAgesOut` leave out three kinds of traces (`Disturbed`):
  a store call about the trace failed; the process crashed while it was open or being
  closed, for instance between `InsertSpan` and `UpsertSummary` of its first span, which
  leaves details without a summary; or it was written to while retention deleted it
  (`fate` is "late"), which leaves rows that no later run of retention finds.
- A trace whose closed row fails in its only try stays running for ever
  (processor/main.go:248); `OpenedGetsClosed` excuses that case, and the process dying.

## What is proved

Each theorem is for every value of the constants that satisfies the named
assumptions, which TLC evaluates in every run. All the safety properties that
the passing runs check are theorems.

`DeliveryProofs`, for every cap, set of invalid spans and bound:

- `Typing`: `Spec => []TypeOK`.
- `HandOff`: `Spec => []HandOffInv`. `OnlyFailedPublishLoses` is not inductive: an
  ack trims a prefix of the buffer, and nothing in that invariant says what the
  prefix holds. `AckCoversSettled` says it for acks on the way; for it to survive
  `Accept`, everything before a span the handler holds must be settled
  (`StreamClosed`), which holds because a connection carries increasing numbers
  (`CarriedInOrder`) and leaves out only settled ones, because the batch goes on
  from the cursor without a hole (`BatchClosed`, `CursorClosed`), because the buffer
  is sorted.
- `LossNeedsFailedPublish`, `AcksAreSafe`, `ConnectionsKeepOrder`: the three
  safety properties, from `HandOff`.
- `LossesAreCounted`: `LossIsCounted`, with a count of the numbers that
  `enqueue` has given out, dropped and evicted.
- `Refinement`: if `MaxPublishFailures = 0` then `Spec => Promise`, which is
  `AtLeastOnce` under the mapping at the end of `Delivery`.

`ProcessorProofs`, for every set of spans, memory size and bound:

- `ProcessorTyping`: `Spec => []TypeOK`.
- `Assembly`: `Spec => []AssemblyInv`, the inductive invariant. `AckedIsDurable` is not
  inductive: `Finish` removes a message, and only the place of the handler says that its
  span was stored or counted before. `SpanInHand` says that the handler works on the
  head of the queue with a current copy of its summary, `SeenSettled` that what is in the dedup memory is stored, counted as
  lost, or the span in hand; `LivingTraces` and `FreshTraces` tie the traces in memory to their
  agents, `ClosedRows` ties a row to the program counter of its goroutine, `ClosingTraces`
  says how far that goroutine has come, `WorkLeft` bounds the traces by the messages,
  `SeenJoined` and
  `OwnRows` in which trace of which life a span is.
- From it: `AckedSpansAreDurable` (`AckedIsDurable`), `DuplicatesHaveNoEffect`
  (`AssembledOnce`: in one life of the process a span is in one trace and counted once,
  unless the dedup memory had forgotten it), `ClosedRowsAreComplete` (`ClosedIsComplete`),
  `DetailsStayWithTheirTrace` (`DetailsUnderTheirTrace`), and the action property
  `OnlySweptReopens`: a row goes back to running only for a trace the sweep has closed
  under a handler that still had to write it.

`StorageProofs`, on top of `Assembly`, because `Storage` runs the processor's steps
beside retention and a reader:

- `StorageInvariant`: what `fate` remembers of a trace is tied to its rows, to the
  half of a retention run that is done and to what the handler holds; and what a
  reader has read in its first query stays a lower bound for the second.
- `NoUnqueryableDetails` (`DetailsHaveSummary`) and `ClosedPagesMissOnlyLast`
  (`ClosedPageMissesOnlyLast`), from it. The second says what a closed page has (the
  tree, every label, the payload of every span but one) and which payload it may miss:
  that of the span that ended the trace, while its insert is under way.

`LiveEdgeProofs`, for any traces, versions, loads and channel:

- `LastVersionAccounted`: `Spec => []EdgeInv`. `StaleOnlyIfMissed` speaks of states in which
  nothing is on its way, and every step can change what is. `EdgeInv` says for every
  state where the last version of a trace is: still due, in the channel, on the
  connection, in a load that has read it or will, on the page, or missed; with the
  order of the loads' numbers and what the hub knows of the connection.
- `RestingPageIsCurrent` (`StaleOnlyIfMissed`) and `ClosedPageLoads`
  (`ClosedPageIsLoaded`), from it.

`DashboardProofs`, about the heatmap for any presets of whole buckets, clock and traces:
`SelectionOnRaster`, that a selection stays on the raster of the window in force, and from it
`SelectedCellIsStable` and `GoneBucketsArePast`; about the chat page
for any number of sends, visits and rounds: `ChatInvariant`, that at most one call is wanted and that its question is the pending one of the thread, here and in the
saved copy; `NoQuestionUnaccounted`; and, with the invariant that what was sent is the
conversation above its answer, `AnswersFit` and `SentConversations`.

`AlgorithmProofs`, about two functions for inputs of any length:

- `LabelsGroupRuns`: the tree of any trace is its grouping into runs. The proof follows the
  fold span by span: after `i` spans the tree is the grouping of the first `i`, the last
  branch is the open one, and a sub-behavior has been begun exactly when some span of the run
  has it. `propagateFlags` comes last, and cannot change which spans a branch holds.
- `MatchesAreGlobs`: `match` takes a destination exactly when the wildcards can be filled in
  so that pattern and destination agree, or in the literal case named under the observations.
  The code looks for each chunk at its leftmost place only. That this misses no match is an
  exchange argument: the leftmost place leaves more of the destination to the chunks after
  it than any other (`SearchStep`, in the induction over the chunks). The reference fills in a
  table from the front, letter by letter, so the two are tied at every star.

`PartsProofs` has two kinds of theorems. The first are about the functions,
for all their inputs: `SnippetsAreWellCut` and `MatchesAreShown` (texts of any length),
`EnrichmentIsSound` (any payload), `SpansReadBack` (any writes, in any number and order),
`LabelsFollowTaxonomy` and `SpansAgreeWithReplies` (any request and answer), `MapCounts`
(any finite set of calls, any limit); `ListsAnswer`, `MetricsCount`, `SearchFinds` and
`PagesAnswer` (any finite table of traces, any arguments); `SpansKept` (any export request,
any attributes); and about the transport in memory `BusInvariant`, whose invariant says of a subscription that has been offered a publisher's last message from
which numbers on it has nothing yet (`NotBeyond`), without which a message could be offered
twice; and counts copies in sums over publishers and over subscriptions. The others,
whose names end in `Holds`, say of every state of `MCParts` what the runs check there; they
follow from the first and from `PartsInvariant`, that the inputs given are such inputs.

The theorems about `Queries` say that there is an answer as well as what is in it. That
the newest rows exist is an induction over the limit (`NewestExists`): from a finite
table that is not used up, a newest row can be taken. The duration wraps around at
`Half`, of which the proofs use only what `QueriesAssumption` says, that a day is less;
a window that was not asked for is one of days that do not fit (`WindowAsked`).
`SpansKept` compares two flat lists, of the converted spans and of the given ones:
flattening keeps what holds element by element (`FlattenMaps`, by induction over the
services), and one span keeps its label because the taxonomy decides by the status
alone when a span came whole (`LabelOf`, `StatusSays`). `Atoi`, which strings are
integers, is a constant: the proof needs only that "0" is 0 and that an empty string is
no integer.

Recursive definitions and sums are reasoned about in `Induction`. The library's
induction theorems take a predicate as a parameter, which the installed provers cannot
instantiate; stated for *sets*, induction follows from the well-foundedness of the
natural numbers (`SetInduction`, `SubsetInduction`). A recursive function is first
shown to exist (`RecursionExists`, `SumExists`), so that what `CHOOSE` picks
satisfies its equation; `FoldExists` does the same for the folds of the library, whose
order over a set nobody knows. `SumOf` takes the elements in an order nobody knows;
`SumRemove` shows that the order does not matter, and `SumChange`, `SumUnion` and
`SumBy` are what the proofs about `MemoryBus` and `NetMap` need.

Only model-checked are the liveness properties, `HeldIsReleased`, `OpenedGetsClosed`,
`OldAgesOut` and `PendingEnds`: fairness is out of the prover's reach. So are the runs
that find a violation, whose counterexamples need no proof.

## Not modelled, and planned

In this order:

1. The total tile and the window of the home page, as further variables of `LiveEdge`.
2. The stream's limit of five deliveries, with more crashes on one message.
3. An abstract trace lifecycle that `Processor` implements, and the composition of
   `Delivery` with `Processor`.

New small modules join `MCParts` as further alternatives of `which`.

Not modelled: rendering, the regular expressions themselves, costs in floating point,
the start time a trace gets when its spans arrive out of order (the model has it; nothing
says which start is meant), the missions of the demo fleet, the load generator and the
deployment files. `PROJECT.json` lists every component with the reason.
