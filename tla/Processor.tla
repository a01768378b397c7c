----------------------------- MODULE Processor -----------------------------
(***************************************************************************)
(* The processor of cmd/processor: handleSpan (run by the transport, one   *)
(* message at a time), the sweep that closes idle traces, one goroutine    *)
(* per closed trace that writes the labels, the tree and the final summary *)
(* row, and the two tables of internal/store they all write.               *)
(*                                                                         *)
(* The part of handleSpan under p.mu is one action, and so is every        *)
(* statement sent to the store: between those anything else may run.  A    *)
(* store call that fails may have taken effect (the connection can break   *)
(* after the commit).                                                      *)
(*                                                                         *)
(* A span's content does not matter here, only who sent it, when, and      *)
(* whether it is the terminal output.  Its times come from the proxy's     *)
(* clock and the sweep's from the processor's; they are taken to agree.    *)
(* Not represented: poison payloads (acked at once, nothing changes), the  *)
(* parking of a message after five deliveries, the "span" live event, the  *)
(* retention sweep and the healthz counters spans and closed.              *)
(***************************************************************************)
EXTENDS Integers, Sequences, FiniteSets

CONSTANTS
    Agents, Spans,
    AgentOf,             \* the agent whose proxy captured a span
    StartOf, EndOf,      \* when its request started and ended
    Terminal,            \* the spans of type output
    IdleGap,             \* idleGap, 10 s
    SeenCap,             \* how many span IDs the dedup remembers (200000)
    Attempts,            \* tries of retryStore (6)
    MaxTime,             \* bound: the clock
    MaxDeliveries,       \* bound: messages on the raw stream
    MaxStoreFailures,    \* bound: store calls that return an error
    MaxCrashes           \* bound: crashes of the processor

ASSUME SpanAssumption ==
    /\ AgentOf \in [Spans -> Agents]
    /\ StartOf \in [Spans -> Nat] /\ EndOf \in [Spans -> Nat]
    /\ \A s \in Spans : StartOf[s] <= EndOf[s]
    /\ Terminal \subseteq Spans /\ IsFiniteSet(Spans)
ASSUME LimitAssumption ==
    /\ IdleGap \in Nat /\ SeenCap \in Nat \ {0} /\ Attempts \in Nat \ {0}
    /\ MaxTime \in Nat /\ MaxDeliveries \in Nat
    /\ MaxStoreFailures \in Nat /\ MaxCrashes \in Nat
ASSUME NoSpanAssumption == 0 \notin Spans

\* Trace IDs, in the order newID hands them out: a message opens at most one
\* trace each time it is delivered.
Traces == 1..(MaxDeliveries + MaxCrashes)

VARIABLES
    now,         \* the clock
    deliveries,  \* messages the collectors have published
    queue,       \* the raw stream, from the first message not acked
    open,        \* per agent: its open trace, 0 if none
    opened,      \* trace IDs handed out
    members,     \* per trace: its spans
    count,       \*   SpanCount
    start, last, \*   StartTime, and lastActivity
    phase,       \*   new, open, then where its close goroutine is
    unlabelled,  \*   spans that goroutine still has to update
    seen,        \* span IDs handled, oldest first (seen and seenQ)
    pc,          \* where handleSpan is, past its locked part
    span, trace, \*   the span it handles, and the trace that span joined
    copy,        \*   SpanCount in its copy of the summary
    attempt,     \*   tries of the store call so far
    row,         \* trace_summary: per trace, its status and span_count
    detailOf,    \* trace_detail: the trace a span's payload rows carry, or 0
    labelOf,     \*   the trace its behavior rows carry, or 0
    tree,        \*   traces whose behavior tree is stored
    shown,       \* per trace: status in the last trace_upsert event
    lost,        \* spans counted in storageDropped
    storeFailures, crashes,
    life,        \* history: per trace, the crashes before it was opened
    swept,       \* history: traces the idle sweep closed
    blip,        \* history: traces a failed store call was about
    forgotten    \* history: spans that left the dedup memory

streamVars == <<now, deliveries, queue>>
traceVars == <<open, opened, members, count, start, last, life>>
closeVars == <<phase, unlabelled>>
handlerVars == <<pc, span, trace, copy, attempt>>
storeVars == <<row, detailOf, labelOf, tree>>
faultVars == <<storeFailures, crashes, blip>>
dedupVars == <<seen, forgotten>>
vars == <<streamVars, traceVars, closeVars, handlerVars, storeVars, faultVars,
          dedupVars, shown, lost, swept>>

MaxOf(x, y) == IF x < y THEN y ELSE x
Entries(q) == {q[i] : i \in DOMAIN q}
NoRow == [status |-> "none", count |-> 0]

Init ==
    /\ now = 0 /\ deliveries = 0 /\ queue = <<>>
    /\ open = [a \in Agents |-> 0] /\ opened = 0
    /\ members = [t \in Traces |-> {}] /\ count = [t \in Traces |-> 0]
    /\ start = [t \in Traces |-> 0] /\ last = [t \in Traces |-> 0]
    /\ life = [t \in Traces |-> 0]
    /\ phase = [t \in Traces |-> "new"] /\ unlabelled = [t \in Traces |-> {}]
    /\ seen = <<>> /\ forgotten = {}
    /\ pc = "idle" /\ span = 0 /\ trace = 0 /\ copy = 0 /\ attempt = 0
    /\ row = [t \in Traces |-> NoRow]
    /\ detailOf = [s \in Spans |-> 0] /\ labelOf = [s \in Spans |-> 0]
    /\ tree = {} /\ shown = [t \in Traces |-> "none"]
    /\ lost = {} /\ swept = {} /\ blip = {}
    /\ storeFailures = 0 /\ crashes = 0

-----------------------------------------------------------------------------
(* The surroundings: the clock, and the collectors at the other end of the *)
(* raw stream.                                                             *)

Tick ==
    /\ now < MaxTime
    /\ now' = now + 1
    /\ UNCHANGED <<deliveries, queue, traceVars, closeVars, handlerVars>>
    /\ UNCHANGED <<storeVars, faultVars, dedupVars, shown, lost, swept>>

\* A finished span reaches the stream, the first time or again: a proxy that
\* resends, an OTLP exporter that repeats a request of which the inlet had
\* published a part before it failed (otelIngest), or an ack the consumer's
\* server did not get in time.
Publish ==
    /\ deliveries < MaxDeliveries
    /\ deliveries' = deliveries + 1
    /\ \E s \in Spans : EndOf[s] <= now /\ queue' = Append(queue, s)
    /\ UNCHANGED <<now, traceVars, closeVars, handlerVars>>
    /\ UNCHANGED <<storeVars, faultVars, dedupVars, shown, lost, swept>>

-----------------------------------------------------------------------------
(* handleSpan under the lock: dedup and trace assembly.                    *)

\* seen[SpanID] set, and the oldest ID out when there are too many.
RememberedOldest(s) == IF Len(seen) < SeenCap THEN Append(seen, s) ELSE seen
Remembered(s) == IF Len(seen) < SeenCap THEN Append(seen, s) ELSE Append(Tail(seen), s)
Forgotten == IF Len(seen) < SeenCap THEN {} ELSE {Head(seen)}

Duplicate ==
    /\ pc = "idle" /\ queue # <<>>
    /\ Head(queue) \in Entries(seen)
    /\ queue' = Tail(queue)
    /\ UNCHANGED <<now, deliveries, traceVars, closeVars, handlerVars>>
    /\ UNCHANGED <<storeVars, faultVars, dedupVars, shown, lost, swept>>

\* The agent's trace stays open for a span that starts within the idle gap of
\* its last activity, or before it.
Joins(s) == /\ open[AgentOf[s]] # 0
            /\ StartOf[s] - last[open[AgentOf[s]]] <= IdleGap

\* closeLocked hands each of these traces to a goroutine of its own.
ClosedBy(s, t) == (IF open[AgentOf[s]] # t THEN {open[AgentOf[s]]} \ {0} ELSE {})
                      \cup (IF s \in Terminal THEN {t} ELSE {})

\* The span joins trace t, which is new unless the span Joins the open one.
Assemble(s, t) ==
    /\ open' = [open EXCEPT ![AgentOf[s]] = IF s \in Terminal THEN 0 ELSE t]
    /\ opened' = MaxOf(opened, t)
    /\ members' = [members EXCEPT ![t] = @ \cup {s}]
    /\ count' = [count EXCEPT ![t] = @ + 1]
    /\ start' = [start EXCEPT ![t] = IF t = opened + 1 THEN StartOf[s] ELSE @]
    /\ last' = [last EXCEPT ![t] = MaxOf(@, EndOf[s])]
    /\ life' = [life EXCEPT ![t] = crashes]
    /\ phase' = [u \in Traces |-> IF u \in ClosedBy(s, t) THEN "labels"
                                  ELSE IF u = t THEN "open" ELSE phase[u]]
    /\ unlabelled' = [u \in Traces |-> IF u \in ClosedBy(s, t) THEN members'[u]
                                       ELSE unlabelled[u]]

TraceFor(s) == IF Joins(s) THEN open[AgentOf[s]] ELSE opened + 1

HandleSpan ==
    /\ pc = "idle" /\ queue # <<>>
    /\ Head(queue) \notin Entries(seen)
    /\ LET s == Head(queue)
           t == TraceFor(s)
       IN /\ seen' = Remembered(s)
          /\ forgotten' = forgotten \cup Forgotten
          /\ Assemble(s, t)
          /\ span' = s /\ trace' = t
          /\ copy' = count'[t]
    /\ pc' = "insert" /\ attempt' = 0
    /\ UNCHANGED <<streamVars, storeVars, faultVars, shown, lost, swept>>

-----------------------------------------------------------------------------
(* handleSpan after the lock: storage with retries, and the live edge.     *)

\* ON CONFLICT keeps the trace_id of the row that is there.
Owner(current, t) == IF current = 0 THEN t ELSE current

\* Reading the span's behavior races with closeLocked writing it; InsertSpan
\* writes behavior rows only when it read a label.
StoreDetails ==
    /\ detailOf' = [detailOf EXCEPT ![span] = Owner(@, trace)]
    /\ \E labelled \in IF phase[trace] = "open" THEN {FALSE} ELSE BOOLEAN :
          labelOf' = IF labelled
                       THEN [labelOf EXCEPT ![span] = Owner(@, trace)]
                       ELSE labelOf

\* A terminal span leaves the summary row to the close goroutine.
UpsertsAlways(s) == TRUE
Upserts(s) == s \notin Terminal

InsertSpan ==
    /\ pc = "insert"
    /\ StoreDetails
    /\ pc' = IF Upserts(span) THEN "upsert" ELSE "finish"
    /\ attempt' = 0
    /\ UNCHANGED <<span, trace, copy, row, tree>>
    /\ UNCHANGED <<streamVars, traceVars, closeVars, faultVars, dedupVars>>
    /\ UNCHANGED <<shown, lost, swept>>

UpsertSummary ==
    /\ pc = "upsert"
    /\ row' = [row EXCEPT ![trace] = [status |-> "running", count |-> copy]]
    /\ pc' = "finish" /\ attempt' = 0
    /\ UNCHANGED <<span, trace, copy, detailOf, labelOf, tree>>
    /\ UNCHANGED <<streamVars, traceVars, closeVars, faultVars, dedupVars>>
    /\ UNCHANGED <<shown, lost, swept>>

StoreFails(t) ==
    /\ storeFailures < MaxStoreFailures
    /\ storeFailures' = storeFailures + 1
    /\ blip' = blip \cup {t}
    /\ UNCHANGED crashes

\* handleSpan returns nil, its locals are gone and the message is acked.
NoCall == /\ pc' = "idle" /\ span' = 0 /\ trace' = 0 /\ copy' = 0 /\ attempt' = 0
Return == NoCall /\ queue' = Tail(queue)

ExhaustedLate == attempt > Attempts
Exhausted == attempt + 1 = Attempts
GivenUpSilently(s) == lost
GivenUp(s) == lost \cup {s}

\* A try of InsertSpan fails: try again, or count the span as dropped and
\* return, which acks the message.
InsertFails ==
    /\ pc = "insert"
    /\ StoreFails(trace)
    /\ StoreDetails \/ UNCHANGED <<detailOf, labelOf>>
    /\ IF Exhausted
         THEN Return /\ lost' = GivenUp(span)
         ELSE /\ attempt' = attempt + 1
              /\ UNCHANGED <<pc, span, trace, copy, lost, queue>>
    /\ UNCHANGED <<now, deliveries, row, tree>>
    /\ UNCHANGED <<traceVars, closeVars, dedupVars, shown, swept>>

\* A try of the running UpsertSummary fails; the last one is only logged.
UpsertFails ==
    /\ pc = "upsert"
    /\ StoreFails(trace)
    /\ \/ row' = [row EXCEPT ![trace] = [status |-> "running", count |-> copy]]
       \/ UNCHANGED row
    /\ IF Exhausted THEN pc' = "finish" /\ attempt' = 0
                    ELSE UNCHANGED pc /\ attempt' = attempt + 1
    /\ UNCHANGED <<span, trace, copy, detailOf, labelOf, tree>>
    /\ UNCHANGED <<streamVars, traceVars, closeVars, dedupVars>>
    /\ UNCHANGED <<shown, lost, swept>>

\* The live events, and the return that acks the message.
Finish ==
    /\ pc = "finish"
    /\ shown' = IF Upserts(span) THEN [shown EXCEPT ![trace] = "running"] ELSE shown
    /\ Return
    /\ UNCHANGED <<now, deliveries>>
    /\ UNCHANGED <<traceVars, closeVars, storeVars, faultVars, dedupVars>>
    /\ UNCHANGED <<lost, swept>>

-----------------------------------------------------------------------------
(* The idle sweep and the goroutines of closeLocked.                       *)

IdleBackwards(t) == last[t] - now > IdleGap
Idle(t) == now - last[t] > IdleGap

Sweep ==
    LET idle == {a \in Agents : open[a] # 0 /\ Idle(open[a])}
        gone == {open[a] : a \in idle}
    IN /\ idle # {}
       /\ open' = [a \in Agents |-> IF a \in idle THEN 0 ELSE open[a]]
       /\ phase' = [t \in Traces |-> IF t \in gone THEN "labels" ELSE phase[t]]
       /\ unlabelled' = [t \in Traces |-> IF t \in gone THEN members[t]
                                          ELSE unlabelled[t]]
       /\ swept' = swept \cup gone
       /\ UNCHANGED <<opened, members, count, start, last, life, shown, lost>>
       /\ UNCHANGED <<streamVars, handlerVars, storeVars, faultVars, dedupVars>>

\* UpdateSpanBehavior for one span of the trace; a failure is only logged.
LabelSpan(t) ==
    /\ phase[t] = "labels"
    /\ \E s \in unlabelled[t] :
          /\ unlabelled' = [unlabelled EXCEPT ![t] = @ \ {s}]
          /\ \/ labelOf' = [labelOf EXCEPT ![s] = Owner(@, t)] /\ UNCHANGED faultVars
             \/ /\ labelOf' = [labelOf EXCEPT ![s] = Owner(@, t)] \/ UNCHANGED labelOf
                /\ StoreFails(t)
    /\ UNCHANGED <<phase, row, detailOf, tree, shown, lost, swept>>
    /\ UNCHANGED <<streamVars, traceVars, handlerVars, dedupVars>>

\* SaveBehaviorTree comes after the last label; a failure is only logged.
LabelsUnderway(t) == TRUE
LabelsWritten(t) == unlabelled[t] = {}

SaveTree(t) ==
    /\ phase[t] = "labels" /\ LabelsWritten(t)
    /\ phase' = [phase EXCEPT ![t] = "row"]
    /\ \/ tree' = tree \cup {t} /\ UNCHANGED faultVars
       \/ (tree' = tree \cup {t} \/ UNCHANGED tree) /\ StoreFails(t)
    /\ UNCHANGED <<unlabelled, row, detailOf, labelOf, shown, lost, swept>>
    /\ UNCHANGED <<streamVars, traceVars, handlerVars, dedupVars>>

\* The closed summary row, tried once: on an error the goroutine returns.
FinalRow(t) == [row EXCEPT ![t] = [status |-> "closed", count |-> count[t]]]

CloseRow(t) ==
    /\ phase[t] = "row"
    /\ \/ /\ row' = FinalRow(t)
          /\ phase' = [phase EXCEPT ![t] = "event"]
          /\ UNCHANGED faultVars
       \/ /\ row' = FinalRow(t) \/ UNCHANGED row
          /\ phase' = [phase EXCEPT ![t] = "done"]
          /\ StoreFails(t)
    /\ UNCHANGED <<unlabelled, detailOf, labelOf, tree, shown, lost, swept>>
    /\ UNCHANGED <<streamVars, traceVars, handlerVars, dedupVars>>

CloseEvent(t) ==
    /\ phase[t] = "event"
    /\ shown' = [shown EXCEPT ![t] = "closed"]
    /\ phase' = [phase EXCEPT ![t] = "done"]
    /\ UNCHANGED <<unlabelled, lost, swept>>
    /\ UNCHANGED <<streamVars, traceVars, handlerVars, storeVars, faultVars, dedupVars>>

\* The messages of q in every order.
Reordered(q) ==
    {[i \in DOMAIN q |-> q[f[i]]] :
        f \in {g \in [DOMAIN q -> DOMAIN q] : \A i \in DOMAIN q : \E j \in DOMAIN q : g[j] = i}}

\* The process dies and comes back with nothing in memory.  The messages on
\* their way to it were not acked; they come again when their AckWait is over,
\* in any order among those the stream delivers meanwhile.
Crash ==
    /\ crashes < MaxCrashes
    /\ crashes' = crashes + 1
    /\ queue' \in Reordered(queue)
    /\ open' = [a \in Agents |-> 0]
    /\ seen' = <<>>
    /\ phase' = [t \in Traces |-> IF phase[t] = "new" \/ phase[t] = "done"
                                  THEN phase[t] ELSE "dead"]
    /\ unlabelled' = [t \in Traces |-> {}]
    /\ NoCall
    /\ UNCHANGED <<opened, members, count, start, last, life, forgotten>>
    /\ UNCHANGED <<now, deliveries, storeVars, storeFailures, blip, shown, lost, swept>>

-----------------------------------------------------------------------------
Handler == Duplicate \/ HandleSpan \/ InsertSpan \/ UpsertSummary \/ Finish
Closer(t) == LabelSpan(t) \/ SaveTree(t) \/ CloseRow(t) \/ CloseEvent(t)

Next ==
    \/ Tick \/ Publish
    \/ Handler \/ InsertFails \/ UpsertFails
    \/ Sweep
    \/ \E t \in Traces : Closer(t)
    \/ Crash

Spec == Init /\ [][Next]_vars

\* Time passes, the consumer goes on, the sweep runs every two seconds and
\* goroutines are scheduled.  New messages, failures and crashes are not owed.
Fairness ==
    /\ WF_vars(Tick) /\ WF_vars(Handler) /\ WF_vars(Sweep)
    /\ \A t \in Traces : WF_vars(Closer(t))

FairSpec == Spec /\ Fairness

-----------------------------------------------------------------------------
(* Properties.                                                             *)

Statuses == {"none", "running", "closed"}
Phases == {"new", "open", "labels", "row", "event", "done", "dead"}

StreamType ==
    /\ now \in 0..MaxTime /\ deliveries \in 0..MaxDeliveries
    /\ queue \in Seq(Spans)
    /\ seen \in Seq(Spans) /\ Len(seen) <= SeenCap /\ forgotten \subseteq Spans
TraceType ==
    /\ open \in [Agents -> 0..opened] /\ opened \in 0..(MaxDeliveries + MaxCrashes)
    /\ members \in [Traces -> SUBSET Spans] /\ count \in [Traces -> Nat]
    /\ start \in [Traces -> Nat] /\ last \in [Traces -> Nat]
    /\ life \in [Traces -> 0..MaxCrashes]
    /\ phase \in [Traces -> Phases] /\ unlabelled \in [Traces -> SUBSET Spans]
    /\ swept \subseteq Traces /\ blip \subseteq Traces
HandlerType ==
    /\ pc \in {"idle", "insert", "upsert", "finish"}
    /\ pc # "idle" => span \in Spans /\ trace \in 1..opened /\ queue # <<>>
    /\ copy \in Nat /\ attempt \in 0..(Attempts - 1)
    /\ storeFailures \in 0..MaxStoreFailures /\ crashes \in 0..MaxCrashes
StoreType ==
    /\ row \in [Traces -> [status : Statuses, count : Nat]]
    /\ detailOf \in [Spans -> 0..opened] /\ labelOf \in [Spans -> 0..opened]
    /\ tree \subseteq Traces /\ shown \in [Traces -> Statuses]
    /\ lost \subseteq Spans

\* Every variable keeps to its type, no store call is tried more often than
\* retryStore allows, and the dedup memory keeps to its bound.
TypeOK == StreamType /\ TraceType /\ HandlerType /\ StoreType

Stored == {s \in Spans : detailOf[s] # 0}

\* A message the processor acks is durable: the payload of every span handled
\* is stored, or the span is counted as dropped after all tries, unless its
\* message is still unacked - across crashes, redeliveries and duplicates.
AckedIsDurable ==
    \A t \in 1..opened : members[t] \subseteq Stored \cup lost \cup Entries(queue)

\* Within one life of the process no duplicate is assembled twice: a span is
\* in one trace and adds one to its SpanCount, unless the bounded dedup had
\* forgotten it when its message came again.
AssembledOnce ==
    \A t, u \in 1..opened :
        /\ t # u /\ life[t] = life[u] => members[t] \cap members[u] \subseteq forgotten
        /\ members[t] \cap forgotten = {} => count[t] = Cardinality(members[t])

\* A row that says closed is complete: labels of every span of the trace, the
\* behavior tree and the final count are there before it, unless a store call
\* for that trace failed.  Readers load the detail page on the closed event.
ClosedIsComplete ==
    \A t \in Traces \ blip : row[t].status = "closed" \/ shown[t] = "closed" =>
        /\ \A s \in members[t] : labelOf[s] # 0
        /\ t \in tree
        /\ row[t].status # "none" /\ row[t].count = count[t]

\* Once a message is acked, the payload of its span, unless dropped or handled
\* again after the dedup forgot it, is stored under the trace of this life of
\* the process that counted it, or under one of another life: a crash between
\* the store and the ack makes two traces count what one of them shows.
DetailsUnderTheirTrace ==
    \A t \in 1..opened : \A s \in members[t] \ (lost \cup forgotten) :
        \/ s \in Entries(queue)
        \/ detailOf[s] = t
        \/ detailOf[s] # 0 /\ life[detailOf[s]] # life[t]

Reopens(t) == row[t].status = "closed" /\ row'[t].status = "running"

\* "summary flipped to closed": once a summary row is closed nothing makes it
\* running again.
ClosedStaysClosed == [][\A t \in Traces : ~Reopens(t)]_vars

\* What the code does keep: a trace closed by its terminal span, or because
\* the agent's next span came after the gap, stays closed; only the sweep can
\* close a trace whose handler has not written its running row yet.
OnlySweptReopen == [][\A t \in Traces : Reopens(t) => t \in swept]_vars

\* "activity keeps it open; a terminal output span or an idle gap closes it":
\* two spans of one agent with no terminal span among those handled, the later
\* of which starts within the idle gap of the earlier's end, end up in one
\* trace.
GapOnlySplits ==
    \A t, u \in 1..opened : \A s \in members[t], r \in members[u] :
        /\ AgentOf[s] = AgentOf[r]
        /\ StartOf[s] <= StartOf[r] /\ StartOf[r] - EndOf[s] <= IdleGap
        /\ (members[t] \cup members[u]) \cap Terminal = {}
        => t = u

\* A message opens at most one trace each time it is delivered.
WorkLeft == opened + Len(queue) <=
                deliveries + crashes + (IF pc = "idle" THEN 0 ELSE 1)

\* The handler works on the first unacked message, whose span is in a trace of
\* this life; no other span has joined since, so its copy of the summary is current.  It
\* writes a running row for no terminal span.
SpanInHand ==
    /\ pc # "idle" => /\ span = Head(queue)
                      /\ span \in members[trace] /\ life[trace] = crashes
                      /\ copy = count[trace]
    /\ pc = "upsert" => span \notin Terminal

\* Trace IDs not handed out yet.
FreshTraces ==
    \A t \in Traces : t > opened =>
        /\ members[t] = {} /\ count[t] = 0
        /\ phase[t] = "new" /\ row[t].status = "none"

\* The traces of this life, and those that are open.
LivingTraces ==
    /\ \A t \in Traces : /\ life[t] <= crashes
                         /\ life[t] = crashes =>
                              members[t] \subseteq Entries(seen) \cup forgotten
    /\ \A a \in Agents : open[a] # 0 =>
          /\ phase[open[a]] = "open"
          /\ life[open[a]] = crashes
          /\ \A b \in Agents : open[b] = open[a] => b = a

\* What the dedup remembers was assembled in this life.
SeenJoined ==
    \A s \in Entries(seen) : \E t \in 1..opened : s \in members[t] /\ life[t] = crashes

\* The handler still writes a running row only for an open trace or for one
\* the sweep closed, and a row is closed by the trace's goroutine alone.
ClosedRows ==
    /\ pc \in {"insert", "upsert"} /\ span \notin Terminal =>
          phase[trace] = "open" \/ trace \in swept
    /\ \A t \in Traces : row[t].status = "closed" => phase[t] \in {"event", "done", "dead"}

\* A detail row stands under a trace that has its span.
OwnRows ==
    /\ \A t \in Traces : unlabelled[t] \subseteq members[t]
    /\ \A s \in Spans : /\ detailOf[s] # 0 => s \in members[detailOf[s]]
                        /\ labelOf[s] # 0 => s \in members[labelOf[s]]

\* What holds of the memory of the process whatever becomes of the rows of its
\* traces: it ties the dedup memory, the traces and the place of the handler to
\* each other.
MemoryInv ==
    /\ TypeOK /\ WorkLeft /\ SpanInHand /\ FreshTraces /\ LivingTraces
    /\ SeenJoined /\ ClosedRows /\ OwnRows /\ AssembledOnce

\* The handler is past the insert only with the payload stored.
InsertedFirst == pc \in {"upsert", "finish"} => span \in Stored

\* Marking a span seen commits it: only the one in hand is not yet settled.
SeenSettled ==
    Entries(seen) \subseteq Stored \cup lost \cup (IF pc = "idle" THEN {} ELSE {span})

\* How far the goroutine of a trace has come, if no store call for it failed:
\* the labels of the spans it is through with, then the tree, then the row,
\* which a late upsert may make running again but with the same count.
ClosingTraces ==
    /\ \A t \in Traces : shown[t] = "closed" => phase[t] \in {"done", "dead"}
    /\ \A t \in Traces \ blip :
          /\ phase[t] = "labels" => \A s \in members[t] \ unlabelled[t] : labelOf[s] # 0
          /\ phase[t] \in {"row", "event"} =>
                /\ \A s \in members[t] : labelOf[s] # 0
                /\ t \in tree
          /\ phase[t] = "event" => row[t].status # "none" /\ row[t].count = count[t]

\* The inductive invariant behind AckedIsDurable, AssembledOnce,
\* ClosedIsComplete, DetailsUnderTheirTrace and OnlySweptReopen.
AssemblyInv ==
    /\ MemoryInv
    /\ InsertedFirst /\ SeenSettled /\ AckedIsDurable
    /\ ClosingTraces /\ ClosedIsComplete

\* Every trace that is opened gets its closed row, by a terminal span, a gap or
\* the sweep, whichever of the calls before that row fail: only the one try of
\* the row itself may, and then the goroutine is over, or the process crashed.
OpenedGetsClosed ==
    \A t \in Traces : phase[t] = "open" ~> \/ row[t].status = "closed"
                                           \/ phase[t] = "done" /\ t \in blip
                                           \/ phase[t] = "dead"
=============================================================================
