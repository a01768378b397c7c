------------------------------ MODULE LiveEdge ------------------------------
(***************************************************************************)
(* A dashboard page that keeps up with the trace_summary table: it loads   *)
(* snapshots over HTTP and applies the live events that the processor      *)
(* publishes, the hub of cmd/api fans out and a WebSocket carries.         *)
(*                                                                         *)
(* One page is modelled, of either kind: the home page, which holds every  *)
(* trace of its window (HomeClient.tsx), or the page of one trace          *)
(* (TraceDetailClient.tsx), which is connected only while it shows the     *)
(* trace running and loads it again when it hears that it closed.  Each    *)
(* callback of the page is one action.  The life of a row is a version     *)
(* number; how the processor may break that order is the matter of module  *)
(* Processor.  Other browsers do not matter: the hub never waits for one.  *)
(* Not represented: the window's bounds, pruning, the total tile, the span *)
(* events of the detail page, pings.                                       *)
(***************************************************************************)
EXTENDS Integers, Sequences, FiniteSets

CONSTANTS
    Traces,
    Watched,       \* the trace of a detail page
    Final,         \* versions of a row: running below Final, closed at Final
    ChannelCap,    \* capacity of a browser's channel in the hub (256)
    MaxLoads,      \* bound: HTTP loads of the page
    MaxFailures    \* bound: broken connections, failed loads, lost events

ASSUME TraceAssumption == IsFiniteSet(Traces) /\ Watched \in Traces
ASSUME BoundAssumption ==
    /\ Final \in Nat \ {0} /\ ChannelCap \in Nat \ {0}
    /\ MaxLoads \in Nat \ {0} /\ MaxFailures \in Nat

VARIABLES
    page,        \* "home" or "detail"
    row,         \* trace_summary: the version of each trace, 0 before the first
    due,         \* traces whose last write has not been published yet
    sock,        \* the page's WebSocket: none, connecting, open, waiting
    hadDrop,     \* of useLive: a connection was lost since the last open
    server,      \* the hub's end: none, upgraded, registered, gone
    chan,        \* events in the hub's channel for it
    wire,        \* frames on the connection
    shown,       \* the versions on the page, 0 for none
    loaded,      \* the version the detail page last loaded
    requests,    \* loads under way
    asked,       \* loads started
    down,        \* apiDown, and the error of the detail page
    failures,
    missed,      \* history: traces whose last event the page was not sent
    overtaken,   \* history: traces whose last version something older hid
    answered     \* history: the latest load whose result has arrived

hubVars == <<server, chan, wire>>
loadVars == <<requests, asked, down, answered>>
vars == <<page, row, due, sock, hadDrop, hubVars, shown, loaded, loadVars,
          failures, missed, overtaken>>

MaxOf(x, y) == IF x < y THEN y ELSE x
NoRows == [t \in Traces |-> 0]
Load(n) == [id |-> n, stage |-> "asked", rows |-> NoRows]

\* The page mounts: its first load is on the way.
Init ==
    /\ page \in {"home", "detail"}
    /\ row = NoRows /\ due = {}
    /\ sock = "none" /\ hadDrop = FALSE
    /\ server = "none" /\ chan = <<>> /\ wire = <<>>
    /\ shown = NoRows /\ loaded = 0
    /\ requests = {Load(1)} /\ asked = 1 /\ down = FALSE /\ answered = 0
    /\ failures = 0 /\ missed = {} /\ overtaken = {}

Fault == failures < MaxFailures /\ failures' = failures + 1

\* loadWindow or load: one more request, whatever others are under way.
Ask ==
    /\ asked < MaxLoads
    /\ asked' = asked + 1
    /\ requests' = requests \cup {Load(asked + 1)}
    /\ UNCHANGED <<down, answered>>

-----------------------------------------------------------------------------
(* The processor and the hub.                                              *)

\* A row is written, and its event published after that.
Write(t) ==
    /\ t \notin due /\ row[t] < Final
    /\ row' = [row EXCEPT ![t] = @ + 1]
    /\ due' = due \cup {t}
    /\ missed' = missed \ {t} /\ overtaken' = overtaken \ {t}
    /\ UNCHANGED <<page, sock, hadDrop, hubVars, shown, loaded, loadVars, failures>>

Event(t) == [trace |-> t, version |-> row[t]]

\* The page is going to read the store again: to catch up after a drop, or in
\* a load that has not read it yet, and no older reading can take its place.
Owed == \/ hadDrop \/ server = "gone"
        \/ /\ down \/ requests # {}
           /\ \A r \in requests : r.stage = "asked"

RoomForOneMore == Len(chan) <= ChannelCap
Room == Len(chan) < ChannelCap

\* broadcast: to a registered connection, unless its channel is full.
Publish(t) ==
    /\ t \in due
    /\ due' = due \ {t}
    /\ IF server = "registered" /\ Room
         THEN chan' = Append(chan, Event(t)) /\ UNCHANGED missed
         ELSE /\ UNCHANGED chan
              /\ missed' = IF Owed THEN missed ELSE missed \cup {t}
    /\ UNCHANGED <<page, row, sock, hadDrop, server, wire, shown, loaded>>
    /\ UNCHANGED <<loadVars, failures, overtaken>>

\* Core NATS has no subscriber just now, or the processor died after the write.
EventLost(t) ==
    /\ t \in due
    /\ due' = due \ {t}
    /\ missed' = IF Owed THEN missed ELSE missed \cup {t}
    /\ Fault
    /\ UNCHANGED <<page, row, sock, hadDrop, hubVars, shown, loaded, loadVars, overtaken>>

\* hub.serve: the upgrade answers the browser, registration comes after it.
Upgrade ==
    /\ sock = "connecting" /\ server = "none"
    /\ server' = "upgraded"
    /\ UNCHANGED <<page, row, due, sock, hadDrop, chan, wire, shown, loaded>>
    /\ UNCHANGED <<loadVars, failures, missed, overtaken>>

Register ==
    /\ server = "upgraded"
    /\ server' = "registered"
    /\ UNCHANGED <<page, row, due, sock, hadDrop, chan, wire, shown, loaded>>
    /\ UNCHANGED <<loadVars, failures, missed, overtaken>>

Pump ==
    /\ server = "registered" /\ chan # <<>>
    /\ wire' = Append(wire, Head(chan)) /\ chan' = Tail(chan)
    /\ UNCHANGED <<page, row, due, sock, hadDrop, server, shown, loaded>>
    /\ UNCHANGED <<loadVars, failures, missed, overtaken>>

\* The connection breaks, or the api process dies.  Frames on the wire may
\* still arrive before the browser notices.
Break ==
    /\ sock \in {"connecting", "open"} /\ server # "gone"
    /\ server' = "gone" /\ chan' = <<>>
    /\ Fault
    /\ UNCHANGED <<page, row, due, sock, hadDrop, wire, shown, loaded>>
    /\ UNCHANGED <<loadVars, missed, overtaken>>

-----------------------------------------------------------------------------
(* useLive.                                                                *)

Running == shown[Watched] \in 1..(Final - 1)
Enabled == page = "home" \/ Running

\* The effect runs, or the retry timer fires.
Connect ==
    /\ Enabled /\ sock \in {"none", "waiting"}
    /\ sock' = "connecting"
    /\ hadDrop' = (sock = "waiting" /\ hadDrop)
    /\ server' = "none" /\ chan' = <<>> /\ wire' = <<>>
    /\ UNCHANGED <<page, row, due, shown, loaded, loadVars, failures, missed, overtaken>>

\* The effect's cleanup once the page no longer shows the trace running.
Disconnect ==
    /\ ~Enabled /\ sock # "none"
    /\ sock' = "none" /\ hadDrop' = FALSE
    /\ server' = "none" /\ chan' = <<>> /\ wire' = <<>>
    /\ UNCHANGED <<page, row, due, shown, loaded, loadVars, failures, missed, overtaken>>

\* Only an open that follows a drop reloads.
CatchUpNever == FALSE
CatchUpDue == hadDrop

OnOpen ==
    /\ sock = "connecting" /\ server # "none"
    /\ sock' = "open" /\ hadDrop' = FALSE
    /\ IF CatchUpDue THEN Ask ELSE UNCHANGED loadVars
    /\ UNCHANGED <<page, row, due, hubVars, shown, loaded, failures, missed, overtaken>>

\* onclose, also of a connection that never opened.
OnClose ==
    /\ sock \in {"connecting", "open"} /\ server = "gone"
    /\ sock' = "waiting" /\ hadDrop' = TRUE
    /\ wire' = <<>>
    /\ UNCHANGED <<page, row, due, server, chan, shown, loaded, loadVars>>
    /\ UNCHANGED <<failures, missed, overtaken>>

-----------------------------------------------------------------------------
(* The page's state: events and snapshots.                                 *)

ReloadsNever(e) == FALSE
\* Closing may finalize the behavior tree.
ReloadsOn(e) == page = "detail" /\ e.version = Final

\* What arrives is older than the last version, which the page has.
Hides(t, v) == v < row[t] /\ shown[t] = row[t]

\* An event replaces the summary it is about, be it newer or older.  The detail
\* page ignores other traces, and every event before its first load.
Hears(e) == page = "home" \/ e.trace = Watched

OnMessage ==
    /\ sock = "open" /\ wire # <<>>
    /\ wire' = Tail(wire)
    /\ LET e == Head(wire)
       IN /\ shown' = IF page = "home" \/ (Hears(e) /\ shown[Watched] # 0)
                        THEN [shown EXCEPT ![e.trace] = e.version] ELSE shown
          /\ overtaken' = overtaken \cup {t \in {e.trace} : Hides(t, e.version)}
          /\ IF Hears(e) /\ ReloadsOn(e) THEN Ask ELSE UNCHANGED loadVars
    /\ UNCHANGED <<page, row, due, sock, hadDrop, server, chan, loaded>>
    /\ UNCHANGED <<failures, missed>>

\* QueryTraces or GetTrace reads the store.
Read(r) ==
    /\ r.stage = "asked"
    /\ requests' = (requests \ {r}) \cup {[r EXCEPT !.stage = "read", !.rows = row]}
    /\ UNCHANGED <<asked, down, answered>>
    /\ UNCHANGED <<page, row, due, sock, hadDrop, hubVars, shown, loaded>>
    /\ UNCHANGED <<failures, missed, overtaken>>

NotFound(r) == page = "detail" /\ r.rows[Watched] = 0

\* What a response hides: the last version of a trace, if the page has it, or
\* could have had it from a load that was asked later and has ended already.
Hidden(r) == {t \in Traces : \/ Hides(t, r.rows[t])
                             \/ r.id < answered /\ r.rows[t] < row[t]}

\* The response replaces all the page holds, and the banner goes.
LoadArrives(r) ==
    /\ r.stage = "read" /\ ~NotFound(r)
    /\ shown' = IF page = "home" THEN r.rows
                ELSE [shown EXCEPT ![Watched] = r.rows[Watched]]
    /\ loaded' = IF page = "detail" THEN r.rows[Watched] ELSE loaded
    /\ down' = FALSE
    /\ requests' = requests \ {r} /\ answered' = MaxOf(answered, r.id)
    /\ overtaken' = overtaken \cup Hidden(r)
    /\ UNCHANGED <<page, row, due, sock, hadDrop, hubVars, asked, failures, missed>>

\* An error leaves the page as it is, and starts the retries.
LoadFails(r) ==
    /\ IF r.stage = "read" /\ NotFound(r) THEN UNCHANGED failures ELSE Fault
    /\ down' = TRUE
    /\ requests' = requests \ {r} /\ answered' = MaxOf(answered, r.id)
    /\ UNCHANGED <<page, row, due, sock, hadDrop, hubVars, shown, loaded>>
    /\ UNCHANGED <<asked, missed, overtaken>>

\* The interval while the API is down; a new window on the home page.
Reload ==
    /\ down \/ page = "home"
    /\ Ask
    /\ UNCHANGED <<page, row, due, sock, hadDrop, hubVars, shown, loaded>>
    /\ UNCHANGED <<failures, missed, overtaken>>

-----------------------------------------------------------------------------
Next ==
    \/ \E t \in Traces : Write(t) \/ Publish(t) \/ EventLost(t)
    \/ Upgrade \/ Register \/ Pump \/ Break
    \/ Connect \/ Disconnect \/ OnOpen \/ OnClose \/ OnMessage
    \/ \E r \in requests : Read(r) \/ LoadArrives(r) \/ LoadFails(r)
    \/ Reload

Spec == Init /\ [][Next]_vars

-----------------------------------------------------------------------------
(* Properties.                                                             *)

Events == [trace : Traces, version : 1..Final]

\* Every variable keeps to its type, and a channel in the hub to its capacity.
TypeOK ==
    /\ page \in {"home", "detail"}
    /\ row \in [Traces -> 0..Final] /\ due \subseteq Traces
    /\ sock \in {"none", "connecting", "open", "waiting"} /\ hadDrop \in BOOLEAN
    /\ server \in {"none", "upgraded", "registered", "gone"}
    /\ chan \in Seq(Events) /\ Len(chan) <= ChannelCap /\ wire \in Seq(Events)
    /\ shown \in [Traces -> 0..Final] /\ loaded \in 0..Final
    /\ requests \subseteq [id : 1..asked, stage : {"asked", "read"},
                           rows : [Traces -> 0..Final]]
    /\ asked \in 1..MaxLoads /\ down \in BOOLEAN /\ answered \in 0..asked
    /\ failures \in 0..MaxFailures
    /\ missed \subseteq Traces /\ overtaken \subseteq Traces

\* Nothing is on its way to the page and the page waits for nothing.
Rest ==
    /\ due = {} /\ requests = {} /\ ~down
    /\ chan = <<>> /\ wire = <<>>
    /\ IF Enabled THEN sock = "open" /\ server = "registered" ELSE sock = "none"

Shows == IF page = "home" THEN Traces ELSE {Watched}

\* Where the last version of a trace can be while the page does not show it:
\* in an event under way, or in a load.  A load is stale for a trace if it read
\* the store before the last write, and a stale one that is asked first must
\* not be able to arrive last, unless the page hides the row with it.
Carried(t) == \/ \E i \in 1..Len(chan) : chan[i] = Event(t)
              \/ \E i \in 1..Len(wire) : wire[i] = Event(t)

Stale(r, t) == r.stage = "read" /\ r.rows[t] # row[t]
Coming(t) ==
    \/ down /\ \A r \in requests : Stale(r, t) => r.id < answered
    \/ \E f \in requests : /\ ~Stale(f, t)
                           /\ \A r \in requests : Stale(r, t) => r.id < f.id

CatchesUp == hadDrop \/ server = "gone"

Accounted(t) == \/ shown[t] = row[t]
                \/ t \in due \cup missed \cup overtaken
                \/ Carried(t) \/ Coming(t) \/ CatchesUp

\* Nothing runs ahead of the store.
NoneAhead ==
    /\ \A t \in Traces : shown[t] <= row[t]
    /\ \A t \in due : row[t] > 0
    /\ \A i \in 1..Len(chan) : chan[i].version <= row[chan[i].trace]
    /\ \A i \in 1..Len(wire) : wire[i].version <= row[wire[i].trace]
    /\ \A r \in requests, t \in Traces : r.rows[t] <= row[t]

\* What useLive knows of its connection.
LinkInv ==
    /\ sock = "none" => server = "none" /\ ~hadDrop /\ chan = <<>> /\ wire = <<>>
    /\ sock = "waiting" => hadDrop
    /\ sock = "open" => ~hadDrop
    /\ page = "detail" /\ sock # "none" => shown[Watched] > 0

\* A detail page that shows its trace closed has loaded it so or is about to.
ClosedIsFetched ==
    page = "detail" /\ shown[Watched] = Final /\ Watched \notin overtaken =>
        loaded = Final \/ down \/ requests # {}

\* At every moment, and not only at rest, the last version of each row the page
\* is about is on the page, on its way there by an event or by a load that
\* nothing stale can follow unnoticed, or named as missed or overtaken; with
\* the types and what the connection and the loads must keep for it, this is
\* the inductive invariant behind the two properties below.
EdgeInv ==
    /\ TypeOK /\ NoneAhead /\ LinkInv /\ ClosedIsFetched
    /\ \A t \in Shows : Accounted(t)

\* A page at rest shows the store, with three exceptions only: the last event
\* of a trace was not sent to it (its channel was full, the event was lost, or
\* the hub had not registered it yet) with no load to come, or a load answered
\* late or an older event hid it.  A broken connection is no exception, nor is a failed load.
StaleOnlyIfMissed ==
    Rest => \A t \in Shows : shown[t] = row[t] \/ t \in missed \cup overtaken

\* A detail page at rest that shows its trace closed has loaded it closed, with
\* its labels and its tree, unless a late response took that away again.
ClosedPageIsLoaded ==
    Rest /\ page = "detail" /\ shown[Watched] = Final =>
        loaded = Final \/ Watched \in overtaken

\* "dashboards refetch on reconnect": with no event lost on the way to the hub
\* and no failure, a page at rest shows the store.
RefetchSuffices == Rest => \A t \in Shows : shown[t] = row[t]
=============================================================================
