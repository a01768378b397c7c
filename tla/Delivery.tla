------------------------------ MODULE Delivery ------------------------------
(***************************************************************************)
(* The span hand-off of one capture proxy: the shipper of cmd/proxy with   *)
(* its resend buffer, the WebSocket connections it opens one after the     *)
(* other, the collector's per-connection ingest handlers, and the          *)
(* transport as far as Publish shows it.                                   *)
(*                                                                         *)
(* A span is known by the sequence number the shipper gives it.  Request   *)
(* goroutines are anonymous, so those between the connected check and the  *)
(* append are only counted.  The handler and the ack reader of a dead      *)
(* connection live on beside those of the next one.                        *)
(*                                                                         *)
(* Not represented: ctx cancellation (the process never cancels it), the   *)
(* notify channel (the 200 ms timer of the same select wakes the writer    *)
(* whether or not a token was lost) and the healthz counters other than    *)
(* dropped.                                                                *)
(***************************************************************************)
EXTENDS Integers, Sequences, FiniteSets

CONSTANTS
    Modes,               \* reattach: FALSE is the original-bug mode
    Cap,                 \* the resend buffer's hard cap (100000 in the code)
    Invalid,             \* sequence numbers whose span fails validate()
    MaxSpans,            \* bound: spans offered to the proxy
    MaxFaults,           \* bound: connection breaks and collector crashes
    MaxPublishFailures   \* bound: publishes that return an error

ASSUME ModesAssumption == Modes \subseteq BOOLEAN
ASSUME CapAssumption == Cap \in Nat \ {0}
ASSUME InvalidAssumption == Invalid \subseteq Nat
ASSUME BoundsAssumption == /\ MaxSpans \in Nat
                           /\ MaxFaults \in Nat
                           /\ MaxPublishFailures \in Nat

Conns == 1..(MaxFaults + 1)     \* every connection but the last one breaks

VARIABLES
    reattach,    \* AT_REATTACH, read once at the start
    offered,     \* spans the capture path finished
    entering,    \* enqueue calls past the connected check, before the lock
    seq,         \* last sequence number assigned
    pending,     \* the resend buffer: sequence numbers, oldest first
    dropped,     \* the "stranded" counter
    shipper,     \* where the run goroutine is
    conn,        \* its current connection, 0 before the first
    cursor,      \* highest sequence written on this connection
    batch,       \* snapshot being written: a part of pending, by position
    uncounted,   \* its n: spans taken out of the buffer, not yet in dropped
    link,        \* per connection: none, up, down
    wire,        \* per connection: envelopes written and not yet read
    handler,     \* per connection: where the collector's ingest loop is
    hand,        \* per connection: the envelope that loop holds
    acks,        \* per connection: acks written and not yet read
    readerDone,  \* per connection: the ack reader has returned
    up,          \* the collector process is running
    stored,      \* spans the transport has stored
    rejected,    \* spans validate() has turned down
    evicted,     \* history: spans the cap pushed out
    stranded,    \* history: spans thrown away with a dead connection
    failed,      \* history: spans for which Publish returned an error
    faults,      \* breaks and crashes so far
    failures     \* failed publishes so far

proxyVars == <<offered, entering, seq, pending, dropped, evicted, stranded>>
writerVars == <<shipper, conn, cursor, batch, uncounted>>
collectorVars == <<handler, hand, up, stored, rejected>>
netVars == <<link, wire, acks, readerDone>>
boundVars == <<reattach, faults, failures, failed>>
vars == <<proxyVars, writerVars, collectorVars, netVars, boundVars>>

Held == {pending[i] : i \in DOMAIN pending}
Settled == stored \cup rejected \cup evicted \cup stranded
NoBatch == [i \in {} |-> 0]
connected == shipper \in {"session", "hangup"}

Init ==
    /\ reattach \in Modes
    /\ offered = 0 /\ entering = 0 /\ seq = 0 /\ pending = <<>> /\ dropped = 0
    /\ shipper = "dial" /\ conn = 0 /\ cursor = 0 /\ batch = NoBatch
    /\ uncounted = 0
    /\ link = [c \in Conns |-> "none"]
    /\ wire = [c \in Conns |-> <<>>]
    /\ handler = [c \in Conns |-> "gone"]
    /\ hand = [c \in Conns |-> 0]
    /\ acks = [c \in Conns |-> <<>>]
    /\ readerDone = [c \in Conns |-> FALSE]
    /\ up = TRUE /\ stored = {} /\ rejected = {} /\ evicted = {} /\ stranded = {}
    /\ faults = 0 /\ failures = 0 /\ failed = {}

-----------------------------------------------------------------------------
(* The capture path: enqueue.                                              *)

\* enqueue, up to the lock: without reattachment a span that finds the proxy
\* disconnected is dropped.  The flag is read outside the lock.
Enter ==
    /\ offered < MaxSpans
    /\ offered' = offered + 1
    /\ IF ~reattach /\ ~connected
         THEN dropped' = dropped + 1 /\ UNCHANGED entering
         ELSE entering' = entering + 1 /\ UNCHANGED dropped
    /\ UNCHANGED <<seq, pending, evicted, stranded>>
    /\ UNCHANGED <<writerVars, collectorVars, netVars, boundVars>>

\* The buffer with the next number at its end.  Numbering outside the lock
\* let two requests append out of order.
EnqueuedUnordered == IF pending = <<>> THEN <<seq + 1>>
                     ELSE SubSeq(pending, 1, Len(pending) - 1)
                              \o <<seq + 1, pending[Len(pending)]>>
Enqueued == Append(pending, seq + 1)

\* The last Cap entries of buf, and those before them.
NewestOffByOne(buf) ==
    IF Len(buf) > Cap + 1 THEN SubSeq(buf, Len(buf) - Cap, Len(buf)) ELSE buf
Newest(buf) == IF Len(buf) > Cap THEN SubSeq(buf, Len(buf) - Cap + 1, Len(buf)) ELSE buf
Oldest(buf) == {buf[i] : i \in 1..(Len(buf) - Cap)}

\* enqueue under the lock: number the span, append it, cap the buffer.
Assign ==
    /\ entering > 0
    /\ entering' = entering - 1
    /\ seq' = seq + 1
    /\ pending' = Newest(Enqueued)
    /\ evicted' = evicted \cup Oldest(Enqueued)
    /\ UNCHANGED <<offered, dropped, stranded>>
    /\ UNCHANGED <<writerVars, collectorVars, netVars, boundVars>>

-----------------------------------------------------------------------------
(* The shipper's run goroutine and the ack reader of each session.         *)

\* A session starts with nothing written.
CursorKept == cursor
CursorAtStart == 0

Dial ==
    /\ shipper = "dial" /\ up
    /\ conn < MaxFaults + 1
    /\ conn' = conn + 1
    /\ shipper' = "session"
    /\ cursor' = CursorAtStart
    /\ batch' = NoBatch
    /\ link' = [link EXCEPT ![conn + 1] = "up"]
    /\ handler' = [handler EXCEPT ![conn + 1] = "reading"]
    /\ UNCHANGED <<uncounted, wire, acks, readerDone, hand, up, stored, rejected>>
    /\ UNCHANGED <<proxyVars, boundVars>>

\* Top of the session loop: everything pending this connection has not
\* carried yet.  Taking an empty batch and waiting again changes nothing.
UnwrittenSkipsOne == {i \in DOMAIN pending : pending[i] > cursor + 1}
Unwritten == {i \in DOMAIN pending : pending[i] > cursor}

Snapshot ==
    /\ shipper = "session"
    /\ batch = NoBatch
    /\ batch' = [i \in Unwritten |-> pending[i]]
    /\ UNCHANGED <<shipper, conn, cursor, uncounted>>
    /\ UNCHANGED <<proxyVars, collectorVars, netVars, boundVars>>

\* One WriteJSON that reports success: on a dead link the kernel may still
\* take the bytes, and they are lost.
Write ==
    /\ shipper = "session"
    /\ \E i \in DOMAIN batch :
          /\ \A j \in DOMAIN batch : i <= j
          /\ wire' = IF link[conn] = "up"
                       THEN [wire EXCEPT ![conn] = Append(@, batch[i])]
                       ELSE wire
          /\ cursor' = batch[i]
          /\ batch' = [j \in DOMAIN batch \ {i} |-> batch[j]]
    /\ UNCHANGED <<shipper, conn, uncounted, link, acks, readerDone>>
    /\ UNCHANGED <<proxyVars, collectorVars, boundVars>>

\* The session ends on a write error, or at the select once the read side died.
SocketDiedOnWriteOnly == batch # NoBatch /\ link[conn] = "down"
SocketDied == \/ batch # NoBatch /\ link[conn] = "down"
              \/ batch = NoBatch /\ readerDone[conn]

SessionEnds ==
    /\ shipper = "session"
    /\ SocketDied
    /\ shipper' = "hangup"
    /\ batch' = NoBatch
    /\ UNCHANGED <<conn, cursor, uncounted>>
    /\ UNCHANGED <<proxyVars, collectorVars, netVars, boundVars>>

\* connected.Store(false) and conn.Close(): the enqueue side sees the end
\* only now.
Hangup ==
    /\ shipper = "hangup"
    /\ shipper' = IF reattach THEN "dial" ELSE "strand"
    /\ UNCHANGED <<conn, cursor, batch, uncounted>>
    /\ UNCHANGED <<proxyVars, collectorVars, netVars, boundVars>>

\* Original-bug mode: the buffer goes with the connection, and is counted once
\* the lock is released.
StrandedUncounted == 0
StrandedCount == Len(pending)

Strand ==
    /\ shipper = "strand"
    /\ shipper' = "count"
    /\ uncounted' = StrandedCount
    /\ stranded' = stranded \cup Held
    /\ pending' = <<>>
    /\ UNCHANGED <<offered, entering, seq, dropped, evicted, conn, cursor, batch>>
    /\ UNCHANGED <<collectorVars, netVars, boundVars>>

CountStranded ==
    /\ shipper = "count"
    /\ shipper' = "dial"
    /\ dropped' = dropped + uncounted
    /\ uncounted' = 0
    /\ UNCHANGED <<offered, entering, seq, pending, evicted, stranded, conn, cursor, batch>>
    /\ UNCHANGED <<collectorVars, netVars, boundVars>>

\* The ack reader takes one ack and trims the prefix it covers; an ack that
\* arrived before the connection died is still read after it.
ReadAck(c) ==
    /\ acks[c] # <<>> /\ ~readerDone[c]
    /\ acks' = [acks EXCEPT ![c] = Tail(@)]
    /\ \E n \in 0..Len(pending) :
          /\ \A i \in 1..n : pending[i] <= Head(acks[c])
          /\ n < Len(pending) => pending[n + 1] > Head(acks[c])
          /\ pending' = SubSeq(pending, n + 1, Len(pending))
    /\ UNCHANGED <<offered, entering, seq, dropped, evicted, stranded>>
    /\ UNCHANGED <<link, wire, readerDone>>
    /\ UNCHANGED <<writerVars, collectorVars, boundVars>>

ReaderEnds(c) ==
    /\ link[c] = "down" /\ ~readerDone[c]
    /\ readerDone' = [readerDone EXCEPT ![c] = TRUE]
    /\ acks' = [acks EXCEPT ![c] = <<>>]
    /\ UNCHANGED <<link, wire>>
    /\ UNCHANGED <<proxyVars, writerVars, collectorVars, boundVars>>

-----------------------------------------------------------------------------
(* The collector's ingest loop, one per connection.                        *)

\* An ack written to a dead connection goes nowhere.
SendAck(c, n) ==
    acks' = IF link[c] = "up" THEN [acks EXCEPT ![c] = Append(@, n)] ELSE acks

Busy(c) == handler[c] \in {"publishing", "stored"}     \* inside Publish

\* ReadJSON and validate: an invalid span is counted and acked at once.
Receive(c) ==
    /\ handler[c] = "reading" /\ wire[c] # <<>>
    /\ wire' = [wire EXCEPT ![c] = Tail(@)]
    /\ LET n == Head(wire[c])
       IN IF n \in Invalid
            THEN /\ rejected' = rejected \cup {n}
                 /\ SendAck(c, n)
                 /\ UNCHANGED <<handler, hand>>
            ELSE /\ handler' = [handler EXCEPT ![c] = "publishing"]
                 /\ hand' = [hand EXCEPT ![c] = n]
                 /\ UNCHANGED <<rejected, acks>>
    /\ UNCHANGED <<up, stored, link, readerDone>>
    /\ UNCHANGED <<proxyVars, writerVars, boundVars>>

\* The transport stores the span; its reply is still on the way.
TransportStores(c) ==
    /\ handler[c] = "publishing"
    /\ handler' = [handler EXCEPT ![c] = "stored"]
    /\ stored' = stored \cup {hand[c]}
    /\ UNCHANGED <<hand, up, rejected>>
    /\ UNCHANGED <<proxyVars, writerVars, netVars, boundVars>>

\* Publish returned nil: ack, and read on.
PublishedOnReceipt(c) == Busy(c)
Published(c) == handler[c] = "stored"

Accept(c) ==
    /\ Published(c)
    /\ handler' = [handler EXCEPT ![c] = "reading"]
    /\ SendAck(c, hand[c])
    /\ UNCHANGED <<hand, up, stored, rejected, link, wire, readerDone>>
    /\ UNCHANGED <<proxyVars, writerVars, boundVars>>

\* Publish returned an error, the span stored or not (the ten seconds can run
\* out after the store): no ack, and the loop reads on.
PublishFails(c) ==
    /\ Busy(c)
    /\ failures < MaxPublishFailures
    /\ failures' = failures + 1
    /\ failed' = failed \cup {hand[c]}
    /\ handler' = [handler EXCEPT ![c] = "reading"]
    /\ UNCHANGED <<hand, up, stored, rejected, reattach, faults>>
    /\ UNCHANGED <<proxyVars, writerVars, netVars>>

\* A read or an ack write fails: the handler returns, the rest is never read.
HandlerEnds(c) ==
    /\ link[c] = "down" /\ handler[c] \in {"reading", "stored"}
    /\ handler' = [handler EXCEPT ![c] = "gone"]
    /\ wire' = [wire EXCEPT ![c] = <<>>]
    /\ UNCHANGED <<hand, up, stored, rejected, link, acks, readerDone>>
    /\ UNCHANGED <<proxyVars, writerVars, boundVars>>

-----------------------------------------------------------------------------
(* Faults.                                                                 *)

Cut == [c \in Conns |-> IF link[c] = "up" THEN "down" ELSE link[c]]

Break ==
    /\ faults < MaxFaults
    /\ \E c \in Conns : link[c] = "up"
    /\ faults' = faults + 1
    /\ link' = Cut
    /\ UNCHANGED <<wire, acks, readerDone, reattach, failures, failed>>
    /\ UNCHANGED <<proxyVars, writerVars, collectorVars>>

\* The collector dies with everything it had read or was still to read.
Crash ==
    /\ up /\ faults < MaxFaults
    /\ faults' = faults + 1
    /\ up' = FALSE
    /\ link' = Cut
    /\ handler' = [c \in Conns |-> "gone"]
    /\ wire' = [c \in Conns |-> <<>>]
    /\ UNCHANGED <<hand, stored, rejected, acks, readerDone>>
    /\ UNCHANGED <<reattach, failures, failed>>
    /\ UNCHANGED <<proxyVars, writerVars>>

Restart ==
    /\ ~up
    /\ up' = TRUE
    /\ UNCHANGED <<handler, hand, stored, rejected>>
    /\ UNCHANGED <<proxyVars, writerVars, netVars, boundVars>>

-----------------------------------------------------------------------------
HandlerStep(c) == Receive(c) \/ TransportStores(c) \/ Accept(c) \/ HandlerEnds(c)
ReaderStep(c) == ReadAck(c) \/ ReaderEnds(c)

Next ==
    \/ Enter \/ Assign
    \/ Dial \/ Snapshot \/ Write \/ SessionEnds \/ Hangup \/ Strand \/ CountStranded
    \/ \E c \in Conns : HandlerStep(c) \/ ReaderStep(c) \/ PublishFails(c)
    \/ Break \/ Crash \/ Restart

Spec == Init /\ [][Next]_vars

\* Goroutines that can run do run, and a crashed collector is restarted.
\* Faults and publish failures are never owed, and neither are new spans.
\* A reader facing a dead link returns: the dialer leaves TCP keepalive on.
Fairness ==
    /\ WF_vars(Assign)
    /\ WF_vars(Dial) /\ WF_vars(Snapshot) /\ WF_vars(Write)
    /\ WF_vars(SessionEnds) /\ WF_vars(Hangup)
    /\ WF_vars(Strand) /\ WF_vars(CountStranded)
    /\ \A c \in Conns : WF_vars(HandlerStep(c)) /\ WF_vars(ReaderStep(c))
    /\ WF_vars(Restart)

FairSpec == Spec /\ Fairness

-----------------------------------------------------------------------------
(* Properties.                                                             *)

Increasing(s) == \A i, j \in DOMAIN s : i < j => s[i] < s[j]

ProxyType ==
    /\ offered \in 0..MaxSpans /\ entering \in Nat /\ seq \in Nat
    /\ entering + seq <= offered
    /\ pending \in Seq(1..seq) /\ Len(pending) <= Cap
    /\ dropped \in Nat
    /\ evicted \subseteq 1..seq /\ stranded \subseteq 1..seq
WriterType ==
    /\ shipper \in {"dial", "session", "hangup", "strand", "count"}
    /\ conn \in 0..(MaxFaults + 1) /\ cursor \in 0..seq
    /\ shipper # "dial" => conn # 0
    /\ DOMAIN batch \subseteq Nat \ {0}
    /\ \A i \in DOMAIN batch : batch[i] \in 1..seq
    /\ uncounted \in Nat /\ (shipper # "count" => uncounted = 0)
NetType ==
    /\ link \in [Conns -> {"none", "up", "down"}]
    /\ wire \in [Conns -> Seq(1..seq)]
    /\ acks \in [Conns -> Seq(1..seq)]
    /\ readerDone \in [Conns -> BOOLEAN]
CollectorType ==
    /\ handler \in [Conns -> {"reading", "publishing", "stored", "gone"}]
    /\ hand \in [Conns -> 0..seq]
    /\ \A c \in Conns : Busy(c) => hand[c] # 0
    /\ up \in BOOLEAN
    /\ stored \subseteq 1..seq /\ rejected \subseteq 1..seq
BoundType ==
    /\ reattach \in Modes
    /\ faults \in 0..MaxFaults
    /\ failures \in 0..MaxPublishFailures /\ failed \subseteq 1..seq

\* Every variable keeps to its type, the buffer to its cap, and a handler that
\* publishes has a span in hand.
TypeOK == ProxyType /\ WriterType /\ NetType /\ CollectorType /\ BoundType

\* Every numbered span is still in the resend buffer, unless the transport
\* stored it, validate() turned it down, the cap pushed it out or the
\* original-bug mode stranded it: no ack trims a span that got nowhere, not
\* even one whose publish failed ("the proxy keeps it and resends").
NoSilentLoss == 1..seq \subseteq Held \cup Settled

\* Settled, or turned away by the transport at least once.
Excused == Settled \cup failed

\* What the code does keep: only a span for which Publish itself returned an
\* error can leave the buffer without having been settled.
OnlyFailedPublishLoses == 1..seq \subseteq Held \cup Excused

\* A cumulative ack on its way to the proxy (or still to be sent for the span
\* just stored) covers spans that are settled or whose publish failed, also
\* when the connection it comes from has been replaced by another.
AckCoversSettled ==
    \A c \in Conns :
        /\ \A i \in DOMAIN acks[c] : 1..acks[c][i] \subseteq Excused
        /\ handler[c] = "stored" => 1..hand[c] \subseteq Excused

\* A connection carries numbers in increasing order, none twice: the collector
\* sees a span again only on another connection.  This is what assigning the
\* number and appending under one lock buys.
CarriedInOrder ==
    \A c \in Conns :
        /\ Increasing(wire[c])
        /\ \A i \in DOMAIN wire[c] : hand[c] < wire[c][i]

\* Span n is in the handler's hands, or on the wire, of connection c.
InFlight(c, n) == \/ Busy(c) /\ n = hand[c]
                  \/ \E i \in DOMAIN wire[c] : wire[c][i] = n
Covered(c, n) == n \in Excused \/ InFlight(c, n)

\* Nothing was skipped before a span the collector holds or will read.
StreamClosed ==
    \A c \in Conns :
        /\ \A i \in DOMAIN wire[c] : \A n \in 1..(wire[c][i] - 1) : Covered(c, n)
        /\ Busy(c) => 1..(hand[c] - 1) \subseteq Excused

\* Everything up to the cursor was carried by a connection that still works.
CursorClosed ==
    shipper = "session" =>
        /\ hand[conn] <= cursor
        /\ \A i \in DOMAIN wire[conn] : wire[conn][i] <= cursor
        /\ link[conn] = "up" => \A n \in 1..cursor : Covered(conn, n)

\* The batch goes on from the cursor, in order, and skips settled spans only.
BatchClosed ==
    shipper = "session" =>
        /\ \A i, j \in DOMAIN batch : i < j => batch[i] < batch[j]
        /\ \A i \in DOMAIN batch :
              /\ batch[i] > cursor
              /\ \A n \in (cursor + 1)..(batch[i] - 1) :
                    n \in Excused \/ \E j \in DOMAIN batch : batch[j] = n

\* Connections not dialled yet.
FreshConns ==
    \A c \in Conns : c > conn =>
        wire[c] = <<>> /\ acks[c] = <<>> /\ hand[c] = 0 /\ handler[c] = "gone"

\* The inductive invariant behind OnlyFailedPublishLoses.
HandOffInv ==
    /\ TypeOK
    /\ Increasing(pending)
    /\ OnlyFailedPublishLoses
    /\ AckCoversSettled
    /\ CarriedInOrder
    /\ StreamClosed
    /\ CursorClosed
    /\ BatchClosed
    /\ FreshConns

\* Every finished request is still to be numbered, numbered or counted, and the
\* counter has what was numbered before it was stranded as well, or gets it when
\* the run goroutine goes on.
StrandCounted == offered - entering - seq + Cardinality(stranded) <= dropped + uncounted

\* The stranded counter misses no loss but those of the cap: spans of finished
\* requests that are neither held nor stored nor rejected are at most those
\* counted, those the run goroutine has stranded and counts next, and those whose
\* publish failed, whatever the race between the unlocked connected check and
\* the stranding.
LossIsCounted ==
    (offered - entering) - Cardinality(Held \cup stored \cup rejected \cup failed)
        <= dropped + uncounted + Cardinality(evicted)

\* What the proxy holds it gets rid of: after the last fault every held span
\* is sent (again), stored and acked, and leaves the buffer.
HeldIsReleased ==
    \A n \in 1..MaxSpans : n \in Held ~> n \notin Held

\* As long as no publish fails the hand-off keeps the promise of AtLeastOnce.
ALO == INSTANCE AtLeastOnce WITH
           Spans <- 1..MaxSpans,
           Refusable <- Invalid,
           taken <- 1..seq,
           held <- Held,
           refused <- rejected,
           writtenOff <- evicted \cup stranded

Promise == ALO!Spec
=============================================================================
