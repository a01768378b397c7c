-------------------------- MODULE ProcessorProofs --------------------------
(***************************************************************************)
(* Proofs about Processor, for any agents and spans, any times and limits, *)
(* and any number of messages, failing store calls and crashes.            *)
(***************************************************************************)
EXTENDS Processor, SequenceTheorems, FiniteSetTheorems, TLAPS

USE SpanAssumption, LimitAssumption

-----------------------------------------------------------------------------
(* Facts about the stream, the dedup memory and the details table.         *)

\* A message at the end of the stream adds its span.
LEMMA AppendEntries ==
    ASSUME NEW q \in Seq(Spans), NEW s \in Spans
    PROVE  /\ Append(q, s) \in Seq(Spans)
           /\ Len(Append(q, s)) = Len(q) + 1
           /\ Append(q, s) # <<>>
           /\ Entries(Append(q, s)) = Entries(q) \cup {s}
           /\ q # <<>> => Head(Append(q, s)) = Head(q)
<1>1. /\ Append(q, s) \in Seq(Spans) /\ Len(Append(q, s)) = Len(q) + 1
      /\ \A i \in 1..Len(q) : Append(q, s)[i] = q[i]
      /\ Append(q, s)[Len(q) + 1] = s
  BY AppendProperties
<1>2. DOMAIN q = 1..Len(q) /\ DOMAIN Append(q, s) = 1..(Len(q) + 1) /\ Len(q) \in Nat
  BY <1>1, LenProperties
<1>3. Entries(Append(q, s)) = Entries(q) \cup {s}
  BY <1>1, <1>2 DEF Entries
<1>4. Append(q, s) # <<>>
  BY <1>1, <1>2
<1>5. q # <<>> => Head(Append(q, s)) = Head(q)
  <2>1. q # <<>> => Len(q) >= 1
    BY <1>2, EmptySeq
  <2> QED
    BY <2>1, <1>1, <1>2
<1> QED
  BY <1>1, <1>3, <1>4, <1>5

\* Messages that come again in another order are the same messages.
LEMMA ReorderedSame ==
    ASSUME NEW q \in Seq(Spans), NEW r \in Reordered(q)
    PROVE  r \in Seq(Spans) /\ Len(r) = Len(q) /\ Entries(r) = Entries(q)
<1>1. PICK f \in [DOMAIN q -> DOMAIN q] :
         /\ \A i \in DOMAIN q : \E j \in DOMAIN q : f[j] = i
         /\ r = [i \in DOMAIN q |-> q[f[i]]]
  BY DEF Reordered
<1>2. /\ DOMAIN q = 1..Len(q) /\ Len(q) \in Nat
      /\ \A i \in DOMAIN q : q[i] \in Spans
  BY LenProperties, ElementOfSeq
<1>3. DOMAIN r = 1..Len(q) /\ \A i \in 1..Len(q) : r[i] = q[f[i]] /\ r[i] \in Spans
  BY <1>1, <1>2
<1>4. r \in Seq(Spans) /\ Len(r) = Len(q)
  <2>1. r \in [1..Len(q) -> Spans]
    BY <1>1, <1>2
  <2>2. r \in Seq(Spans)
    <3>1. Seq(Spans) = UNION {[1..n -> Spans] : n \in Nat}
      BY SeqDef
    <3> QED
      BY Zenon, <1>2, <2>1, <3>1
  <2> QED
    BY <1>2, <1>3, <2>2, LenProperties
<1>5. Entries(r) = Entries(q)
  BY <1>1, <1>2, <1>3 DEF Entries
<1> QED
  BY <1>4, <1>5

\* Acking the first message takes at most its span away.
LEMMA TailEntries ==
    ASSUME NEW q \in Seq(Spans), q # <<>>
    PROVE  /\ Tail(q) \in Seq(Spans)
           /\ Len(Tail(q)) = Len(q) - 1 /\ Len(q) \in Nat
           /\ Head(q) \in Entries(q) /\ Head(q) \in Spans
           /\ Entries(q) = Entries(Tail(q)) \cup {Head(q)}
<1>1. /\ Tail(q) \in Seq(Spans) /\ Len(Tail(q)) = Len(q) - 1 /\ Len(q) \in Nat
      /\ Len(q) >= 1
      /\ \A i \in 1..Len(Tail(q)) : Tail(q)[i] = q[i + 1]
      /\ Head(q) = q[1] /\ Head(q) \in Spans
  BY HeadTailProperties, LenProperties, EmptySeq
<1>2. DOMAIN q = 1..Len(q) /\ DOMAIN Tail(q) = 1..(Len(q) - 1)
  BY <1>1, LenProperties
<1>3. Entries(q) \subseteq Entries(Tail(q)) \cup {Head(q)}
  <2> SUFFICES ASSUME NEW i \in 1..Len(q) PROVE q[i] \in Entries(Tail(q)) \cup {Head(q)}
    BY <1>2 DEF Entries
  <2>1. CASE i = 1
    BY <1>1, <2>1
  <2>2. CASE i > 1
    <3>1. i - 1 \in DOMAIN Tail(q) /\ Tail(q)[i - 1] = q[i]
      BY <1>1, <1>2, <2>2
    <3> QED
      BY <3>1 DEF Entries
  <2> QED
    BY <2>1, <2>2
<1>4. Entries(Tail(q)) \cup {Head(q)} \subseteq Entries(q)
  BY <1>1, <1>2, SMTT(20) DEF Entries
<1> QED
  BY <1>1, <1>3, <1>4

\* The dedup memory keeps its bound, takes the new ID in and puts what it
\* drops among the forgotten.
LEMMA RememberedFacts ==
    ASSUME NEW s \in Spans, seen \in Seq(Spans), Len(seen) <= SeenCap
    PROVE  /\ Remembered(s) \in Seq(Spans) /\ Len(Remembered(s)) <= SeenCap
           /\ Forgotten \subseteq Spans
           /\ Entries(Remembered(s)) \subseteq Entries(seen) \cup {s}
           /\ Entries(seen) \cup {s} \subseteq Entries(Remembered(s)) \cup Forgotten
<1>1. CASE Len(seen) < SeenCap
  BY <1>1, AppendEntries, LenProperties DEF Remembered, Forgotten
<1>2. CASE ~(Len(seen) < SeenCap)
  <2>1. seen # <<>> /\ Len(seen) = SeenCap /\ Len(seen) \in Nat
    BY <1>2, LenProperties, EmptySeq
  <2>2. /\ Tail(seen) \in Seq(Spans) /\ Len(Tail(seen)) = Len(seen) - 1
        /\ Head(seen) \in Spans
        /\ Entries(seen) = Entries(Tail(seen)) \cup {Head(seen)}
    BY <2>1, TailEntries
  <2>3. /\ Append(Tail(seen), s) \in Seq(Spans)
        /\ Len(Append(Tail(seen), s)) = Len(Tail(seen)) + 1
        /\ Entries(Append(Tail(seen), s)) = Entries(Tail(seen)) \cup {s}
    BY <2>2, AppendEntries
  <2> QED
    BY <1>2, <2>1, <2>2, <2>3 DEF Remembered, Forgotten
<1> QED
  BY <1>1, <1>2

\* Inserting the details of the span in hand stores that span and no other.
LEMMA StoreDetailsFacts ==
    ASSUME TypeOK, pc # "idle", StoreDetails
    PROVE  /\ detailOf' \in [Spans -> 0..opened] /\ labelOf' \in [Spans -> 0..opened]
           /\ Stored' = Stored \cup {span}
<1>1. /\ span \in Spans /\ trace \in 1..opened /\ opened \in Nat
      /\ detailOf \in [Spans -> 0..opened] /\ labelOf \in [Spans -> 0..opened]
  BY DEF TypeOK, HandlerType, StoreType, TraceType
<1>2. detailOf' = [detailOf EXCEPT ![span] = Owner(@, trace)]
  BY DEF StoreDetails
<1>3. Owner(detailOf[span], trace) \in 1..opened /\ Owner(labelOf[span], trace) \in 1..opened
  BY <1>1 DEF Owner
<1>4. detailOf' \in [Spans -> 0..opened]
  BY <1>1, <1>2, <1>3
<1>5. labelOf' = [labelOf EXCEPT ![span] = Owner(@, trace)] \/ labelOf' = labelOf
  BY DEF StoreDetails
<1>6. labelOf' \in [Spans -> 0..opened]
  BY <1>1, <1>3, <1>5
<1>7. Stored' = Stored \cup {span}
  BY <1>1, <1>2, <1>3 DEF Stored
<1> QED
  BY <1>4, <1>6, <1>7

\* They go under the trace the span is in.
LEMMA OwnedDetails ==
    ASSUME TypeOK, OwnRows, SpanInHand, pc # "idle",
           StoreDetails \/ UNCHANGED <<detailOf, labelOf>>,
           UNCHANGED <<members, unlabelled>>
    PROVE  OwnRows'
<1>1. /\ span \in Spans /\ trace \in 1..opened /\ span \in members[trace]
      /\ detailOf \in [Spans -> 0..opened] /\ labelOf \in [Spans -> 0..opened]
  BY DEF TypeOK, HandlerType, StoreType, SpanInHand
<1>2. \A s \in Spans : /\ detailOf'[s] = detailOf[s] \/ (s = span /\ detailOf'[s] = trace)
                       /\ labelOf'[s] = labelOf[s] \/ (s = span /\ labelOf'[s] = trace)
  <2>1. CASE StoreDetails
    <3>1. detailOf' = [detailOf EXCEPT ![span] = Owner(@, trace)]
      BY <2>1 DEF StoreDetails
    <3>2. labelOf' = [labelOf EXCEPT ![span] = Owner(@, trace)] \/ labelOf' = labelOf
      BY <2>1 DEF StoreDetails
    <3> QED
      BY <1>1, <3>1, <3>2 DEF Owner
  <2>2. CASE UNCHANGED <<detailOf, labelOf>>
    BY <2>2
  <2> QED
    BY <2>1, <2>2
<1> QED
  BY <1>1, <1>2 DEF OwnRows

-----------------------------------------------------------------------------
(* What the process remembers, action by action.                           *)

\* The initial states satisfy the invariant.
LEMMA MemoryInit == Init => MemoryInv
<1> SUFFICES ASSUME Init PROVE MemoryInv
  OBVIOUS
<1>1. <<>> \in Seq(Spans) /\ Len(<<>>) = 0 /\ Entries(<<>>) = {}
  BY EmptySeq DEF Entries
<1>2. TypeOK
  BY <1>1 DEF Init, TypeOK, StreamType, TraceType, HandlerType, StoreType, NoRow,
              Statuses, Phases
<1>3. WorkLeft /\ SpanInHand /\ SeenJoined /\ OwnRows
  BY <1>1 DEF Init, WorkLeft, SpanInHand, SeenJoined, OwnRows
<1>4. FreshTraces /\ LivingTraces /\ ClosedRows
  BY DEF Init, FreshTraces, LivingTraces, ClosedRows, NoRow
<1>5. AssembledOnce
  BY DEF Init, AssembledOnce
<1> QED
  BY <1>2, <1>3, <1>4, <1>5 DEF MemoryInv

\* Time changes nothing but the clock.
LEMMA TickStep ==
    ASSUME MemoryInv, Tick
    PROVE  MemoryInv'
<1>1. TypeOK'
  BY SMTT(20) DEF MemoryInv, Tick, TypeOK, StreamType, TraceType, HandlerType, StoreType,
         traceVars, closeVars, handlerVars, storeVars, faultVars, dedupVars
<1>2. /\ WorkLeft' /\ SpanInHand' /\ FreshTraces' /\ LivingTraces'
      /\ ClosedRows' /\ AssembledOnce' /\ SeenJoined' /\ OwnRows'
  BY DEF MemoryInv, Tick, traceVars, closeVars, handlerVars, storeVars, faultVars,
         dedupVars, WorkLeft, SpanInHand, FreshTraces, LivingTraces,
         ClosedRows, AssembledOnce, SeenJoined, OwnRows, Entries
<1> QED
  BY <1>1, <1>2 DEF MemoryInv

\* A message more on the stream is room for a trace more.
LEMMA PublishStep ==
    ASSUME MemoryInv, Publish
    PROVE  MemoryInv'
<1>1. PICK s \in Spans : queue' = Append(queue, s)
  BY DEF Publish
<1>2. /\ queue \in Seq(Spans) /\ deliveries \in Nat /\ opened \in Nat /\ crashes \in Nat
      /\ deliveries' = deliveries + 1 /\ deliveries' \in 0..MaxDeliveries
  BY DEF MemoryInv, TypeOK, StreamType, TraceType, HandlerType, Publish
<1>3. /\ queue' \in Seq(Spans) /\ Len(queue') = Len(queue) + 1 /\ queue' # <<>>
      /\ Entries(queue') = Entries(queue) \cup {s}
      /\ queue # <<>> => Head(queue') = Head(queue)
      /\ Len(queue) \in Nat
  BY <1>1, <1>2, AppendEntries, LenProperties
<1>4. /\ UNCHANGED <<now, traceVars, closeVars, handlerVars, storeVars, faultVars,
                     dedupVars, shown, lost, swept>>
  BY DEF Publish
<1>5. TypeOK'
  BY <1>2, <1>3, <1>4
     DEF MemoryInv, TypeOK, StreamType, TraceType, HandlerType, StoreType,
         traceVars, closeVars, handlerVars, storeVars, faultVars, dedupVars
<1>6. WorkLeft'
  BY <1>2, <1>3, <1>4
     DEF MemoryInv, WorkLeft, traceVars, handlerVars, faultVars
<1>7. SpanInHand'
  BY <1>3, <1>4
     DEF MemoryInv, TypeOK, HandlerType, SpanInHand, handlerVars, traceVars, faultVars
<1>8. /\ FreshTraces' /\ LivingTraces' /\ ClosedRows' /\ AssembledOnce'
      /\ SeenJoined' /\ OwnRows'
  <2>1. FreshTraces' /\ LivingTraces' /\ ClosedRows' /\ OwnRows'
    BY <1>4 DEF MemoryInv, FreshTraces, LivingTraces, ClosedRows, OwnRows, Entries,
           traceVars, closeVars, handlerVars, storeVars, faultVars, dedupVars
  <2>2. AssembledOnce' /\ SeenJoined'
    BY <1>4 DEF MemoryInv, AssembledOnce, SeenJoined, Entries,
           traceVars, faultVars, dedupVars
  <2> QED
    BY <2>1, <2>2
<1> QED
  BY <1>5, <1>6, <1>7, <1>8 DEF MemoryInv

\* A message whose span is in the dedup memory is only acked.
LEMMA DuplicateStep ==
    ASSUME MemoryInv, Duplicate
    PROVE  MemoryInv'
<1>1. /\ queue \in Seq(Spans) /\ queue # <<>> /\ queue' = Tail(queue) /\ pc = "idle"
      /\ Head(queue) \in Entries(seen)
      /\ deliveries \in Nat /\ opened \in Nat /\ crashes \in Nat
  BY DEF MemoryInv, TypeOK, StreamType, TraceType, HandlerType, Duplicate
<1>2. /\ queue' \in Seq(Spans) /\ Len(queue') = Len(queue) - 1 /\ Len(queue) \in Nat
      /\ Entries(queue) = Entries(queue') \cup {Head(queue)}
  BY <1>1, TailEntries
<1>3. UNCHANGED <<now, deliveries, traceVars, closeVars, handlerVars, storeVars,
                  faultVars, dedupVars, shown, lost, swept>>
  BY DEF Duplicate
<1>4. TypeOK'
  BY <1>1, <1>2, <1>3
     DEF MemoryInv, TypeOK, StreamType, TraceType, HandlerType, StoreType,
         traceVars, closeVars, handlerVars, storeVars, faultVars, dedupVars
<1>5. WorkLeft'
  BY <1>1, <1>2, <1>3 DEF MemoryInv, WorkLeft, traceVars, handlerVars, faultVars
<1>6. SpanInHand'
  BY <1>1, <1>3 DEF MemoryInv, SpanInHand, handlerVars
<1>7. /\ FreshTraces' /\ LivingTraces' /\ ClosedRows' /\ AssembledOnce'
      /\ SeenJoined' /\ OwnRows'
  BY <1>3 DEF MemoryInv, traceVars, closeVars, handlerVars, storeVars, faultVars,
         dedupVars, FreshTraces, LivingTraces, ClosedRows,
         AssembledOnce, SeenJoined, OwnRows, Entries
<1> QED
  BY <1>4, <1>5, <1>6, <1>7 DEF MemoryInv

\* What the handler's later steps leave alone: traces, their rows and the
\* dedup memory.
LEMMA AssemblyFrame ==
    ASSUME MemoryInv,
           UNCHANGED <<now, deliveries, traceVars, closeVars, dedupVars, swept, crashes>>
    PROVE  /\ AssembledOnce' /\ LivingTraces' /\ SeenJoined'
           /\ UNCHANGED row => FreshTraces'
           /\ UNCHANGED <<detailOf, labelOf>> => OwnRows'
<1> QED
  BY DEF MemoryInv, traceVars, closeVars, dedupVars, AssembledOnce, LivingTraces,
         SeenJoined, FreshTraces, OwnRows, Entries

\* The handler works on a trace that was handed out.
LEMMA HandlerFacts ==
    ASSUME MemoryInv, pc # "idle"
    PROVE  /\ span \in Spans /\ trace \in 1..opened /\ trace \in Traces
           /\ queue \in Seq(Spans) /\ queue # <<>> /\ span = Head(queue)
           /\ span \in members[trace] /\ life[trace] = crashes /\ copy = count[trace]
           /\ Tail(queue) \in Seq(Spans) /\ Len(Tail(queue)) = Len(queue) - 1
           /\ Len(queue) \in Nat
           /\ Entries(queue) = Entries(Tail(queue)) \cup {span}
           /\ opened \in Nat /\ deliveries \in Nat /\ crashes \in Nat /\ attempt \in Nat
<1>1. /\ span \in Spans /\ trace \in 1..opened /\ opened \in 0..(MaxDeliveries + MaxCrashes)
      /\ queue \in Seq(Spans) /\ queue # <<>> /\ span = Head(queue)
      /\ span \in members[trace] /\ life[trace] = crashes /\ copy = count[trace]
      /\ deliveries \in Nat /\ crashes \in Nat /\ attempt \in Nat
  BY DEF MemoryInv, TypeOK, HandlerType, TraceType, StreamType, SpanInHand
<1>2. trace \in Traces
  BY <1>1 DEF Traces
<1> QED
  BY <1>1, <1>2, TailEntries

\* The insert.
LEMMA InsertStep ==
    ASSUME MemoryInv, InsertSpan
    PROVE  MemoryInv'
<1>1. /\ pc = "insert" /\ attempt' = 0
      /\ pc' = IF Upserts(span) THEN "upsert" ELSE "finish"
      /\ UNCHANGED <<span, trace, copy, row, tree>>
      /\ UNCHANGED <<streamVars, traceVars, closeVars, faultVars, dedupVars>>
      /\ UNCHANGED <<shown, lost, swept>>
  BY DEF InsertSpan
<1>2. /\ detailOf' \in [Spans -> 0..opened] /\ labelOf' \in [Spans -> 0..opened]
      /\ Stored' = Stored \cup {span}
  BY <1>1, StoreDetailsFacts DEF MemoryInv, InsertSpan
<1>3. TypeOK'
  <2>1. StreamType'
    BY <1>1, <1>2 DEF MemoryInv, TypeOK, StreamType, streamVars, traceVars, closeVars, faultVars, dedupVars
  <2>2. TraceType'
    BY <1>1, <1>2, HandlerFacts DEF MemoryInv, TypeOK, TraceType, streamVars, traceVars, closeVars, faultVars, dedupVars
  <2>3. HandlerType'
    BY <1>1, <1>2, HandlerFacts DEF MemoryInv, TypeOK, HandlerType, streamVars, traceVars, closeVars, faultVars, dedupVars
  <2>4. StoreType'
    BY <1>1, <1>2 DEF MemoryInv, TypeOK, StoreType, streamVars, traceVars, closeVars, faultVars, dedupVars
  <2> QED
    BY <2>1, <2>2, <2>3, <2>4 DEF TypeOK
<1>4. WorkLeft' /\ SpanInHand' /\ ClosedRows'
  BY <1>1, <1>2
     DEF MemoryInv, WorkLeft, SpanInHand, ClosedRows,
         Upserts, streamVars, traceVars, closeVars, faultVars, dedupVars
<1>5. AssembledOnce' /\ LivingTraces' /\ FreshTraces' /\ SeenJoined'
  BY <1>1, AssemblyFrame DEF streamVars, faultVars
<1>6. OwnRows'
  BY <1>1, OwnedDetails DEF MemoryInv, InsertSpan, traceVars, closeVars
<1> QED
  BY <1>3, <1>4, <1>5, <1>6 DEF MemoryInv

\* A running row, written at once or by a call that then failed.
LEMMA RunningRow ==
    ASSUME MemoryInv, pc = "upsert",
           \/ row' = [row EXCEPT ![trace] = [status |-> "running", count |-> copy]]
           \/ UNCHANGED row,
           UNCHANGED <<now, deliveries, traceVars, closeVars, dedupVars, swept, crashes>>,
           UNCHANGED <<span, trace>>,
           pc' \in {"upsert", "finish"}
    PROVE  /\ row' \in [Traces -> [status : Statuses, count : Nat]]
           /\ FreshTraces' /\ ClosedRows'
<1>1. row \in [Traces -> [status : Statuses, count : Nat]] /\ copy \in Nat
  BY DEF MemoryInv, TypeOK, StoreType, HandlerType
<1>2. row' \in [Traces -> [status : Statuses, count : Nat]]
  BY <1>1 DEF Statuses
<1>3. \A t \in Traces : row'[t].status = "closed" => row[t].status = "closed"
  BY <1>1
<1>4. \A t \in Traces : t # trace => row'[t] = row[t]
  BY <1>1
<1>5. FreshTraces'
  <2>1. \A t \in Traces : t > opened => row'[t] = row[t]
    BY <1>4, HandlerFacts DEF Traces
  <2> QED
    BY <2>1 DEF MemoryInv, FreshTraces, traceVars, closeVars
<1>6. ClosedRows'
  BY <1>3 DEF MemoryInv, ClosedRows, closeVars
<1> QED
  BY <1>2, <1>5, <1>6

\* The upsert after the insert.
LEMMA UpsertStep ==
    ASSUME MemoryInv, UpsertSummary
    PROVE  MemoryInv'
<1>1. /\ pc = "upsert" /\ pc' = "finish" /\ attempt' = 0
      /\ row' = [row EXCEPT ![trace] = [status |-> "running", count |-> copy]]
      /\ UNCHANGED <<span, trace, copy, detailOf, labelOf, tree>>
      /\ UNCHANGED <<streamVars, traceVars, closeVars, faultVars, dedupVars>>
      /\ UNCHANGED <<shown, lost, swept>>
  BY DEF UpsertSummary
<1>2. row' \in [Traces -> [status : Statuses, count : Nat]] /\ FreshTraces' /\ ClosedRows'
  BY <1>1, RunningRow DEF streamVars, faultVars
<1>3. TypeOK'
  <2>1. StreamType'
    BY <1>1, <1>2 DEF MemoryInv, TypeOK, StreamType, streamVars, traceVars, closeVars, faultVars, dedupVars
  <2>2. TraceType'
    BY <1>1, <1>2, HandlerFacts DEF MemoryInv, TypeOK, TraceType, streamVars, traceVars, closeVars, faultVars, dedupVars
  <2>3. HandlerType'
    BY <1>1, <1>2, HandlerFacts DEF MemoryInv, TypeOK, HandlerType, streamVars, traceVars, closeVars, faultVars, dedupVars
  <2>4. StoreType'
    BY <1>1, <1>2 DEF MemoryInv, TypeOK, StoreType, streamVars, traceVars, closeVars, faultVars, dedupVars
  <2> QED
    BY <2>1, <2>2, <2>3, <2>4 DEF TypeOK
<1>4. WorkLeft' /\ SpanInHand'
  BY <1>1
     DEF MemoryInv, WorkLeft, SpanInHand,
         streamVars, traceVars, closeVars, faultVars, dedupVars
<1>5. AssembledOnce' /\ LivingTraces' /\ SeenJoined' /\ OwnRows'
  BY <1>1, AssemblyFrame DEF streamVars, faultVars
<1> QED
  BY <1>2, <1>3, <1>4, <1>5 DEF MemoryInv

\* The return that acks the message.
LEMMA FinishStep ==
    ASSUME MemoryInv, Finish
    PROVE  MemoryInv'
<1>1. /\ pc = "finish" /\ pc' = "idle" /\ span' = 0 /\ trace' = 0 /\ copy' = 0
      /\ attempt' = 0 /\ queue' = Tail(queue)
      /\ shown' = IF Upserts(span) THEN [shown EXCEPT ![trace] = "running"] ELSE shown
      /\ UNCHANGED <<now, deliveries>>
      /\ UNCHANGED <<traceVars, closeVars, storeVars, faultVars, dedupVars>>
      /\ UNCHANGED <<lost, swept>>
  BY DEF Finish, Return, NoCall
<1>2. /\ queue' \in Seq(Spans) /\ Len(queue') = Len(queue) - 1 /\ Len(queue) \in Nat
      /\ Entries(queue) = Entries(queue') \cup {span}
      /\ opened \in Nat /\ deliveries \in Nat /\ crashes \in Nat
  BY <1>1, HandlerFacts
<1>3. shown' \in [Traces -> Statuses]
  BY <1>1 DEF MemoryInv, TypeOK, StoreType, Statuses
<1>4. TypeOK'
  <2>1. StreamType'
    BY <1>1, <1>2 DEF MemoryInv, TypeOK, StreamType, dedupVars
  <2>2. TraceType'
    BY <1>1, <1>2 DEF MemoryInv, TypeOK, TraceType, traceVars, closeVars, faultVars
  <2>3. HandlerType'
    BY <1>1, <1>2 DEF MemoryInv, TypeOK, HandlerType, traceVars, faultVars
  <2>4. StoreType'
    BY <1>1, <1>3 DEF MemoryInv, TypeOK, StoreType, traceVars, storeVars
  <2> QED
    BY <2>1, <2>2, <2>3, <2>4 DEF TypeOK
<1>5. WorkLeft' /\ SpanInHand' /\ ClosedRows'
  BY <1>1, <1>2
     DEF MemoryInv, WorkLeft, SpanInHand, ClosedRows,
         traceVars, closeVars, storeVars, faultVars
<1>6. AssembledOnce' /\ LivingTraces' /\ FreshTraces' /\ SeenJoined' /\ OwnRows'
  BY <1>1, AssemblyFrame DEF faultVars, storeVars
<1> QED
  BY <1>4, <1>5, <1>6 DEF MemoryInv

\* Failures are counted, and blame a trace that was handed out.
LEMMA StoreFailsFacts ==
    ASSUME MemoryInv, NEW t \in Traces, StoreFails(t)
    PROVE  /\ storeFailures' \in 0..MaxStoreFailures /\ crashes' = crashes
           /\ blip' \subseteq Traces
  BY DEF StoreFails, MemoryInv, TypeOK, HandlerType, TraceType

\* A failed insert is tried again, or counted as a drop and acked.
LEMMA InsertFailsStep ==
    ASSUME MemoryInv, InsertFails
    PROVE  MemoryInv'
<1>1. /\ pc = "insert"
      /\ UNCHANGED <<now, deliveries, row, tree>>
      /\ UNCHANGED <<traceVars, closeVars, dedupVars, shown, swept>>
  BY DEF InsertFails
<1>2. /\ storeFailures' \in 0..MaxStoreFailures /\ crashes' = crashes /\ blip' \subseteq Traces
  BY <1>1, HandlerFacts, StoreFailsFacts DEF InsertFails
<1>3. /\ detailOf' \in [Spans -> 0..opened] /\ labelOf' \in [Spans -> 0..opened]
      /\ Stored' = Stored \cup {span} \/ Stored' = Stored
  <2>1. CASE StoreDetails
    BY <1>1, <2>1, StoreDetailsFacts DEF MemoryInv
  <2>2. CASE UNCHANGED <<detailOf, labelOf>>
    BY <2>2 DEF MemoryInv, TypeOK, StoreType, Stored
  <2> QED
    BY <2>1, <2>2 DEF InsertFails
<1>4. AssembledOnce' /\ LivingTraces' /\ FreshTraces' /\ SeenJoined' /\ OwnRows'
  <2>1. OwnRows'
    BY <1>1, OwnedDetails DEF MemoryInv, InsertFails, traceVars, closeVars
  <2> QED
    BY <1>1, <1>2, <2>1, AssemblyFrame
<1>5. \/ /\ Exhausted
         /\ pc' = "idle" /\ span' = 0 /\ trace' = 0 /\ copy' = 0 /\ attempt' = 0
         /\ queue' = Tail(queue) /\ lost' = lost \cup {span}
      \/ /\ ~Exhausted
         /\ attempt' = attempt + 1 /\ UNCHANGED <<pc, span, trace, copy, lost, queue>>
  BY DEF InsertFails, Return, NoCall, GivenUp
<1>6. CASE Exhausted
  <2>1. /\ pc' = "idle" /\ span' = 0 /\ trace' = 0 /\ copy' = 0 /\ attempt' = 0
        /\ queue' = Tail(queue) /\ lost' = lost \cup {span}
    BY <1>5, <1>6
  <2>2. /\ queue' \in Seq(Spans) /\ Len(queue') = Len(queue) - 1 /\ Len(queue) \in Nat
        /\ Entries(queue) = Entries(queue') \cup {span} /\ span \in Spans
        /\ opened \in Nat /\ deliveries \in Nat /\ crashes \in Nat
    BY <1>1, <2>1, HandlerFacts
  <2>3. StreamType' /\ TraceType' /\ HandlerType' /\ StoreType'
    <3>1. StreamType'
      BY <1>1, <2>2 DEF MemoryInv, TypeOK, StreamType, dedupVars
    <3>2. TraceType'
      BY <1>1, <1>2 DEF MemoryInv, TypeOK, TraceType, traceVars, closeVars
    <3>3. HandlerType'
      BY <1>1, <1>2, <2>1 DEF MemoryInv, TypeOK, HandlerType
    <3>4. StoreType'
      BY <1>1, <1>3, <2>1, <2>2 DEF MemoryInv, TypeOK, StoreType, traceVars
    <3> QED
      BY <3>1, <3>2, <3>3, <3>4
  <2>4. WorkLeft'
    BY <1>1, <1>2, <2>1, <2>2 DEF MemoryInv, WorkLeft, traceVars, closeVars
  <2>5. SpanInHand'
    BY <2>1 DEF SpanInHand
  <2>6. ClosedRows'
    BY <1>1, <1>2, <1>3, <2>1, <2>2 DEF MemoryInv, ClosedRows, traceVars, closeVars
  <2> QED
    BY <1>4, <2>3, <2>4, <2>5, <2>6 DEF MemoryInv, TypeOK
<1>7. CASE ~Exhausted
  <2>1. attempt' = attempt + 1 /\ UNCHANGED <<pc, span, trace, copy, lost, queue>>
    BY <1>5, <1>7
  <2>2. attempt' \in 0..(Attempts - 1)
    BY <1>7, <2>1 DEF MemoryInv, TypeOK, HandlerType, Exhausted
  <2>3. StreamType' /\ TraceType' /\ HandlerType' /\ StoreType'
    <3>1. StreamType'
      BY <1>1, <2>1 DEF MemoryInv, TypeOK, StreamType, dedupVars
    <3>2. TraceType'
      BY <1>1, <1>2 DEF MemoryInv, TypeOK, TraceType, traceVars, closeVars
    <3>3. HandlerType'
      BY <1>1, <1>2, <2>1, <2>2, HandlerFacts
         DEF MemoryInv, TypeOK, HandlerType, traceVars
    <3>4. StoreType'
      BY <1>1, <1>3, <2>1 DEF MemoryInv, TypeOK, StoreType, traceVars
    <3> QED
      BY <3>1, <3>2, <3>3, <3>4
  <2>4. /\ WorkLeft' /\ SpanInHand' /\ ClosedRows'
    BY <1>1, <1>2, <1>3, <2>1
       DEF MemoryInv, WorkLeft, SpanInHand, ClosedRows,
           traceVars, closeVars, dedupVars
  <2> QED
    BY <1>4, <2>3, <2>4 DEF MemoryInv, TypeOK
<1> QED
  BY <1>6, <1>7

\* A failed upsert is tried again, or given up.
LEMMA UpsertFailsStep ==
    ASSUME MemoryInv, UpsertFails
    PROVE  MemoryInv'
<1>1. /\ pc = "upsert" /\ pc' \in {"upsert", "finish"}
      /\ \/ row' = [row EXCEPT ![trace] = [status |-> "running", count |-> copy]]
         \/ UNCHANGED row
      /\ UNCHANGED <<span, trace, copy, detailOf, labelOf, tree>>
      /\ UNCHANGED <<streamVars, traceVars, closeVars, dedupVars>>
      /\ UNCHANGED <<shown, lost, swept>>
  BY DEF UpsertFails
<1>2. /\ storeFailures' \in 0..MaxStoreFailures /\ crashes' = crashes /\ blip' \subseteq Traces
  BY <1>1, HandlerFacts, StoreFailsFacts DEF UpsertFails
<1>3. attempt' \in 0..(Attempts - 1)
  BY DEF UpsertFails, MemoryInv, TypeOK, HandlerType, Exhausted
<1>4. row' \in [Traces -> [status : Statuses, count : Nat]] /\ FreshTraces' /\ ClosedRows'
  BY <1>1, <1>2, RunningRow DEF streamVars
<1>5. TypeOK'
  <2>1. StreamType'
    BY <1>1 DEF MemoryInv, TypeOK, StreamType, streamVars, dedupVars
  <2>2. TraceType'
    BY <1>1, <1>2 DEF MemoryInv, TypeOK, TraceType, traceVars, closeVars
  <2>3. HandlerType'
    BY <1>1, <1>2, <1>3, HandlerFacts DEF MemoryInv, TypeOK, HandlerType, traceVars, streamVars
  <2>4. StoreType'
    BY <1>1, <1>4 DEF MemoryInv, TypeOK, StoreType, traceVars
  <2> QED
    BY <2>1, <2>2, <2>3, <2>4 DEF TypeOK
<1>6. WorkLeft' /\ SpanInHand'
  BY <1>1, <1>2
     DEF MemoryInv, WorkLeft, SpanInHand,
         streamVars, traceVars, closeVars, dedupVars
<1>7. AssembledOnce' /\ LivingTraces' /\ SeenJoined' /\ OwnRows'
  BY <1>1, <1>2, AssemblyFrame DEF streamVars
<1> QED
  BY <1>4, <1>5, <1>6, <1>7 DEF MemoryInv

\* What the close goroutines leave alone.
LEMMA CloserFrame ==
    ASSUME MemoryInv,
           UNCHANGED <<streamVars, traceVars, handlerVars, dedupVars, detailOf, lost, swept>>,
           crashes' = crashes
    PROVE  /\ StreamType' /\ WorkLeft' /\ SpanInHand'
           /\ AssembledOnce' /\ SeenJoined'
           /\ storeFailures' \in 0..MaxStoreFailures => HandlerType'
           /\ phase' = phase => LivingTraces'
           /\ UNCHANGED <<unlabelled, labelOf>> => OwnRows'
<1>1. StreamType'
  BY DEF MemoryInv, TypeOK, StreamType, streamVars, dedupVars
<1>2. WorkLeft' /\ SpanInHand' /\ AssembledOnce' /\ SeenJoined'
  BY DEF MemoryInv, WorkLeft, SpanInHand, AssembledOnce, SeenJoined,
         streamVars, traceVars, handlerVars, dedupVars
<1>3. storeFailures' \in 0..MaxStoreFailures => HandlerType'
  BY DEF MemoryInv, TypeOK, HandlerType, streamVars, traceVars, handlerVars
<1>4. phase' = phase => LivingTraces'
  BY DEF MemoryInv, LivingTraces, traceVars, dedupVars
<1>5. UNCHANGED <<unlabelled, labelOf>> => OwnRows'
  BY DEF MemoryInv, OwnRows, traceVars
<1> QED
  BY <1>1, <1>2, <1>3, <1>4, <1>5

\* A goroutine moves on: its trace was neither open nor new.
LEMMA CloserMoves ==
    ASSUME MemoryInv, NEW t \in Traces, phase[t] \in {"labels", "row", "event"},
           NEW p \in {"row", "event", "done"}, phase' = [phase EXCEPT ![t] = p],
           UNCHANGED <<traceVars, handlerVars, dedupVars, unlabelled, swept>>,
           crashes' = crashes, blip' \subseteq Traces
    PROVE  /\ TraceType' /\ LivingTraces'
           /\ \A u \in Traces : u > opened => phase'[u] = "new" /\ u # t
           /\ pc \in {"insert", "upsert"} /\ span \notin Terminal =>
                 phase'[trace] = "open" \/ trace \in swept
<1>1. phase \in [Traces -> Phases]
  BY DEF MemoryInv, TypeOK, TraceType
<1>2. phase' \in [Traces -> Phases]
  BY <1>1 DEF Phases
<1>3. TraceType'
  BY <1>2 DEF MemoryInv, TypeOK, TraceType, traceVars
<1>4. LivingTraces'
  BY <1>1 DEF MemoryInv, LivingTraces, traceVars, dedupVars
<1>5. \A u \in Traces : u > opened => phase'[u] = "new" /\ u # t
  BY <1>1 DEF MemoryInv, FreshTraces
<1>6. pc \in {"insert", "upsert"} /\ span \notin Terminal =>
         phase'[trace] = "open" \/ trace \in swept
  BY <1>1 DEF MemoryInv, ClosedRows
<1> QED
  BY <1>3, <1>4, <1>5, <1>6

\* Labels touch neither traces nor rows.
LEMMA LabelSpanStep ==
    ASSUME MemoryInv, NEW t \in Traces, LabelSpan(t)
    PROVE  MemoryInv'
<1>1. /\ phase[t] = "labels"
      /\ UNCHANGED <<phase, row, detailOf, tree, shown, lost, swept>>
      /\ UNCHANGED <<streamVars, traceVars, handlerVars, dedupVars>>
  BY DEF LabelSpan
<1>2. PICK s \in unlabelled[t] :
         /\ unlabelled' = [unlabelled EXCEPT ![t] = @ \ {s}]
         /\ labelOf' = [labelOf EXCEPT ![s] = Owner(@, t)] \/ UNCHANGED labelOf
         /\ UNCHANGED faultVars \/ StoreFails(t)
  BY DEF LabelSpan
<1>3. /\ storeFailures' \in 0..MaxStoreFailures /\ crashes' = crashes /\ blip' \subseteq Traces
  <2>1. CASE UNCHANGED faultVars
    BY <2>1 DEF faultVars, MemoryInv, TypeOK, HandlerType, TraceType
  <2>2. CASE StoreFails(t)
    BY <2>2, StoreFailsFacts
  <2> QED
    BY <1>2, <2>1, <2>2
<1>4. t \in 1..opened /\ opened \in Nat
  BY <1>1 DEF MemoryInv, FreshTraces, TypeOK, TraceType, Traces
<1>5. /\ unlabelled \in [Traces -> SUBSET Spans] /\ s \in Spans
      /\ labelOf \in [Spans -> 0..opened]
  BY <1>2 DEF MemoryInv, TypeOK, TraceType, StoreType
<1>6. unlabelled' \in [Traces -> SUBSET Spans]
  BY <1>2, <1>5
<1>7. labelOf' \in [Spans -> 0..opened]
  <2>1. Owner(labelOf[s], t) \in 0..opened
    BY <1>4, <1>5 DEF Owner
  <2> QED
    BY <1>2, <1>5, <2>1
<1>8. TraceType' /\ StoreType'
  BY <1>1, <1>3, <1>6, <1>7 DEF MemoryInv, TypeOK, TraceType, StoreType, traceVars
<1>9. FreshTraces' /\ ClosedRows'
  BY <1>1 DEF MemoryInv, FreshTraces, ClosedRows, traceVars, handlerVars
<1>10. OwnRows'
  <2>1. /\ s \in members[t] /\ UNCHANGED <<members, detailOf>>
        /\ \A u \in Traces : unlabelled[u] \subseteq members[u]
        /\ \A r \in Spans : detailOf[r] # 0 => r \in members[detailOf[r]]
        /\ \A r \in Spans : labelOf[r] # 0 => r \in members[labelOf[r]]
    BY <1>1, <1>2 DEF MemoryInv, OwnRows, traceVars
  <2>2. \A u \in Traces : unlabelled'[u] \subseteq unlabelled[u]
    BY <1>2, <1>5
  <2>3. \A r \in Spans : labelOf'[r] = labelOf[r] \/ (r = s /\ labelOf'[r] = t)
    BY <1>2, <1>5 DEF Owner
  <2> QED
    BY <2>1, <2>2, <2>3 DEF OwnRows
<1> QED
  BY <1>1, <1>3, <1>8, <1>9, <1>10, CloserFrame DEF MemoryInv, TypeOK

\* The tree.
LEMMA SaveTreeStep ==
    ASSUME MemoryInv, NEW t \in Traces, SaveTree(t)
    PROVE  MemoryInv'
<1>1. /\ phase[t] = "labels" /\ phase' = [phase EXCEPT ![t] = "row"]
      /\ tree' = tree \cup {t} \/ UNCHANGED tree
      /\ UNCHANGED faultVars \/ StoreFails(t)
      /\ UNCHANGED <<unlabelled, row, detailOf, labelOf, shown, lost, swept>>
      /\ UNCHANGED <<streamVars, traceVars, handlerVars, dedupVars>>
  BY DEF SaveTree
<1>2. /\ storeFailures' \in 0..MaxStoreFailures /\ crashes' = crashes /\ blip' \subseteq Traces
      /\ tree' \subseteq Traces
  <2>1. tree' \subseteq Traces
    BY <1>1 DEF MemoryInv, TypeOK, StoreType
  <2>2. CASE UNCHANGED faultVars
    BY <2>1, <2>2 DEF faultVars, MemoryInv, TypeOK, HandlerType, TraceType
  <2>3. CASE StoreFails(t)
    BY <2>1, <2>3, StoreFailsFacts
  <2> QED
    BY <1>1, <2>2, <2>3
<1>3. /\ TraceType' /\ LivingTraces'
      /\ \A u \in Traces : u > opened => phase'[u] = "new" /\ u # t
      /\ pc \in {"insert", "upsert"} /\ span \notin Terminal =>
            phase'[trace] = "open" \/ trace \in swept
  BY <1>1, <1>2, CloserMoves
<1>4. StoreType'
  BY <1>1, <1>2 DEF MemoryInv, TypeOK, StoreType, traceVars
<1>5. FreshTraces'
  BY <1>1, <1>3 DEF MemoryInv, FreshTraces, traceVars
<1>6. ClosedRows'
  <2>1. row[t].status # "closed"
    BY <1>1 DEF MemoryInv, ClosedRows
  <2> QED
    BY <1>1, <1>3, <2>1 DEF MemoryInv, ClosedRows, handlerVars, TypeOK, TraceType
<1> QED
  BY <1>1, <1>2, <1>3, <1>4, <1>5, <1>6, CloserFrame DEF MemoryInv, TypeOK

\* The closed row: the only step that closes one, and its trace has left the
\* phases the handler or the sweep care about.
LEMMA CloseRowStep ==
    ASSUME MemoryInv, NEW t \in Traces, CloseRow(t)
    PROVE  MemoryInv'
<1>1. /\ phase[t] = "row"
      /\ \/ phase' = [phase EXCEPT ![t] = "event"] /\ UNCHANGED faultVars
         \/ phase' = [phase EXCEPT ![t] = "done"] /\ StoreFails(t)
      /\ row' = FinalRow(t) \/ UNCHANGED row
      /\ UNCHANGED <<unlabelled, detailOf, labelOf, tree, shown, lost, swept>>
      /\ UNCHANGED <<streamVars, traceVars, handlerVars, dedupVars>>
  BY DEF CloseRow
<1>2. PICK p \in {"event", "done"} : phase' = [phase EXCEPT ![t] = p]
  BY <1>1
<1>3. /\ storeFailures' \in 0..MaxStoreFailures /\ crashes' = crashes /\ blip' \subseteq Traces
  <2>1. CASE UNCHANGED faultVars
    BY <2>1 DEF faultVars, MemoryInv, TypeOK, HandlerType, TraceType
  <2>2. CASE StoreFails(t)
    BY <2>2, StoreFailsFacts
  <2> QED
    BY <1>1, <2>1, <2>2
<1>4. /\ TraceType' /\ LivingTraces'
      /\ \A u \in Traces : u > opened => phase'[u] = "new" /\ u # t
      /\ pc \in {"insert", "upsert"} /\ span \notin Terminal =>
            phase'[trace] = "open" \/ trace \in swept
  BY <1>1, <1>2, <1>3, CloserMoves
<1>5. /\ row \in [Traces -> [status : Statuses, count : Nat]] /\ count \in [Traces -> Nat]
      /\ phase \in [Traces -> Phases]
  BY DEF MemoryInv, TypeOK, StoreType, TraceType
<1>6. /\ row' \in [Traces -> [status : Statuses, count : Nat]]
      /\ \A u \in Traces : u # t => row'[u] = row[u]
  BY <1>1, <1>5 DEF FinalRow, Statuses
<1>7. StoreType'
  BY <1>1, <1>6 DEF MemoryInv, TypeOK, StoreType, traceVars
<1>8. FreshTraces'
  BY <1>1, <1>4, <1>6 DEF MemoryInv, FreshTraces, traceVars
<1>9. ClosedRows'
  <2>1. \A u \in Traces : phase'[u] = IF u = t THEN p ELSE phase[u]
    BY <1>2, <1>5
  <2> QED
    BY <1>1, <1>4, <1>6, <2>1 DEF MemoryInv, ClosedRows, handlerVars
<1> QED
  BY <1>1, <1>3, <1>4, <1>7, <1>8, <1>9, CloserFrame DEF MemoryInv, TypeOK

\* The event about the closed row.
LEMMA CloseEventStep ==
    ASSUME MemoryInv, NEW t \in Traces, CloseEvent(t)
    PROVE  MemoryInv'
<1>1. /\ phase[t] = "event" /\ phase' = [phase EXCEPT ![t] = "done"]
      /\ shown' = [shown EXCEPT ![t] = "closed"]
      /\ UNCHANGED <<unlabelled, lost, swept>>
      /\ UNCHANGED <<streamVars, traceVars, handlerVars, storeVars, faultVars, dedupVars>>
  BY DEF CloseEvent
<1>2. /\ storeFailures' \in 0..MaxStoreFailures /\ crashes' = crashes /\ blip' \subseteq Traces
      /\ shown' \in [Traces -> Statuses]
  BY <1>1 DEF faultVars, MemoryInv, TypeOK, HandlerType, TraceType, StoreType, Statuses
<1>3. /\ TraceType' /\ LivingTraces'
      /\ \A u \in Traces : u > opened => phase'[u] = "new" /\ u # t
      /\ pc \in {"insert", "upsert"} /\ span \notin Terminal =>
            phase'[trace] = "open" \/ trace \in swept
  BY <1>1, <1>2, CloserMoves
<1>4. StoreType'
  BY <1>1, <1>2 DEF MemoryInv, TypeOK, StoreType, traceVars, storeVars
<1>5. FreshTraces'
  BY <1>1, <1>3 DEF MemoryInv, FreshTraces, traceVars, storeVars
<1>6. ClosedRows'
  BY <1>1, <1>3 DEF MemoryInv, ClosedRows, handlerVars, storeVars, TypeOK, TraceType
<1> QED
  BY <1>1, <1>2, <1>3, <1>4, <1>5, <1>6, CloserFrame DEF MemoryInv, TypeOK, storeVars

\* The sweep closes open traces, and remembers that it did.
LEMMA SweepStep ==
    ASSUME MemoryInv, Sweep
    PROVE  MemoryInv'
<1> DEFINE idle == {a \in Agents : open[a] # 0 /\ Idle(open[a])}
           gone == {open[a] : a \in idle}
<1>1. /\ open' = [a \in Agents |-> IF a \in idle THEN 0 ELSE open[a]]
      /\ phase' = [t \in Traces |-> IF t \in gone THEN "labels" ELSE phase[t]]
      /\ unlabelled' = [t \in Traces |-> IF t \in gone THEN members[t] ELSE unlabelled[t]]
      /\ swept' = swept \cup gone
      /\ UNCHANGED <<opened, members, count, start, last, life, shown, lost>>
      /\ UNCHANGED <<streamVars, handlerVars, storeVars, faultVars, dedupVars>>
  BY DEF Sweep
<1>2. /\ open \in [Agents -> 0..opened] /\ opened \in 0..(MaxDeliveries + MaxCrashes)
      /\ members \in [Traces -> SUBSET Spans] /\ unlabelled \in [Traces -> SUBSET Spans]
      /\ phase \in [Traces -> Phases] /\ swept \subseteq Traces
  BY DEF MemoryInv, TypeOK, TraceType
<1>3. gone \subseteq 1..opened /\ gone \subseteq Traces /\ opened \in Nat
  BY <1>2 DEF Traces
<1>4. \A t \in gone : phase[t] = "open"
  BY DEF MemoryInv, LivingTraces
<1>5. /\ open' \in [Agents -> 0..opened] /\ phase' \in [Traces -> Phases]
      /\ unlabelled' \in [Traces -> SUBSET Spans] /\ swept' \subseteq Traces
  BY <1>1, <1>2, <1>3 DEF Phases
<1>6. \A a \in Agents : open'[a] # 0 => open'[a] = open[a] /\ open[a] \in Traces /\ open[a] \notin gone
  <2> SUFFICES ASSUME NEW a \in Agents, open'[a] # 0
               PROVE  open'[a] = open[a] /\ open[a] \in Traces /\ open[a] \notin gone
    OBVIOUS
  <2>1. a \notin idle /\ open'[a] = open[a]
    BY <1>1
  <2>2. ~Idle(open[a]) /\ open[a] \in Traces
    BY <1>2, <2>1 DEF Traces
  <2> QED
    BY <2>1, <2>2
<1> HIDE DEF idle, gone
<1>7. TypeOK'
  <2>1. StreamType'
    BY <1>1 DEF MemoryInv, TypeOK, StreamType, streamVars, dedupVars
  <2>2. TraceType'
    BY <1>1, <1>5 DEF MemoryInv, TypeOK, TraceType, faultVars
  <2>3. HandlerType'
    BY <1>1 DEF MemoryInv, TypeOK, HandlerType, handlerVars, streamVars, faultVars
  <2>4. StoreType'
    BY <1>1 DEF MemoryInv, TypeOK, StoreType, storeVars
  <2> QED
    BY <2>1, <2>2, <2>3, <2>4 DEF TypeOK
<1>8. /\ WorkLeft' /\ SpanInHand' /\ AssembledOnce' /\ SeenJoined' /\ OwnRows'
  BY <1>1 DEF MemoryInv, WorkLeft, SpanInHand, SeenJoined, OwnRows,
              AssembledOnce, streamVars, handlerVars, storeVars, faultVars, dedupVars
<1>9. FreshTraces'
  <2>1. \A t \in Traces : t > opened => t \notin gone
    BY <1>3
  <2>2. \A t \in Traces : t > opened => phase'[t] = phase[t]
    BY <1>1, <2>1
  <2> QED
    BY <1>1, <2>2 DEF MemoryInv, FreshTraces, storeVars
<1>10. LivingTraces'
  BY <1>1, <1>6 DEF MemoryInv, LivingTraces, faultVars, dedupVars
<1>11. ClosedRows'
  <2>1. pc \in {"insert", "upsert"} => trace \in Traces
    BY HandlerFacts
  <2>2. \A t \in Traces : phase'[t] = "open" \/ phase'[t] = "labels" \/ phase'[t] = phase[t]
    BY <1>1
  <2>3. \A t \in Traces : t \in gone => row[t].status # "closed"
    BY <1>4 DEF MemoryInv, ClosedRows
  <2> QED
    BY <1>1, <1>4, <2>1, <2>3 DEF MemoryInv, ClosedRows, handlerVars, storeVars
<1> QED
  BY <1>7, <1>8, <1>9, <1>10, <1>11 DEF MemoryInv

\* A crash forgets all that is in memory: no trace is open, none is of the new
\* life yet, and the message in hand is first in the stream again.
LEMMA CrashStep ==
    ASSUME MemoryInv, Crash
    PROVE  MemoryInv'
<1>1. /\ crashes < MaxCrashes /\ crashes' = crashes + 1
      /\ open' = [a \in Agents |-> 0] /\ seen' = <<>>
      /\ phase' = [t \in Traces |-> IF phase[t] = "new" \/ phase[t] = "done"
                                    THEN phase[t] ELSE "dead"]
      /\ unlabelled' = [t \in Traces |-> {}]
      /\ pc' = "idle" /\ span' = 0 /\ trace' = 0 /\ copy' = 0 /\ attempt' = 0
      /\ UNCHANGED <<opened, members, count, start, last, life, forgotten>>
      /\ queue' \in Reordered(queue)
      /\ UNCHANGED <<now, deliveries, storeVars, storeFailures, blip, shown, lost, swept>>
  BY DEF Crash, NoCall
<1>2. /\ crashes \in 0..MaxCrashes /\ opened \in Nat /\ deliveries \in Nat
      /\ life \in [Traces -> 0..MaxCrashes] /\ queue \in Seq(Spans) /\ Len(queue) \in Nat
  BY LenProperties DEF MemoryInv, TypeOK, HandlerType, TraceType, StreamType
<1>3. seen' \in Seq(Spans) /\ Len(seen') = 0 /\ Entries(seen') = {}
  BY <1>1, EmptySeq DEF Entries
<1>9. queue' \in Seq(Spans) /\ Len(queue') = Len(queue)
  BY <1>1, <1>2, ReorderedSame
<1>4. TypeOK'
  <2>1. StreamType'
    BY <1>1, <1>3, <1>9 DEF MemoryInv, TypeOK, StreamType
  <2>2. TraceType'
    BY <1>1, <1>2 DEF MemoryInv, TypeOK, TraceType, Phases
  <2>3. HandlerType'
    BY <1>1, <1>2 DEF MemoryInv, TypeOK, HandlerType
  <2>4. StoreType'
    BY <1>1 DEF MemoryInv, TypeOK, StoreType, storeVars
  <2> QED
    BY <2>1, <2>2, <2>3, <2>4 DEF TypeOK
<1>5. WorkLeft' /\ SpanInHand'
  BY <1>1, <1>2, <1>3, <1>9 DEF MemoryInv, WorkLeft, SpanInHand
<1>6. FreshTraces' /\ ClosedRows'
  BY <1>1 DEF MemoryInv, FreshTraces, ClosedRows, storeVars
<1>7. LivingTraces'
  <2>1. \A t \in Traces : life[t] <= crashes /\ life[t] \in Nat
    BY <1>2 DEF MemoryInv, LivingTraces
  <2>2. \A t \in Traces : life[t] <= crashes + 1 /\ life[t] # crashes + 1
    BY <1>2, <2>1
  <2> QED
    BY <1>1, <2>2 DEF LivingTraces
<1>8. AssembledOnce' /\ SeenJoined' /\ OwnRows'
  BY <1>1, <1>3 DEF MemoryInv, AssembledOnce, SeenJoined, OwnRows, storeVars
<1> QED
  BY <1>4, <1>5, <1>6, <1>7, <1>8 DEF MemoryInv

\* What assembling a span does to the traces: the span joins trace t, which is
\* new or the open one of its agent.
LEMMA AssembleFacts ==
    ASSUME MemoryInv, HandleSpan,
           NEW s, s = Head(queue), NEW t, t = TraceFor(s)
    PROVE  /\ s \in Spans /\ t \in Traces /\ opened \in Nat /\ opened' \in Nat
           /\ t \in 1..opened' /\ opened <= opened' /\ opened' <= opened + 1
           /\ opened' \in 0..(MaxDeliveries + MaxCrashes)
           /\ \A u \in Traces : u \in 1..opened' => u \in 1..opened \/ u = t
           /\ t = opened + 1 \/ /\ t \in 1..opened /\ phase[t] = "open"
                                /\ life[t] = crashes /\ open[AgentOf[s]] = t
           /\ ClosedBy(s, t) \subseteq 1..opened'
           /\ \A u \in ClosedBy(s, t) : u = t \/ phase[u] = "open"
           /\ s \in Terminal <=> t \in ClosedBy(s, t)
           /\ open[AgentOf[s]] \notin {0, t} => open[AgentOf[s]] \in ClosedBy(s, t)
<1>1. /\ queue \in Seq(Spans) /\ queue # <<>> /\ Len(queue) \in Nat /\ pc = "idle"
      /\ deliveries \in 0..MaxDeliveries /\ crashes \in 0..MaxCrashes
      /\ open \in [Agents -> 0..opened] /\ opened \in Nat
  BY LenProperties DEF MemoryInv, TypeOK, StreamType, HandlerType, TraceType, HandleSpan
<1>2. s \in Spans /\ Len(queue) >= 1
  BY <1>1, TailEntries, EmptySeq
<1>3. AgentOf[s] \in Agents /\ open[AgentOf[s]] \in 0..opened
  BY <1>1, <1>2
<1>4. opened + 1 <= deliveries + crashes
  BY <1>1, <1>2 DEF MemoryInv, WorkLeft
<1>5. opened' = MaxOf(opened, t)
  BY DEF HandleSpan, Assemble
<1>6. CASE Joins(s)
  <2>1. t = open[AgentOf[s]] /\ t # 0
    BY <1>6 DEF TraceFor, Joins
  <2>2. t \in 1..opened /\ opened' = opened
    BY <1>1, <1>3, <1>5, <2>1 DEF MaxOf
  <2>3. phase[t] = "open" /\ life[t] = crashes
    BY <1>3, <2>1 DEF MemoryInv, LivingTraces
  <2>4. ClosedBy(s, t) = IF s \in Terminal THEN {t} ELSE {}
    BY <2>1 DEF ClosedBy
  <2>5. t \in Traces /\ opened' \in 0..(MaxDeliveries + MaxCrashes)
    BY <1>1, <2>2 DEF MemoryInv, TypeOK, TraceType, Traces
  <2> QED
    BY <1>1, <1>2, <2>1, <2>2, <2>3, <2>4, <2>5
<1>7. CASE ~Joins(s)
  <2>1. t = opened + 1
    BY <1>7 DEF TraceFor
  <2>2. opened' = opened + 1
    BY <1>1, <1>5, <2>1 DEF MaxOf
  <2>3. t \in Traces /\ opened' \in 0..(MaxDeliveries + MaxCrashes)
    BY <1>1, <1>4, <2>1, <2>2 DEF Traces
  <2>4. open[AgentOf[s]] # t
    BY <1>1, <1>3, <2>1
  <2>5. ClosedBy(s, t) = ({open[AgentOf[s]]} \ {0}) \cup (IF s \in Terminal THEN {t} ELSE {})
    BY <2>4 DEF ClosedBy
  <2>6. open[AgentOf[s]] # 0 => open[AgentOf[s]] \in 1..opened /\ phase[open[AgentOf[s]]] = "open"
    BY <1>1, <1>3 DEF MemoryInv, LivingTraces
  <2>7. ClosedBy(s, t) \subseteq 1..opened'
    BY <1>1, <2>1, <2>2, <2>5, <2>6
  <2>8. \A u \in Traces : u \in 1..opened' => u \in 1..opened \/ u = t
    BY <1>1, <2>1, <2>2
  <2> QED
    BY <1>1, <1>2, <2>1, <2>2, <2>3, <2>4, <2>5, <2>6, <2>7, <2>8
<1> QED
  BY <1>6, <1>7

\* The locked part of handleSpan.
LEMMA HandleSpanStep ==
    ASSUME MemoryInv, HandleSpan
    PROVE  MemoryInv'
<1>1. PICK s, t : s = Head(queue) /\ t = TraceFor(s)
  OBVIOUS
<1>2. /\ s \in Spans /\ t \in Traces /\ opened \in Nat /\ opened' \in Nat
      /\ t \in 1..opened' /\ opened <= opened' /\ opened' <= opened + 1
      /\ opened' \in 0..(MaxDeliveries + MaxCrashes)
      /\ \A u \in Traces : u \in 1..opened' => u \in 1..opened \/ u = t
      /\ t = opened + 1 \/ /\ t \in 1..opened /\ phase[t] = "open"
                           /\ life[t] = crashes /\ open[AgentOf[s]] = t
      /\ ClosedBy(s, t) \subseteq 1..opened'
      /\ \A u \in ClosedBy(s, t) : u = t \/ phase[u] = "open"
      /\ s \in Terminal <=> t \in ClosedBy(s, t)
      /\ open[AgentOf[s]] \notin {0, t} => open[AgentOf[s]] \in ClosedBy(s, t)
  BY <1>1, AssembleFacts
<1>3. /\ pc = "idle" /\ queue # <<>> /\ s \notin Entries(seen)
      /\ seen' = Remembered(s) /\ forgotten' = forgotten \cup Forgotten
      /\ span' = s /\ trace' = t /\ copy' = count'[t]
      /\ pc' = "insert" /\ attempt' = 0
      /\ UNCHANGED <<streamVars, storeVars, faultVars, shown, lost, swept>>
      /\ Assemble(s, t)
  BY <1>1 DEF HandleSpan
<1>4. /\ open' = [open EXCEPT ![AgentOf[s]] = IF s \in Terminal THEN 0 ELSE t]
      /\ members' = [members EXCEPT ![t] = @ \cup {s}]
      /\ count' = [count EXCEPT ![t] = @ + 1]
      /\ start' = [start EXCEPT ![t] = IF t = opened + 1 THEN StartOf[s] ELSE @]
      /\ last' = [last EXCEPT ![t] = MaxOf(@, EndOf[s])]
      /\ life' = [life EXCEPT ![t] = crashes]
      /\ phase' = [u \in Traces |-> IF u \in ClosedBy(s, t) THEN "labels"
                                    ELSE IF u = t THEN "open" ELSE phase[u]]
      /\ unlabelled' = [u \in Traces |-> IF u \in ClosedBy(s, t) THEN members'[u]
                                         ELSE unlabelled[u]]
  BY <1>3 DEF Assemble
<1> DEFINE C == ClosedBy(s, t)
<1> HIDE DEF C
<1>5. /\ C \subseteq 1..opened' /\ \A u \in C : u = t \/ phase[u] = "open"
      /\ s \in Terminal <=> t \in C
      /\ open[AgentOf[s]] \notin {0, t} => open[AgentOf[s]] \in C
      /\ phase' = [u \in Traces |-> IF u \in C THEN "labels"
                                    ELSE IF u = t THEN "open" ELSE phase[u]]
      /\ unlabelled' = [u \in Traces |-> IF u \in C THEN members'[u] ELSE unlabelled[u]]
  BY <1>2, <1>4 DEF C
<1>6. /\ seen \in Seq(Spans) /\ Len(seen) <= SeenCap /\ forgotten \subseteq Spans
      /\ open \in [Agents -> 0..opened] /\ members \in [Traces -> SUBSET Spans]
      /\ count \in [Traces -> Nat] /\ start \in [Traces -> Nat] /\ last \in [Traces -> Nat]
      /\ life \in [Traces -> 0..MaxCrashes] /\ phase \in [Traces -> Phases]
      /\ unlabelled \in [Traces -> SUBSET Spans] /\ crashes \in 0..MaxCrashes
  BY DEF MemoryInv, TypeOK, StreamType, TraceType, HandlerType
<1>7. /\ seen' \in Seq(Spans) /\ Len(seen') <= SeenCap /\ forgotten' \subseteq Spans
      /\ Entries(seen') \subseteq Entries(seen) \cup {s}
      /\ Entries(seen) \cup {s} \subseteq Entries(seen') \cup forgotten'
      /\ forgotten \subseteq forgotten'
  BY <1>2, <1>3, <1>6, RememberedFacts
<1>8. /\ members' \in [Traces -> SUBSET Spans] /\ members'[t] = members[t] \cup {s}
      /\ \A u \in Traces : u # t => members'[u] = members[u]
      /\ life' \in [Traces -> 0..MaxCrashes] /\ life'[t] = crashes
      /\ \A u \in Traces : u # t => life'[u] = life[u]
      /\ count' \in [Traces -> Nat] /\ count'[t] = count[t] + 1
      /\ \A u \in Traces : u # t => count'[u] = count[u]
      /\ \A u \in Traces : phase'[u] = IF u \in C THEN "labels"
                                       ELSE IF u = t THEN "open" ELSE phase[u]
  <2>1. /\ members' \in [Traces -> SUBSET Spans] /\ members'[t] = members[t] \cup {s}
        /\ \A u \in Traces : u # t => members'[u] = members[u]
    BY <1>2, <1>4, <1>6
  <2>2. /\ life' \in [Traces -> 0..MaxCrashes] /\ life'[t] = crashes
        /\ \A u \in Traces : u # t => life'[u] = life[u]
    BY <1>2, <1>4, <1>6
  <2>3. /\ count' \in [Traces -> Nat] /\ count'[t] = count[t] + 1
        /\ \A u \in Traces : u # t => count'[u] = count[u]
    BY <1>2, <1>4, <1>6
  <2>4. \A u \in Traces : phase'[u] = IF u \in C THEN "labels"
                                      ELSE IF u = t THEN "open" ELSE phase[u]
    BY <1>5
  <2> QED
    BY <2>1, <2>2, <2>3, <2>4
<1>9. members[t] \subseteq Entries(seen) \cup forgotten
  <2>1. CASE t = opened + 1
    BY <1>2, <2>1 DEF MemoryInv, FreshTraces
  <2>2. CASE life[t] = crashes
    BY <1>2, <2>2 DEF MemoryInv, LivingTraces
  <2> QED
    BY <1>2, <2>1, <2>2
<1>10. row[t].status # "closed"
  <2>1. CASE t = opened + 1
    BY <1>2, <2>1 DEF MemoryInv, FreshTraces
  <2>2. CASE phase[t] = "open"
    BY <1>2, <2>2 DEF MemoryInv, ClosedRows
  <2> QED
    BY <1>2, <2>1, <2>2
<1>11. TypeOK'
  <2>1. StreamType'
    BY <1>3, <1>7 DEF MemoryInv, TypeOK, StreamType, streamVars
  <2>2. open' \in [Agents -> 0..opened']
    BY <1>2, <1>4, <1>6
  <2>3. start' \in [Traces -> Nat] /\ last' \in [Traces -> Nat]
    BY <1>2, <1>4, <1>6 DEF MaxOf
  <2>4. phase' \in [Traces -> Phases] /\ unlabelled' \in [Traces -> SUBSET Spans]
    BY <1>5, <1>6, <1>8 DEF Phases
  <2>5. TraceType'
    BY <1>2, <1>3, <1>8, <2>2, <2>3, <2>4 DEF MemoryInv, TypeOK, TraceType, faultVars
  <2>6. HandlerType'
    BY <1>2, <1>3, <1>8 DEF MemoryInv, TypeOK, HandlerType, streamVars, faultVars
  <2>7. StoreType'
    BY <1>2, <1>3 DEF MemoryInv, TypeOK, StoreType, storeVars
  <2> QED
    BY <2>1, <2>5, <2>6, <2>7 DEF TypeOK
<1>12. WorkLeft' /\ SpanInHand'
  <2>1. Len(queue) \in Nat /\ deliveries \in Nat
    BY LenProperties DEF MemoryInv, TypeOK, StreamType
  <2> QED
    <3>1. WorkLeft'
      BY <1>1, <1>2, <1>3, <1>6, <2>1 DEF MemoryInv, WorkLeft, streamVars, faultVars
    <3>2. SpanInHand'
      BY <1>1, <1>3, <1>8 DEF SpanInHand, streamVars, faultVars
    <3> QED
      BY <3>1, <3>2
<1>13. SeenJoined' /\ OwnRows'
  <2>1. ASSUME NEW r \in Entries(seen')
        PROVE  \E u \in 1..opened' : r \in members'[u] /\ life'[u] = crashes'
    <3>1. CASE r = s
      BY <1>2, <1>3, <1>8, <3>1 DEF faultVars
    <3>2. CASE r # s
      <4>1. PICK u \in 1..opened : r \in members[u] /\ life[u] = crashes
        BY <1>7, <3>2 DEF MemoryInv, SeenJoined
      <4>2. u \in Traces /\ u \in 1..opened'
        BY <1>2, <4>1 DEF Traces
      <4>3. r \in members'[u] /\ life'[u] = crashes
        BY <1>8, <4>1, <4>2
      <4> QED
        BY <1>3, <4>2, <4>3 DEF faultVars
    <3> QED
      BY <3>1, <3>2
  <2>2. \A u \in Traces : members[u] \subseteq members'[u]
    BY <1>8
  <2>3. \A u \in Traces : unlabelled'[u] \subseteq members'[u]
    BY <1>5, <2>2 DEF MemoryInv, OwnRows
  <2>4. detailOf \in [Spans -> 0..opened] /\ labelOf \in [Spans -> 0..opened]
    BY DEF MemoryInv, TypeOK, StoreType
  <2>5. \A r \in Spans : /\ detailOf[r] # 0 => detailOf[r] \in Traces
                         /\ labelOf[r] # 0 => labelOf[r] \in Traces
    BY <1>2, <2>4 DEF Traces
  <2> QED
    BY <1>3, <2>1, <2>2, <2>3, <2>5 DEF MemoryInv, SeenJoined, OwnRows, storeVars
<1>14. FreshTraces'
  <2> SUFFICES ASSUME NEW u \in Traces, u > opened'
               PROVE  /\ members'[u] = {} /\ count'[u] = 0
                      /\ phase'[u] = "new" /\ row'[u].status = "none"
    BY DEF FreshTraces
  <2>1. u # t /\ u \notin C /\ u > opened
    BY <1>2, <1>5 DEF Traces
  <2> QED
    BY <1>3, <1>8, <2>1 DEF MemoryInv, FreshTraces, storeVars
<1>15. LivingTraces'
  <2>1. ASSUME NEW u \in Traces
        PROVE  /\ life'[u] <= crashes'
               /\ life'[u] = crashes' => members'[u] \subseteq Entries(seen') \cup forgotten'
    <3>1. CASE u = t
      BY <1>3, <1>6, <1>7, <1>8, <1>9, <3>1 DEF faultVars
    <3>2. CASE u # t
      BY <1>3, <1>7, <1>8, <3>2 DEF MemoryInv, LivingTraces, faultVars
    <3> QED
      BY <3>1, <3>2
  <2>2. ASSUME NEW a \in Agents, open'[a] # 0
        PROVE  /\ phase'[open'[a]] = "open" /\ life'[open'[a]] = crashes'
               /\ \A b \in Agents : open'[b] = open'[a] => b = a
    <3>1. CASE a = AgentOf[s]
      <4>1. open'[a] = t /\ s \notin Terminal
        BY <1>4, <1>6, <2>2, <3>1
      <4>2. ASSUME NEW b \in Agents, b # a PROVE open'[b] # t
        <5>1. open'[b] = open[b] /\ open[b] \in 0..opened
          BY <1>4, <1>6, <3>1, <4>2
        <5>2. CASE t = opened + 1
          BY <1>2, <5>1, <5>2
        <5>3. CASE open[a] = t
          BY <1>2, <3>1, <4>2, <5>1, <5>3 DEF MemoryInv, LivingTraces
        <5> QED
          BY <1>2, <3>1, <5>2, <5>3
      <4> QED
        BY <1>2, <1>3, <1>5, <1>8, <4>1, <4>2 DEF faultVars
    <3>2. CASE a # AgentOf[s]
      <4>1. open'[a] = open[a] /\ open[a] # 0 /\ open[a] \in 1..opened
        BY <1>4, <1>6, <2>2, <3>2
      <4>2. /\ phase[open[a]] = "open" /\ life[open[a]] = crashes
            /\ \A b \in Agents : open[b] = open[a] => b = a
        BY <4>1 DEF MemoryInv, LivingTraces
      <4>3. open[a] \in Traces /\ open[a] # t
        <5>1. open[a] \in Traces
          BY <1>2, <4>1 DEF MemoryInv, TypeOK, TraceType, Traces
        <5>2. open[AgentOf[s]] # open[a]
          BY <1>2, <3>2, <4>2
        <5> QED
          BY <1>2, <4>1, <5>1, <5>2
      <4>4. open[a] \notin C
        BY <1>2, <3>2, <4>1, <4>2, <4>3 DEF C, ClosedBy
      <4>5. \A b \in Agents : open'[b] = open[a] => b = a
        BY <1>4, <1>6, <4>1, <4>2, <4>3
      <4> QED
        BY <1>3, <1>8, <4>1, <4>2, <4>3, <4>4, <4>5 DEF faultVars
    <3> QED
      BY <3>1, <3>2
  <2> QED
    BY <2>1, <2>2 DEF LivingTraces
<1>16. ClosedRows'
  <2>1. span' \notin Terminal => phase'[trace'] = "open"
    BY <1>2, <1>3, <1>5, <1>8
  <2>2. ASSUME NEW u \in Traces, row'[u].status = "closed"
        PROVE  phase'[u] \in {"event", "done", "dead"}
    <3>1. phase[u] \in {"event", "done", "dead"} /\ u # t
      BY <1>3, <1>10, <2>2 DEF MemoryInv, ClosedRows, storeVars
    <3>2. u \notin C
      BY <1>5, <3>1
    <3> QED
      BY <1>8, <3>1, <3>2
  <2> QED
    BY <2>1, <2>2 DEF ClosedRows
<1>17. AssembledOnce'
  <2>1. ASSUME NEW u \in Traces, u # t, life[u] = crashes
        PROVE  members[u] \cap (members[t] \cup {s}) \subseteq forgotten
    <3>1. s \in members[u] => s \in forgotten
      BY <1>3, <2>1 DEF MemoryInv, LivingTraces
    <3>2. members[u] \cap members[t] \subseteq forgotten
      <4>1. CASE t = opened + 1
        BY <1>2, <4>1 DEF MemoryInv, FreshTraces
      <4>2. CASE t \in 1..opened /\ life[t] = crashes
        <5>1. members[u] = {} \/ u \in 1..opened
          BY <1>2 DEF MemoryInv, FreshTraces, Traces
        <5> QED
          BY <2>1, <4>2, <5>1 DEF MemoryInv, AssembledOnce
      <4> QED
        BY <1>2, <4>1, <4>2
    <3> QED
      BY <3>1, <3>2
  <2>2. ASSUME NEW u \in 1..opened', NEW v \in 1..opened', u # v, life'[u] = life'[v]
        PROVE  members'[u] \cap members'[v] \subseteq forgotten'
    <3>1. u \in Traces /\ v \in Traces
      BY <1>2 DEF Traces
    <3>2. CASE u = t
      BY <1>7, <1>8, <2>1, <2>2, <3>1, <3>2
    <3>3. CASE v = t
      BY <1>7, <1>8, <2>1, <2>2, <3>1, <3>3
    <3>4. CASE u # t /\ v # t
      BY <1>2, <1>7, <1>8, <2>2, <3>1, <3>4 DEF MemoryInv, AssembledOnce
    <3> QED
      BY <3>2, <3>3, <3>4
  <2>3. ASSUME NEW u \in 1..opened', members'[u] \cap forgotten' = {}
        PROVE  count'[u] = Cardinality(members'[u])
    <3>1. u \in Traces
      BY <1>2 DEF Traces
    <3>2. CASE u # t
      BY <1>2, <1>7, <1>8, <2>3, <3>1, <3>2 DEF MemoryInv, AssembledOnce
    <3>3. CASE u = t
      <4>1. members[t] \cap forgotten = {} /\ s \notin members[t]
        BY <1>3, <1>7, <1>8, <1>9, <2>3, <3>3
      <4>2. IsFiniteSet(members[t])
        BY <1>2, <1>6, FS_Subset
      <4>3. Cardinality(members[t] \cup {s}) = Cardinality(members[t]) + 1
        BY <4>1, <4>2, FS_AddElement
      <4>4. count[t] = Cardinality(members[t])
        <5>1. CASE t = opened + 1
          <6>1. members[t] = {} /\ count[t] = 0
            BY <1>2, <5>1 DEF MemoryInv, FreshTraces
          <6>2. Cardinality({}) = 0
            BY FS_EmptySet
          <6> QED
            BY <6>1, <6>2
        <5>2. CASE t \in 1..opened
          BY <4>1, <5>2 DEF MemoryInv, AssembledOnce
        <5> QED
          BY <1>2, <5>1, <5>2
      <4> QED
        BY <1>8, <3>3, <4>3, <4>4
    <3> QED
      BY <3>2, <3>3
  <2> QED
    BY <2>2, <2>3 DEF AssembledOnce
<1> QED
  BY <1>11, <1>12, <1>13, <1>14, <1>15, <1>16, <1>17 DEF MemoryInv

\* A step that leaves every variable alone keeps the invariant.
LEMMA StutterStep ==
    ASSUME MemoryInv, UNCHANGED vars
    PROVE  MemoryInv'
<1> USE DEF vars, streamVars, traceVars, closeVars, handlerVars, storeVars,
            faultVars, dedupVars, MemoryInv
<1>1. TypeOK'
  <2>1. StreamType'
    BY DEF TypeOK, StreamType
  <2>2. TraceType'
    BY DEF TypeOK, TraceType
  <2>3. HandlerType'
    BY DEF TypeOK, HandlerType
  <2>4. StoreType'
    BY DEF TypeOK, StoreType
  <2> QED
    BY <2>1, <2>2, <2>3, <2>4 DEF TypeOK
<1>2. WorkLeft' /\ SpanInHand' /\ SeenJoined' /\ OwnRows'
  BY DEF WorkLeft, SpanInHand, SeenJoined, OwnRows
<1>3. FreshTraces' /\ LivingTraces' /\ ClosedRows'
  BY DEF FreshTraces, LivingTraces, ClosedRows
<1>4. AssembledOnce'
  BY DEF AssembledOnce
<1> QED
  BY <1>1, <1>2, <1>3, <1>4

\* No step of the processor, of the store or of the collectors breaks it.
LEMMA MemoryStep == MemoryInv /\ [Next]_vars => MemoryInv'
<1> SUFFICES ASSUME MemoryInv, [Next]_vars PROVE MemoryInv'
  OBVIOUS
<1>1. CASE Tick BY <1>1, TickStep
<1>2. CASE Publish BY <1>2, PublishStep
<1>3. CASE Duplicate BY <1>3, DuplicateStep
<1>4. CASE HandleSpan BY <1>4, HandleSpanStep
<1>5. CASE InsertSpan BY <1>5, InsertStep
<1>6. CASE UpsertSummary BY <1>6, UpsertStep
<1>7. CASE Finish BY <1>7, FinishStep
<1>8. CASE InsertFails BY <1>8, InsertFailsStep
<1>9. CASE UpsertFails BY <1>9, UpsertFailsStep
<1>10. CASE Sweep BY <1>10, SweepStep
<1>11. CASE \E t \in Traces : Closer(t)
  <2>1. PICK t \in Traces : Closer(t)
    BY <1>11
  <2>2. CASE LabelSpan(t) BY <2>2, LabelSpanStep
  <2>3. CASE SaveTree(t) BY <2>3, SaveTreeStep
  <2>4. CASE CloseRow(t) BY <2>4, CloseRowStep
  <2>5. CASE CloseEvent(t) BY <2>5, CloseEventStep
  <2> QED
    BY <2>1, <2>2, <2>3, <2>4, <2>5 DEF Closer
<1>12. CASE Crash BY <1>12, CrashStep
<1>13. CASE UNCHANGED vars BY <1>13, StutterStep
<1> QED
  BY <1>1, <1>2, <1>3, <1>4, <1>5, <1>6, <1>7, <1>8, <1>9, <1>10, <1>11,
     <1>12, <1>13 DEF Next, Handler

-----------------------------------------------------------------------------
(* What is acked is durable.                                               *)

\* Steps that assemble nothing and ack nothing keep what is settled so, if the
\* store loses no payload and the handler stays where it was or goes on from
\* the insert with its payload stored.
LEMMA DurableFrame ==
    ASSUME InsertedFirst, SeenSettled, AckedIsDurable,
           UNCHANGED <<members, opened, seen, span, lost>>,
           Stored \subseteq Stored', Entries(queue) \subseteq Entries(queue)',
           \/ UNCHANGED pc
           \/ pc # "idle" /\ pc' # "idle" /\ span \in Stored'
    PROVE  InsertedFirst' /\ SeenSettled' /\ AckedIsDurable'
<1>1. InsertedFirst'
  BY DEF InsertedFirst
<1>2. SeenSettled'
  BY DEF SeenSettled, Entries
<1>3. AckedIsDurable'
  BY DEF AckedIsDurable
<1> QED
  BY <1>1, <1>2, <1>3

\* The handler acks its message once its span is stored, or counted as dropped.
LEMMA AckSettled ==
    ASSUME MemoryInv, SeenSettled, AckedIsDurable, pc # "idle",
           UNCHANGED <<members, opened, seen>>, NoCall, queue' = Tail(queue),
           Stored \subseteq Stored', lost \subseteq lost', span \in Stored' \cup lost'
    PROVE  InsertedFirst' /\ SeenSettled' /\ AckedIsDurable'
<1>1. pc' = "idle" /\ Entries(queue) = Entries(queue') \cup {span}
  BY HandlerFacts DEF NoCall
<1>2. SeenSettled'
  BY <1>1 DEF SeenSettled, Entries
<1>3. Entries(queue)' = Entries(queue')
  BY DEF Entries
<1>4. AckedIsDurable'
  BY <1>1, <1>3 DEF AckedIsDurable
<1> QED
  BY <1>1, <1>2, <1>4 DEF InsertedFirst

\* A span that joins a trace is in the message in hand, which is not acked.
LEMMA HandleSettled ==
    ASSUME MemoryInv, SeenSettled, AckedIsDurable, HandleSpan
    PROVE  InsertedFirst' /\ SeenSettled' /\ AckedIsDurable'
<1>1. PICK s, t : s = Head(queue) /\ t = TraceFor(s)
  OBVIOUS
<1>2. /\ s \in Spans /\ t \in Traces /\ opened \in Nat /\ opened' \in Nat
      /\ opened' \in 0..(MaxDeliveries + MaxCrashes)
      /\ \A u \in Traces : u \in 1..opened' => u \in 1..opened \/ u = t
      /\ t = opened + 1 \/ t \in 1..opened
  BY <1>1, AssembleFacts
<1>3. /\ pc = "idle" /\ queue # <<>> /\ queue \in Seq(Spans)
      /\ seen' = Remembered(s) /\ span' = s /\ pc' = "insert"
      /\ members' = [members EXCEPT ![t] = @ \cup {s}]
      /\ UNCHANGED <<queue, detailOf, lost>>
  BY <1>1 DEF HandleSpan, Assemble, streamVars, storeVars, MemoryInv, TypeOK, StreamType
<1>4. Entries(seen') \subseteq Entries(seen) \cup {s}
  BY <1>2, <1>3, RememberedFacts DEF MemoryInv, TypeOK, StreamType
<1>5. Stored' = Stored /\ Entries(queue)' = Entries(queue) /\ Entries(seen)' = Entries(seen')
  BY <1>3 DEF Stored, Entries
<1>6. SeenSettled'
  BY <1>3, <1>4, <1>5 DEF SeenSettled
<1>7. s \in Entries(queue)
  BY <1>1, <1>3, TailEntries
<1>8. AckedIsDurable'
  <2> SUFFICES ASSUME NEW u \in 1..opened'
               PROVE  members'[u] \subseteq (Stored \cup lost \cup Entries(queue))
    BY <1>3, <1>5 DEF AckedIsDurable
  <2>1. u \in Traces /\ (u \in 1..opened \/ u = t)
    BY <1>2 DEF Traces
  <2>2. members[u] \subseteq Stored \cup lost \cup Entries(queue)
    BY <1>2, <2>1 DEF MemoryInv, FreshTraces, AckedIsDurable
  <2>3. members'[u] \subseteq members[u] \cup {s}
    BY <1>3, <2>1 DEF MemoryInv, TypeOK, TraceType
  <2> QED
    BY <1>7, <2>2, <2>3
<1> QED
  BY <1>3, <1>6, <1>8 DEF InsertedFirst

\* No step acks a span that is neither stored nor counted as dropped.
LEMMA DurableStep ==
    ASSUME MemoryInv, InsertedFirst, SeenSettled, AckedIsDurable, [Next]_vars
    PROVE  InsertedFirst' /\ SeenSettled' /\ AckedIsDurable'
<1>1. ASSUME UNCHANGED <<members, opened, seen, span, lost, detailOf, queue>>,
             pc' = pc \/ (pc = "upsert" /\ pc' \in {"upsert", "finish"})
      PROVE  InsertedFirst' /\ SeenSettled' /\ AckedIsDurable'
  BY <1>1, DurableFrame DEF InsertedFirst, Stored, Entries
<1>2. CASE Tick
  BY <1>1, <1>2 DEF Tick, traceVars, dedupVars, handlerVars, storeVars
<1>3. CASE Publish
  <2>1. PICK s \in Spans : queue' = Append(queue, s)
    BY <1>3 DEF Publish
  <2>2. Entries(queue') = Entries(queue) \cup {s}
    BY <2>1, AppendEntries DEF MemoryInv, TypeOK, StreamType
  <2>3. Entries(queue) \subseteq Entries(queue)'
    BY <2>2 DEF Entries
  <2> QED
    BY <1>3, <2>3, DurableFrame DEF Publish, traceVars, dedupVars, handlerVars, storeVars, Stored
<1>4. CASE Duplicate
  <2>1. /\ pc = "idle" /\ queue # <<>> /\ queue' = Tail(queue)
        /\ Head(queue) \in Entries(seen)
        /\ UNCHANGED <<members, opened, seen, lost, detailOf, pc>>
    BY <1>4 DEF Duplicate, traceVars, dedupVars, handlerVars, storeVars
  <2>2. Entries(queue) = Entries(queue') \cup {Head(queue)}
    BY <2>1, TailEntries DEF MemoryInv, TypeOK, StreamType
  <2>3. Head(queue) \in Stored \cup lost
    BY <2>1 DEF SeenSettled
  <2>4. Stored' = Stored /\ Entries(seen)' = Entries(seen) /\ Entries(queue)' = Entries(queue')
    BY <2>1 DEF Stored, Entries
  <2>5. SeenSettled' /\ AckedIsDurable'
    BY <2>1, <2>2, <2>3, <2>4 DEF SeenSettled, AckedIsDurable
  <2> QED
    BY <2>1, <2>5 DEF InsertedFirst
<1>5. CASE HandleSpan
  BY <1>5, HandleSettled
<1>6. CASE InsertSpan
  <2>1. /\ pc = "insert" /\ pc' # "idle"
        /\ UNCHANGED <<members, opened, seen, span, lost, queue>>
    BY <1>6 DEF InsertSpan, Upserts, traceVars, dedupVars, streamVars
  <2>2. Stored' = Stored \cup {span}
    BY <1>6, <2>1, StoreDetailsFacts DEF InsertSpan, MemoryInv
  <2>3. Entries(queue) \subseteq Entries(queue)'
    BY <2>1 DEF Entries
  <2> QED
    BY <2>1, <2>2, <2>3, DurableFrame
<1>7. CASE UpsertSummary
  BY <1>1, <1>7 DEF UpsertSummary, traceVars, dedupVars, streamVars
<1>8. CASE Finish
  <2>1. /\ pc = "finish" /\ NoCall /\ queue' = Tail(queue)
        /\ UNCHANGED <<members, opened, seen, lost, detailOf>>
    BY <1>8 DEF Finish, Return, traceVars, dedupVars, storeVars
  <2>2. Stored' = Stored /\ span \in Stored'
    BY <2>1 DEF Stored, InsertedFirst
  <2> QED
    BY <2>1, <2>2, AckSettled
<1>9. CASE InsertFails
  <2>1. pc = "insert" /\ UNCHANGED <<members, opened, seen>>
    BY <1>9 DEF InsertFails, traceVars, dedupVars
  <2>2. Stored \subseteq Stored'
    <3>1. CASE StoreDetails
      BY <2>1, <3>1, StoreDetailsFacts DEF MemoryInv
    <3>2. CASE UNCHANGED <<detailOf, labelOf>>
      BY <3>2 DEF Stored
    <3> QED
      BY <1>9, <3>1, <3>2 DEF InsertFails
  <2>3. CASE Exhausted
    <3>1. NoCall /\ queue' = Tail(queue) /\ lost' = lost \cup {span}
      BY <1>9, <2>3 DEF InsertFails, Return, GivenUp
    <3> QED
      BY <2>1, <2>2, <3>1, AckSettled
  <2>4. CASE ~Exhausted
    <3>1. UNCHANGED <<pc, span, lost, queue>>
      BY <1>9, <2>4 DEF InsertFails
    <3>2. Entries(queue) \subseteq Entries(queue)'
      BY <3>1 DEF Entries
    <3> QED
      BY <2>1, <2>2, <3>1, <3>2, DurableFrame
  <2> QED
    BY <2>3, <2>4
<1>10. CASE UpsertFails
  BY <1>1, <1>10 DEF UpsertFails, traceVars, dedupVars, streamVars
<1>11. CASE Sweep
  BY <1>1, <1>11 DEF Sweep, dedupVars, streamVars, handlerVars, storeVars
<1>12. CASE \E t \in Traces : Closer(t)
  <2>1. PICK t \in Traces : Closer(t)
    BY <1>12
  <2>2. UNCHANGED <<streamVars, traceVars, handlerVars, dedupVars, detailOf, lost>>
    BY <2>1 DEF Closer, LabelSpan, SaveTree, CloseRow, CloseEvent, storeVars
  <2> QED
    BY <1>1, <2>2 DEF streamVars, traceVars, handlerVars, dedupVars
<1>13. CASE Crash
  <2>1. /\ seen' = <<>> /\ pc' = "idle"
        /\ UNCHANGED <<members, opened, lost, detailOf>>
        /\ queue' \in Reordered(queue) /\ queue \in Seq(Spans)
    BY <1>1, <1>13 DEF Crash, NoCall, storeVars, MemoryInv, TypeOK, StreamType
  <2>2. Entries(seen') = {} /\ Stored' = Stored
    BY <2>1, EmptySeq DEF Entries, Stored
  <2>3. Entries(queue') = Entries(queue)
    BY <2>1, ReorderedSame
  <2> QED
    BY <2>1, <2>2, <2>3 DEF InsertedFirst, SeenSettled, AckedIsDurable
<1>14. CASE UNCHANGED vars
  BY <1>1, <1>14 DEF vars, traceVars, dedupVars, streamVars, handlerVars, storeVars
<1> QED
  BY <1>2, <1>3, <1>4, <1>5, <1>6, <1>7, <1>8, <1>9, <1>10, <1>11, <1>12,
     <1>13, <1>14 DEF Next, Handler

-----------------------------------------------------------------------------
(* Closing: the row says closed after the labels and the tree.             *)

\* The handler's steps past the lock change the rows of its own trace only, and
\* only to a running row with the current count; labels are added, never taken
\* away.
LEMMA ClosingFrame ==
    ASSUME ClosingTraces, ClosedIsComplete,
           UNCHANGED <<members, count, phase, unlabelled, tree>>,
           blip \subseteq blip',
           \A s \in Spans : labelOf[s] # 0 => labelOf'[s] # 0,
           members \in [Traces -> SUBSET Spans],
           \A t \in Traces :
              \/ row'[t] = row[t]
              \/ row'[t].status = "running" /\ row'[t].count = count[t],
           \A t \in Traces : shown'[t] = shown[t] \/ shown'[t] = "running"
    PROVE  ClosingTraces' /\ ClosedIsComplete'
<1>1. \A t \in Traces : shown'[t] = "closed" => shown[t] = "closed"
  OBVIOUS
<1>2. \A t \in Traces : row'[t].status = "closed" => row[t].status = "closed"
  OBVIOUS
<1>3. \A t \in Traces : row[t].status # "none" /\ row[t].count = count[t]
                        => row'[t].status # "none" /\ row'[t].count = count[t]
  OBVIOUS
<1>4. \A t \in Traces : \A s \in members[t] : labelOf[s] # 0 => labelOf'[s] # 0
  OBVIOUS
<1>5. \A t \in Traces \ blip' : t \notin blip
  OBVIOUS
<1>6. ClosingTraces'
  BY <1>1, <1>3, <1>4, <1>5 DEF ClosingTraces
<1>7. ClosedIsComplete'
  BY <1>1, <1>2, <1>3, <1>4, <1>5 DEF ClosedIsComplete
<1> QED
  BY <1>6, <1>7

\* Labels once there stay, wherever the handler is with the details.
LEMMA LabelsStay ==
    ASSUME TypeOK, pc # "idle", StoreDetails \/ UNCHANGED <<detailOf, labelOf>>
    PROVE  \A s \in Spans : labelOf[s] # 0 => labelOf'[s] # 0
<1>1. trace # 0 /\ labelOf \in [Spans -> 0..opened]
  BY DEF TypeOK, HandlerType, TraceType, StoreType
<1>2. labelOf' = [labelOf EXCEPT ![span] = Owner(@, trace)] \/ labelOf' = labelOf
  BY DEF StoreDetails
<1> QED
  BY <1>1, <1>2 DEF Owner

\* The trace a span joins has no closed row and no closed event yet, and its
\* goroutine, or that of the trace it closes, has everything still to do.
LEMMA HandleClosing ==
    ASSUME MemoryInv, ClosingTraces, ClosedIsComplete, HandleSpan
    PROVE  ClosingTraces' /\ ClosedIsComplete'
<1>1. PICK s, t : s = Head(queue) /\ t = TraceFor(s)
  OBVIOUS
<1> DEFINE C == ClosedBy(s, t)
<1>2. /\ s \in Spans /\ t \in Traces /\ opened \in Nat
      /\ t = opened + 1 \/ phase[t] = "open"
      /\ \A u \in C : u = t \/ phase[u] = "open"
  BY <1>1, AssembleFacts
<1> HIDE DEF C
<1>3. /\ members' = [members EXCEPT ![t] = @ \cup {s}]
      /\ count' = [count EXCEPT ![t] = @ + 1]
      /\ phase' = [u \in Traces |-> IF u \in C THEN "labels"
                                    ELSE IF u = t THEN "open" ELSE phase[u]]
      /\ unlabelled' = [u \in Traces |-> IF u \in C THEN members'[u] ELSE unlabelled[u]]
      /\ UNCHANGED <<row, labelOf, tree, shown, blip>>
  BY <1>1 DEF HandleSpan, Assemble, C, storeVars, faultVars
<1>4. /\ members \in [Traces -> SUBSET Spans] /\ count \in [Traces -> Nat]
  BY DEF MemoryInv, TypeOK, TraceType
<1>5. phase[t] = "open" \/ phase[t] = "new"
  BY <1>2 DEF MemoryInv, FreshTraces
<1>6. row[t].status # "closed" /\ shown[t] # "closed"
  BY <1>2, <1>5 DEF MemoryInv, ClosedRows, ClosingTraces
<1>7. \A u \in Traces : u # t => members'[u] = members[u] /\ count'[u] = count[u]
  BY <1>2, <1>3, <1>4
<1>8. \A u \in C : shown[u] # "closed"
  <2>1. \A u \in C : u \in Traces => phase[u] \in {"open", "new"}
    BY <1>2, <1>5
  <2>2. C \subseteq Traces
    BY <1>1, AssembleFacts DEF C, Traces
  <2> QED
    BY <2>1, <2>2 DEF ClosingTraces
<1>9. ASSUME NEW u \in Traces, u # t, u \notin C
      PROVE  phase'[u] = phase[u] /\ unlabelled'[u] = unlabelled[u]
  BY <1>3, <1>9
<1>10. \A u \in Traces : u \in C => phase'[u] = "labels" /\ unlabelled'[u] = members'[u]
  BY <1>3
<1>11. t \notin C => phase'[t] = "open"
  BY <1>2, <1>3
<1>12. ClosingTraces'
  <2>1. ASSUME NEW u \in Traces, shown'[u] = "closed" PROVE phase'[u] \in {"done", "dead"}
    BY <1>3, <1>6, <1>8, <1>9, <2>1 DEF ClosingTraces
  <2>2. ASSUME NEW u \in Traces \ blip'
        PROVE  /\ phase'[u] = "labels" =>
                     \A r \in members'[u] \ unlabelled'[u] : labelOf'[r] # 0
               /\ phase'[u] \in {"row", "event"} =>
                     /\ \A r \in members'[u] : labelOf'[r] # 0
                     /\ u \in tree'
               /\ phase'[u] = "event" => row'[u].status # "none" /\ row'[u].count = count'[u]
    <3>1. CASE u \in C
      BY <1>10, <3>1
    <3>2. CASE u = t /\ u \notin C
      BY <1>11, <3>2
    <3>3. CASE u # t /\ u \notin C
      BY <1>3, <1>7, <1>9, <3>3 DEF ClosingTraces
    <3> QED
      BY <3>1, <3>2, <3>3
  <2> QED
    BY <2>1, <2>2 DEF ClosingTraces
<1>13. ClosedIsComplete'
  BY <1>3, <1>6, <1>7 DEF ClosedIsComplete
<1> QED
  BY <1>12, <1>13

\* The sweep hands open traces over, with every label still to be written.
LEMMA SweepClosing ==
    ASSUME MemoryInv, ClosingTraces, ClosedIsComplete, Sweep
    PROVE  ClosingTraces' /\ ClosedIsComplete'
<1> DEFINE gone == {open[a] : a \in {b \in Agents : open[b] # 0 /\ Idle(open[b])}}
<1>1. /\ phase' = [t \in Traces |-> IF t \in gone THEN "labels" ELSE phase[t]]
      /\ unlabelled' = [t \in Traces |-> IF t \in gone THEN members[t] ELSE unlabelled[t]]
      /\ UNCHANGED <<members, count, row, labelOf, tree, shown, blip>>
  BY DEF Sweep, storeVars, faultVars
<1>2. \A t \in gone : phase[t] = "open"
  BY DEF MemoryInv, LivingTraces
<1> HIDE DEF gone
<1>3. \A t \in Traces : t \in gone => shown[t] # "closed"
  BY <1>2 DEF ClosingTraces
<1>4. ClosingTraces'
  BY <1>1, <1>3 DEF ClosingTraces
<1>5. ClosedIsComplete'
  BY <1>1 DEF ClosedIsComplete
<1> QED
  BY <1>4, <1>5

\* The goroutine of a trace takes its four steps in this order, and a failing
\* one is remembered.
LEMMA LabelSpanClosing ==
    ASSUME MemoryInv, ClosingTraces, ClosedIsComplete, NEW t \in Traces, LabelSpan(t)
    PROVE  ClosingTraces' /\ ClosedIsComplete'
<1>1. /\ phase[t] = "labels"
      /\ UNCHANGED <<phase, row, tree, shown, members, count>>
  BY DEF LabelSpan, traceVars
<1>2. PICK s \in unlabelled[t] :
         /\ unlabelled' = [unlabelled EXCEPT ![t] = @ \ {s}]
         /\ \/ labelOf' = [labelOf EXCEPT ![s] = Owner(@, t)] /\ UNCHANGED blip
            \/ /\ labelOf' = [labelOf EXCEPT ![s] = Owner(@, t)] \/ UNCHANGED labelOf
               /\ blip' = blip \cup {t}
  BY DEF LabelSpan, StoreFails, faultVars
<1>3. /\ unlabelled \in [Traces -> SUBSET Spans] /\ labelOf \in [Spans -> 0..opened]
      /\ members \in [Traces -> SUBSET Spans] /\ s \in Spans /\ t # 0
  <2>1. /\ unlabelled \in [Traces -> SUBSET Spans] /\ labelOf \in [Spans -> 0..opened]
        /\ members \in [Traces -> SUBSET Spans]
    BY DEF MemoryInv, TypeOK, TraceType, StoreType
  <2> QED
    BY <1>2, <2>1 DEF Traces
<1>4. \A r \in Spans : labelOf[r] # 0 => labelOf'[r] # 0
  BY <1>2, <1>3 DEF Owner
<1>5. blip \subseteq blip' /\ (t \notin blip' => labelOf'[s] # 0)
  BY <1>2, <1>3 DEF Owner
<1>6. /\ \A u \in Traces : u # t => unlabelled'[u] = unlabelled[u]
      /\ unlabelled'[t] = unlabelled[t] \ {s}
  BY <1>2, <1>3
<1>7. \A u \in Traces : \A r \in members[u] : labelOf[r] # 0 => labelOf'[r] # 0
  BY <1>3, <1>4
<1>8. ClosingTraces'
  BY <1>1, <1>5, <1>6, <1>7 DEF ClosingTraces
<1>9. ClosedIsComplete'
  BY <1>1, <1>5, <1>7 DEF ClosedIsComplete
<1> QED
  BY <1>8, <1>9

LEMMA SaveTreeClosing ==
    ASSUME MemoryInv, ClosingTraces, ClosedIsComplete, NEW t \in Traces, SaveTree(t)
    PROVE  ClosingTraces' /\ ClosedIsComplete'
<1>1. /\ phase[t] = "labels" /\ unlabelled[t] = {} /\ phase' = [phase EXCEPT ![t] = "row"]
      /\ UNCHANGED <<unlabelled, row, labelOf, shown, members, count>>
      /\ \/ tree' = tree \cup {t} /\ UNCHANGED blip
         \/ (tree' = tree \cup {t} \/ UNCHANGED tree) /\ blip' = blip \cup {t}
  BY DEF SaveTree, LabelsWritten, StoreFails, faultVars, traceVars
<1>2. phase \in [Traces -> Phases]
  BY DEF MemoryInv, TypeOK, TraceType
<1>3. /\ \A u \in Traces : u # t => phase'[u] = phase[u]
      /\ phase'[t] = "row"
  BY <1>1, <1>2
<1>4. tree \subseteq tree' /\ blip \subseteq blip' /\ (t \notin blip' => t \in tree')
  BY <1>1
<1>5. ClosingTraces'
  BY <1>1, <1>3, <1>4 DEF ClosingTraces
<1>6. ClosedIsComplete'
  BY <1>1, <1>4 DEF ClosedIsComplete
<1> QED
  BY <1>5, <1>6

LEMMA CloseRowClosing ==
    ASSUME MemoryInv, ClosingTraces, ClosedIsComplete, NEW t \in Traces, CloseRow(t)
    PROVE  ClosingTraces' /\ ClosedIsComplete'
<1>1. /\ phase[t] = "row"
      /\ UNCHANGED <<unlabelled, labelOf, tree, shown, members, count>>
      /\ \/ /\ row' = FinalRow(t) /\ phase' = [phase EXCEPT ![t] = "event"]
            /\ UNCHANGED blip
         \/ /\ row' = FinalRow(t) \/ UNCHANGED row
            /\ phase' = [phase EXCEPT ![t] = "done"]
            /\ blip' = blip \cup {t}
  BY DEF CloseRow, StoreFails, faultVars, traceVars
<1>2. /\ phase \in [Traces -> Phases]
      /\ row \in [Traces -> [status : Statuses, count : Nat]]
  BY DEF MemoryInv, TypeOK, TraceType, StoreType
<1>3. \A u \in Traces : u # t => phase'[u] = phase[u] /\ row'[u] = row[u]
  BY <1>1, <1>2 DEF FinalRow
<1>4. /\ blip \subseteq blip' /\ phase'[t] \in {"event", "done"}
      /\ t \notin blip' => /\ phase'[t] = "event" /\ t \notin blip
                           /\ row'[t] = [status |-> "closed", count |-> count[t]]
  BY <1>1, <1>2 DEF FinalRow
<1>5. shown[t] # "closed"
  BY <1>1 DEF ClosingTraces
<1>6. t \notin blip' => t \in tree /\ \A s \in members[t] : labelOf[s] # 0
  BY <1>1, <1>4 DEF ClosingTraces
<1>7. ClosingTraces'
  <2>1. \A u \in Traces : shown'[u] = "closed" => phase'[u] \in {"done", "dead"}
    BY <1>1, <1>3, <1>5 DEF ClosingTraces
  <2>2. ASSUME NEW u \in Traces \ blip'
        PROVE  /\ phase'[u] = "labels" =>
                     \A r \in members'[u] \ unlabelled'[u] : labelOf'[r] # 0
               /\ phase'[u] \in {"row", "event"} =>
                     /\ \A r \in members'[u] : labelOf'[r] # 0
                     /\ u \in tree'
               /\ phase'[u] = "event" => row'[u].status # "none" /\ row'[u].count = count'[u]
    <3>1. CASE u = t
      BY <1>1, <1>4, <1>6, <3>1
    <3>2. CASE u # t
      BY <1>1, <1>3, <1>4, <3>2 DEF ClosingTraces
    <3> QED
      BY <3>1, <3>2
  <2> QED
    BY <2>1, <2>2 DEF ClosingTraces
<1>8. ClosedIsComplete'
  <2> SUFFICES ASSUME NEW u \in Traces \ blip',
                      row'[u].status = "closed" \/ shown'[u] = "closed"
               PROVE  /\ \A s \in members'[u] : labelOf'[s] # 0
                      /\ u \in tree'
                      /\ row'[u].status # "none" /\ row'[u].count = count'[u]
    BY DEF ClosedIsComplete
  <2>1. CASE u = t
    BY <1>1, <1>4, <1>6, <2>1
  <2>2. CASE u # t
    BY <1>1, <1>3, <1>4, <2>2 DEF ClosedIsComplete
  <2> QED
    BY <2>1, <2>2
<1> QED
  BY <1>7, <1>8

LEMMA CloseEventClosing ==
    ASSUME MemoryInv, ClosingTraces, ClosedIsComplete, NEW t \in Traces, CloseEvent(t)
    PROVE  ClosingTraces' /\ ClosedIsComplete'
<1>1. /\ phase[t] = "event" /\ phase' = [phase EXCEPT ![t] = "done"]
      /\ shown' = [shown EXCEPT ![t] = "closed"]
      /\ UNCHANGED <<unlabelled, row, labelOf, tree, members, count, blip>>
  BY DEF CloseEvent, storeVars, faultVars, traceVars
<1>2. phase \in [Traces -> Phases] /\ shown \in [Traces -> Statuses]
  BY DEF MemoryInv, TypeOK, TraceType, StoreType
<1>3. /\ \A u \in Traces : u # t => phase'[u] = phase[u] /\ shown'[u] = shown[u]
      /\ phase'[t] = "done"
  BY <1>1, <1>2
<1>4. ClosingTraces'
  BY <1>1, <1>3 DEF ClosingTraces
<1>5. ClosedIsComplete'
  BY <1>1, <1>3 DEF ClosingTraces, ClosedIsComplete
<1> QED
  BY <1>4, <1>5

\* No step shows a trace as closed before all of it is there.
LEMMA ClosingStep ==
    ASSUME MemoryInv, ClosingTraces, ClosedIsComplete, [Next]_vars
    PROVE  ClosingTraces' /\ ClosedIsComplete'
<1> USE DEF traceVars, closeVars
<1>1. members \in [Traces -> SUBSET Spans]
  BY DEF MemoryInv, TypeOK, TraceType
<1>2. ASSUME UNCHANGED <<members, count, phase, unlabelled, tree, row, shown, labelOf, blip>>
      PROVE  ClosingTraces' /\ ClosedIsComplete'
  BY <1>1, <1>2, ClosingFrame
<1>3. ASSUME pc = "upsert", UNCHANGED <<members, count, phase, unlabelled, tree, shown, labelOf>>,
             blip \subseteq blip',
             \/ row' = [row EXCEPT ![trace] = [status |-> "running", count |-> copy]]
             \/ UNCHANGED row
      PROVE  ClosingTraces' /\ ClosedIsComplete'
  <2>1. copy = count[trace] /\ row \in [Traces -> [status : Statuses, count : Nat]]
    BY <1>3 DEF MemoryInv, SpanInHand, TypeOK, StoreType
  <2>2. \A t \in Traces : \/ row'[t] = row[t]
                          \/ row'[t].status = "running" /\ row'[t].count = count[t]
    BY <1>3, <2>1
  <2> QED
    BY <1>1, <1>3, <2>2, ClosingFrame
<1>4. CASE Tick
  BY <1>2, <1>4 DEF Tick, storeVars, faultVars
<1>5. CASE Publish
  BY <1>2, <1>5 DEF Publish, storeVars, faultVars
<1>6. CASE Duplicate
  BY <1>2, <1>6 DEF Duplicate, storeVars, faultVars
<1>7. CASE HandleSpan
  BY <1>7, HandleClosing
<1>8. CASE InsertSpan
  <2>1. /\ UNCHANGED <<members, count, phase, unlabelled, tree, row, shown, blip>>
        /\ pc = "insert" /\ StoreDetails
    BY <1>8 DEF InsertSpan, faultVars
  <2>2. \A s \in Spans : labelOf[s] # 0 => labelOf'[s] # 0
    BY <2>1, LabelsStay DEF MemoryInv
  <2> QED
    BY <1>1, <2>1, <2>2, ClosingFrame
<1>9. CASE UpsertSummary
  <2>1. /\ pc = "upsert" /\ UNCHANGED <<members, count, phase, unlabelled, tree, shown, labelOf, blip>>
        /\ row' = [row EXCEPT ![trace] = [status |-> "running", count |-> copy]]
    BY <1>9 DEF UpsertSummary, faultVars
  <2> QED
    BY <1>3, <2>1
<1>10. CASE Finish
  <2>1. /\ UNCHANGED <<members, count, phase, unlabelled, tree, row, labelOf, blip>>
        /\ shown' = IF Upserts(span) THEN [shown EXCEPT ![trace] = "running"] ELSE shown
    BY <1>10 DEF Finish, storeVars, faultVars
  <2>2. \A t \in Traces : shown'[t] = shown[t] \/ shown'[t] = "running"
    BY <2>1 DEF MemoryInv, TypeOK, StoreType
  <2> QED
    BY <1>1, <2>1, <2>2, ClosingFrame
<1>11. CASE InsertFails
  <2>1. /\ UNCHANGED <<members, count, phase, unlabelled, tree, row, shown>>
        /\ pc = "insert" /\ (StoreDetails \/ UNCHANGED <<detailOf, labelOf>>)
        /\ blip \subseteq blip'
    BY <1>11 DEF InsertFails, StoreFails
  <2>2. \A s \in Spans : labelOf[s] # 0 => labelOf'[s] # 0
    BY <2>1, LabelsStay DEF MemoryInv
  <2> QED
    BY <1>1, <2>1, <2>2, ClosingFrame
<1>12. CASE UpsertFails
  <2>1. /\ pc = "upsert" /\ UNCHANGED <<members, count, phase, unlabelled, tree, shown, labelOf>>
        /\ blip \subseteq blip'
        /\ \/ row' = [row EXCEPT ![trace] = [status |-> "running", count |-> copy]]
           \/ UNCHANGED row
    BY <1>12 DEF UpsertFails, StoreFails
  <2> QED
    BY <1>3, <2>1
<1>13. CASE Sweep
  BY <1>13, SweepClosing
<1>14. CASE \E t \in Traces : Closer(t)
  BY <1>14, LabelSpanClosing, SaveTreeClosing, CloseRowClosing, CloseEventClosing DEF Closer
<1>15. CASE Crash
  <2>1. /\ phase' = [t \in Traces |-> IF phase[t] = "new" \/ phase[t] = "done"
                                      THEN phase[t] ELSE "dead"]
        /\ UNCHANGED <<members, count, row, labelOf, tree, shown, blip>>
    BY <1>15 DEF Crash, storeVars
  <2>2. ClosingTraces'
    BY <2>1 DEF ClosingTraces
  <2>3. ClosedIsComplete'
    BY <2>1 DEF ClosedIsComplete
  <2> QED
    BY <2>2, <2>3
<1>16. CASE UNCHANGED vars
  BY <1>2, <1>16 DEF vars, storeVars, faultVars
<1> QED
  BY <1>4, <1>5, <1>6, <1>7, <1>8, <1>9, <1>10, <1>11, <1>12, <1>13, <1>14,
     <1>15, <1>16 DEF Next, Handler

\* A row that goes from closed back to running belongs to a trace the sweep
\* closed while handleSpan had still to write its running row.
LEMMA ReopenStep ==
    ASSUME MemoryInv, [Next]_vars, NEW t \in Traces, Reopens(t)
    PROVE  t \in swept
<1>1. row'[t] # row[t] /\ row[t].status = "closed" /\ row'[t].status = "running"
  BY DEF Reopens
<1>2. pc = "upsert" => (t = trace => t \in swept)
  <2>1. pc = "upsert" => phase[trace] = "open" \/ trace \in swept
    BY DEF MemoryInv, SpanInHand, ClosedRows
  <2>2. phase[t] \in {"event", "done", "dead"}
    BY <1>1 DEF MemoryInv, ClosedRows
  <2> QED
    BY <2>1, <2>2
<1>3. row \in [Traces -> [status : Statuses, count : Nat]]
  BY DEF MemoryInv, TypeOK, StoreType
<1>4. CASE pc = "upsert" /\ (\/ row' = [row EXCEPT ![trace] = [status |-> "running", count |-> copy]]
                             \/ UNCHANGED row)
  BY <1>1, <1>2, <1>3, <1>4
<1>5. CASE \E u \in Traces : row' = FinalRow(u)
  <2>1. PICK u \in Traces : row' = [row EXCEPT ![u] = [status |-> "closed", count |-> count[u]]]
    BY <1>5 DEF FinalRow
  <2>2. row'[t] = row[t] \/ row'[t].status = "closed"
    BY <1>3, <2>1
  <2> QED
    BY <1>1, <2>2
<1>6. \/ UNCHANGED row
      \/ UpsertSummary \/ UpsertFails
      \/ \E u \in Traces : CloseRow(u)
  BY DEF Next, Handler, Closer, Tick, Publish, Duplicate, HandleSpan, InsertSpan,
         InsertFails, Finish, Sweep, LabelSpan, SaveTree, CloseEvent, Crash, vars, storeVars
<1>7. CASE UpsertSummary BY <1>4, <1>7 DEF UpsertSummary
<1>8. CASE UpsertFails BY <1>4, <1>8 DEF UpsertFails
<1>9. CASE \E u \in Traces : CloseRow(u)
  <2>1. UNCHANGED row \/ \E u \in Traces : row' = FinalRow(u)
    BY <1>9 DEF CloseRow
  <2> QED
    BY <1>1, <1>5, <2>1
<1> QED
  BY <1>1, <1>6, <1>7, <1>8, <1>9

-----------------------------------------------------------------------------
(* The invariant is inductive, and what follows from it.                   *)

LEMMA InvInit == Init => AssemblyInv
<1> SUFFICES ASSUME Init PROVE AssemblyInv
  OBVIOUS
<1>1. InsertedFirst /\ SeenSettled /\ AckedIsDurable
  BY EmptySeq DEF Init, InsertedFirst, SeenSettled, AckedIsDurable, Entries
<1>2. ClosingTraces /\ ClosedIsComplete
  BY DEF Init, ClosingTraces, ClosedIsComplete, NoRow
<1> QED
  BY <1>1, <1>2, MemoryInit DEF AssemblyInv

LEMMA InvStep == AssemblyInv /\ [Next]_vars => AssemblyInv'
BY MemoryStep, DurableStep, ClosingStep DEF AssemblyInv

\* The processor's inductive invariant holds in every reachable state, for any
\* spans, agents, dedup size, retry limit and number of failures and crashes.
THEOREM Assembly == Spec => []AssemblyInv
BY InvInit, InvStep, PTL DEF Spec

\* Every variable of the processor keeps to its type; among other things no
\* store call is tried more often than retryStore allows.
THEOREM ProcessorTyping == Spec => []TypeOK
<1>1. AssemblyInv => TypeOK
  BY DEF AssemblyInv, MemoryInv
<1> QED
  BY <1>1, Assembly, PTL

\* A span whose message the processor acked is stored or was counted as
\* dropped, across crashes, redeliveries and duplicates.
THEOREM AckedSpansAreDurable == Spec => []AckedIsDurable
<1>1. AssemblyInv => AckedIsDurable
  BY DEF AssemblyInv
<1> QED
  BY <1>1, Assembly, PTL

\* Within one life of the process a duplicate message is assembled into no
\* second trace and counted no second time, unless the bounded dedup memory
\* had let go of its span.
THEOREM DuplicatesHaveNoEffect == Spec => []AssembledOnce
<1>1. AssemblyInv => AssembledOnce
  BY DEF AssemblyInv, MemoryInv
<1> QED
  BY <1>1, Assembly, PTL

\* A summary row, or a live event, says closed only when the labels of all the
\* trace's spans, its tree and its final count are in the store, unless a store
\* call about the trace failed: whatever the sweep, the handler and the
\* goroutine of closeLocked do between each other's statements.
THEOREM ClosedRowsAreComplete == Spec => []ClosedIsComplete
<1>1. AssemblyInv => ClosedIsComplete
  BY DEF AssemblyInv
<1> QED
  BY <1>1, Assembly, PTL

\* An acked span's payload is under the trace of this life that counted it, or
\* under one of another life: it was written for a trace that has the span, and
\* no two traces of one life have it.
LEMMA DetailsPlaced == AssemblyInv => DetailsUnderTheirTrace
<1> SUFFICES ASSUME AssemblyInv, NEW t \in 1..opened,
                    NEW s \in members[t] \ (lost \cup forgotten), s \notin Entries(queue),
                    detailOf[s] # t
             PROVE  detailOf[s] # 0 /\ life[detailOf[s]] # life[t]
  BY DEF DetailsUnderTheirTrace
<1> DEFINE d == detailOf[s]
<1>1. s \in Stored
  BY DEF AssemblyInv, AckedIsDurable
<1>2. s \in Spans /\ d # 0
  BY <1>1 DEF Stored
<1>3. d \in 1..opened
  BY <1>2 DEF AssemblyInv, MemoryInv, TypeOK, StoreType, TraceType
<1>4. s \in members[d]
  BY <1>2 DEF AssemblyInv, MemoryInv, OwnRows
<1>5. life[d] = life[t] => s \in forgotten
  BY <1>3, <1>4 DEF AssemblyInv, MemoryInv, AssembledOnce
<1> QED
  BY <1>2, <1>5

\* A crash between the store and the ack is the only thing that puts the
\* payload of a span under a trace other than the one that counts it.
THEOREM DetailsStayWithTheirTrace == Spec => []DetailsUnderTheirTrace
BY Assembly, DetailsPlaced, PTL

\* Only a trace the idle sweep closed can have its closed summary row made
\* running again by the handler.
THEOREM OnlySweptReopens == Spec => OnlySweptReopen
<1>1. AssemblyInv /\ [Next]_vars => [\A t \in Traces : Reopens(t) => t \in swept]_vars
  BY ReopenStep DEF AssemblyInv
<1> QED
  BY <1>1, Assembly, PTL DEF Spec, OnlySweptReopen
=============================================================================
