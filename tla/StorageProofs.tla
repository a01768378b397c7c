---------------------------- MODULE StorageProofs ----------------------------
(***************************************************************************)
(* Proofs about Storage: what the retention goroutine and a reader find,   *)
(* whatever the processor is doing beside them, for any agents, spans,     *)
(* times and limits, and any number of failures and crashes.               *)
(***************************************************************************)
EXTENDS Storage, ProcessorProofs

USE SpanAssumption, LimitAssumption, KeepAssumption

-----------------------------------------------------------------------------
(* What a step of the processor does to the rows.                          *)

\* A trace that was handed out is in the range of every per-trace variable, and
\* has no row before that.
LEMMA HandedOut ==
    ASSUME MemoryInv
    PROVE  /\ opened \in Nat /\ 1..opened \subseteq Traces
           /\ \A t \in Traces : t > 0 /\ t \in Nat /\ (t \in 1..opened \/ t > opened)
           /\ \A t \in Traces : HasRow(t) => t \in 1..opened
<1>1. opened \in Nat /\ 1..opened \subseteq Traces
  BY DEF MemoryInv, TypeOK, TraceType, Traces
<1>2. \A t \in Traces : t > 0 /\ t \in Nat /\ (t \in 1..opened \/ t > opened)
  BY <1>1 DEF Traces
<1> QED
  BY <1>1, <1>2 DEF MemoryInv, FreshTraces, HasRow

\* Traces keep their start and their life and only gain spans.
LEMMA TracesGrow ==
    ASSUME MemoryInv, Next
    PROVE  /\ opened' \in Nat /\ opened <= opened'
           /\ forgotten \subseteq forgotten'
           /\ \A t \in 1..opened : /\ start'[t] = start[t] /\ life'[t] = life[t]
                                   /\ members[t] \subseteq members'[t]
                                   /\ life[t] # crashes => life[t] # crashes'
<1>1. /\ opened \in Nat /\ crashes \in Nat /\ forgotten \subseteq Spans
      /\ start \in [Traces -> Nat] /\ life \in [Traces -> 0..MaxCrashes]
      /\ members \in [Traces -> SUBSET Spans] /\ 1..opened \subseteq Traces
  BY HandedOut DEF MemoryInv, TypeOK, HandlerType, TraceType, StreamType
<1>2. ASSUME UNCHANGED <<opened, forgotten, start, life, members, crashes>>
      PROVE  /\ opened' \in Nat /\ opened <= opened' /\ forgotten \subseteq forgotten'
             /\ \A t \in 1..opened : /\ start'[t] = start[t] /\ life'[t] = life[t]
                                     /\ members[t] \subseteq members'[t]
                                     /\ life[t] # crashes => life[t] # crashes'
  BY <1>1, <1>2
<1>3. CASE HandleSpan
  <2>1. PICK s, t : s = Head(queue) /\ t = TraceFor(s)
    OBVIOUS
  <2>2. /\ t \in Traces /\ opened' \in Nat /\ opened <= opened'
        /\ t = opened + 1 \/ life[t] = crashes
    BY <1>3, <2>1, AssembleFacts
  <2>3. /\ members' = [members EXCEPT ![t] = @ \cup {s}]
        /\ start' = [start EXCEPT ![t] = IF t = opened + 1 THEN StartOf[s] ELSE @]
        /\ life' = [life EXCEPT ![t] = crashes]
        /\ forgotten' = forgotten \cup Forgotten /\ crashes' = crashes
    BY <1>3, <2>1 DEF HandleSpan, Assemble, faultVars
  <2>4. \A u \in 1..opened : start'[u] = start[u]
    BY <1>1, <2>2, <2>3
  <2>5. \A u \in 1..opened : life'[u] = life[u]
    BY <1>1, <2>2, <2>3
  <2>6. \A u \in 1..opened : members[u] \subseteq members'[u]
    BY <1>1, <2>2, <2>3
  <2> QED
    BY <2>2, <2>3, <2>4, <2>5, <2>6
<1>4. CASE Crash
  <2>1. /\ crashes' = crashes + 1
        /\ UNCHANGED <<opened, forgotten, start, life, members>>
    BY <1>4 DEF Crash
  <2>2. \A t \in 1..opened : life[t] <= crashes /\ life[t] \in Nat
    BY <1>1 DEF MemoryInv, LivingTraces
  <2>3. \A t \in 1..opened : life[t] # crashes'
    BY <1>1, <2>1, <2>2
  <2> QED
    BY <1>1, <2>1, <2>3
<1>5. CASE Sweep
  BY <1>2, <1>5 DEF Sweep, dedupVars, faultVars
<1>6. CASE \E t \in Traces : Closer(t)
  <2>1. PICK t \in Traces : Closer(t)
    BY <1>6
  <2>2. UNCHANGED <<traceVars, dedupVars, crashes>>
    BY <2>1 DEF Closer, LabelSpan, SaveTree, CloseRow, CloseEvent, StoreFails, faultVars
  <2> QED
    BY <1>2, <2>2 DEF traceVars, dedupVars
<1>7. CASE Tick \/ Publish \/ Duplicate \/ InsertSpan \/ UpsertSummary \/ Finish
  <2>1. UNCHANGED <<traceVars, dedupVars, faultVars>>
    BY <1>7 DEF Tick, Publish, Duplicate, InsertSpan, UpsertSummary, Finish
  <2> QED
    BY <1>2, <2>1 DEF traceVars, dedupVars, faultVars
<1>8. CASE InsertFails \/ UpsertFails
  <2>1. UNCHANGED <<traceVars, dedupVars, crashes>>
    BY <1>8 DEF InsertFails, UpsertFails, StoreFails
  <2> QED
    BY <1>2, <2>1 DEF traceVars, dedupVars
<1> QED
  BY <1>3, <1>4, <1>5, <1>6, <1>7, <1>8 DEF Next, Handler

\* The processor takes no row away: a row stays, and what it says of whose it is.
LEMMA RowsStay ==
    ASSUME MemoryInv, Next
    PROVE  /\ blip \subseteq blip' /\ tree \subseteq tree'
           /\ \A s \in Spans : /\ detailOf[s] # 0 => detailOf'[s] = detailOf[s]
                               /\ labelOf[s] # 0 => labelOf'[s] = labelOf[s]
           /\ \A t \in Traces : HasRow(t) => HasRow(t)'
           /\ \A t \in Traces : t > opened => row'[t] = row[t]
<1>1. /\ row \in [Traces -> [status : Statuses, count : Nat]]
      /\ detailOf \in [Spans -> 0..opened] /\ labelOf \in [Spans -> 0..opened]
  BY DEF MemoryInv, TypeOK, StoreType
<1>2. ASSUME blip \subseteq blip', UNCHANGED storeVars
      PROVE  /\ tree \subseteq tree'
             /\ \A s \in Spans : /\ detailOf[s] # 0 => detailOf'[s] = detailOf[s]
                                 /\ labelOf[s] # 0 => labelOf'[s] = labelOf[s]
             /\ \A t \in Traces : HasRow(t) => HasRow(t)'
             /\ \A t \in Traces : t > opened => row'[t] = row[t]
  BY <1>2 DEF storeVars, HasRow
<1>3. CASE Tick \/ Publish \/ Duplicate \/ HandleSpan \/ Finish \/ Sweep \/ Crash
  <2>1. UNCHANGED storeVars /\ UNCHANGED blip
    BY <1>3 DEF Tick, Publish, Duplicate, HandleSpan, Finish, Sweep, Crash, faultVars
  <2> QED
    BY <1>2, <2>1
<1>4. ASSUME pc # "idle", StoreDetails \/ UNCHANGED <<detailOf, labelOf>>,
             UNCHANGED <<row, tree>>
      PROVE  /\ tree \subseteq tree'
             /\ \A s \in Spans : /\ detailOf[s] # 0 => detailOf'[s] = detailOf[s]
                                 /\ labelOf[s] # 0 => labelOf'[s] = labelOf[s]
             /\ \A t \in Traces : HasRow(t) => HasRow(t)'
             /\ \A t \in Traces : t > opened => row'[t] = row[t]
  <2>1. /\ detailOf' = [detailOf EXCEPT ![span] = Owner(@, trace)] \/ detailOf' = detailOf
        /\ labelOf' = [labelOf EXCEPT ![span] = Owner(@, trace)] \/ labelOf' = labelOf
    BY <1>4 DEF StoreDetails
  <2> QED
    BY <1>1, <1>4, <2>1 DEF Owner, HasRow
<1>5. CASE InsertSpan
  BY <1>4, <1>5 DEF InsertSpan, faultVars
<1>6. CASE InsertFails
  <2>1. pc # "idle" /\ (StoreDetails \/ UNCHANGED <<detailOf, labelOf>>) /\ UNCHANGED <<row, tree>>
    BY <1>6 DEF InsertFails
  <2>2. blip \subseteq blip'
    BY <1>6 DEF InsertFails, StoreFails
  <2> QED
    BY <1>4, <2>1, <2>2
<1>7. CASE UpsertSummary \/ UpsertFails
  <2>1. /\ pc # "idle" /\ UNCHANGED <<detailOf, labelOf, tree>>
        /\ \/ row' = [row EXCEPT ![trace] = [status |-> "running", count |-> copy]]
           \/ UNCHANGED row
    BY <1>7 DEF UpsertSummary, UpsertFails
  <2>2. blip \subseteq blip'
    BY <1>7 DEF UpsertSummary, UpsertFails, StoreFails, faultVars
  <2>3. trace \in 1..opened /\ opened \in Nat
    BY <2>1, HandlerFacts
  <2>4. \A t \in Traces : t > opened => row'[t] = row[t]
    <3>1. \A t \in Traces : t # trace => row'[t] = row[t]
      BY <1>1, <2>1
    <3>2. \A t \in Traces : t > opened => t # trace
      BY <2>3
    <3> QED
      BY <3>1, <3>2
  <2>5. \A t \in Traces : HasRow(t) => HasRow(t)'
    BY <1>1, <2>1 DEF HasRow
  <2> QED
    BY <2>1, <2>2, <2>4, <2>5
<1>8. CASE \E t \in Traces : Closer(t)
  <2>1. PICK t \in Traces : Closer(t)
    BY <1>8
  <2>2. blip \subseteq blip'
    BY <2>1 DEF Closer, LabelSpan, SaveTree, CloseRow, CloseEvent, StoreFails, faultVars
  <2>3. CASE LabelSpan(t)
    <3>1. PICK s : labelOf' = [labelOf EXCEPT ![s] = Owner(@, t)] \/ UNCHANGED labelOf
      BY <2>3 DEF LabelSpan
    <3>2. UNCHANGED <<row, detailOf, tree>>
      BY <2>3 DEF LabelSpan
    <3>3. \A r \in Spans : labelOf[r] # 0 => labelOf'[r] = labelOf[r]
      BY <1>1, <3>1 DEF Owner
    <3> QED
      BY <2>2, <3>2, <3>3 DEF HasRow
  <2>4. CASE SaveTree(t)
    <3>1. UNCHANGED <<row, detailOf, labelOf>> /\ tree \subseteq tree'
      BY <2>4 DEF SaveTree
    <3> QED
      BY <2>2, <3>1 DEF HasRow
  <2>5. CASE CloseRow(t)
    <3>1. /\ UNCHANGED <<detailOf, labelOf, tree>> /\ phase[t] = "row"
          /\ row' = [row EXCEPT ![t] = [status |-> "closed", count |-> count[t]]] \/ UNCHANGED row
      BY <2>5 DEF CloseRow, FinalRow
    <3>2. \A u \in Traces : u > opened => u # t
      BY <3>1 DEF MemoryInv, FreshTraces
    <3>3. \A u \in Traces : HasRow(u) => HasRow(u)'
      BY <1>1, <3>1 DEF HasRow
    <3> QED
      BY <1>1, <2>2, <3>1, <3>2, <3>3
  <2>6. CASE CloseEvent(t)
    BY <1>2, <2>2, <2>6 DEF CloseEvent
  <2> QED
    BY <2>1, <2>3, <2>4, <2>5, <2>6 DEF Closer
<1> QED
  BY <1>3, <1>5, <1>6, <1>7, <1>8 DEF Next, Handler

\* How a step moves the goroutine of a trace: it labels only in the life that
\* opened the trace, and goes on from there to the tree; a dead one stays dead.
LEMMA PhaseMoves ==
    ASSUME MemoryInv, Next, NEW t \in Traces
    PROVE  /\ phase'[t] = "labels" => \/ phase[t] = "labels" /\ crashes' = crashes
                                     \/ life'[t] = crashes'
           /\ phase'[t] \in {"row", "event"} => phase[t] \in {"labels", "row", "event"}
           /\ phase[t] = "dead" => phase'[t] = "dead"
<1>1. /\ phase \in [Traces -> Phases] /\ life \in [Traces -> 0..MaxCrashes]
  BY DEF MemoryInv, TypeOK, TraceType
<1>2. CASE HandleSpan
  <2>1. PICK s, u : s = Head(queue) /\ u = TraceFor(s)
    OBVIOUS
  <2>2. /\ u \in Traces
        /\ u = opened + 1 \/ phase[u] = "open"
        /\ \A v \in ClosedBy(s, u) : v = u \/ phase[v] = "open"
    BY <1>2, <2>1, AssembleFacts
  <2>3. /\ phase' = [v \in Traces |-> IF v \in ClosedBy(s, u) THEN "labels"
                                      ELSE IF v = u THEN "open" ELSE phase[v]]
        /\ life' = [life EXCEPT ![u] = crashes] /\ crashes' = crashes
    BY <1>2, <2>1 DEF HandleSpan, Assemble, faultVars
  <2>4. u = opened + 1 => phase[u] = "new"
    <3>1. u \in Traces /\ opened \in Nat
      BY <1>2, <2>1, AssembleFacts
    <3> QED
      BY <3>1 DEF MemoryInv, FreshTraces
  <2>5. \A v \in ClosedBy(s, u) : v = u \/ life[v] = crashes
    <3>1. AgentOf[s] \in Agents
      BY <1>2, <2>1, AssembleFacts
    <3> QED
      BY <3>1 DEF ClosedBy, MemoryInv, LivingTraces
  <2>6. CASE t \in ClosedBy(s, u) \/ t = u
    <3>1. phase[t] \in {"new", "open"} /\ phase'[t] \in {"labels", "open"} /\ life'[t] = crashes
      BY <1>1, <2>2, <2>3, <2>4, <2>5, <2>6
    <3> QED
      BY <2>3, <3>1
  <2>7. CASE t \notin ClosedBy(s, u) /\ t # u
    BY <2>3, <2>7
  <2> QED
    BY <2>6, <2>7
<1>3. CASE Sweep
  <2> DEFINE gone == {open[a] : a \in {b \in Agents : open[b] # 0 /\ Idle(open[b])}}
  <2>1. /\ phase' = [v \in Traces |-> IF v \in gone THEN "labels" ELSE phase[v]]
        /\ UNCHANGED <<life, crashes>>
    BY <1>3 DEF Sweep, faultVars
  <2>2. \A v \in gone : phase[v] = "open" /\ life[v] = crashes
    BY DEF MemoryInv, LivingTraces
  <2> HIDE DEF gone
  <2> QED
    BY <2>1, <2>2
<1>4. CASE \E u \in Traces : Closer(u)
  <2>1. PICK u \in Traces : Closer(u)
    BY <1>4
  <2>2. crashes' = crashes
    BY <2>1 DEF Closer, LabelSpan, SaveTree, CloseRow, CloseEvent, StoreFails, faultVars
  <2>3. \/ UNCHANGED phase
        \/ phase' = [phase EXCEPT ![u] = "row"] /\ phase[u] = "labels"
        \/ phase' = [phase EXCEPT ![u] = "event"] /\ phase[u] = "row"
        \/ phase' = [phase EXCEPT ![u] = "done"] /\ phase[u] \in {"row", "event"}
    BY <2>1 DEF Closer, LabelSpan, SaveTree, CloseRow, CloseEvent
  <2> QED
    BY <1>1, <2>2, <2>3
<1>5. CASE Crash
  BY <1>5 DEF Crash
<1>6. CASE Tick \/ Publish \/ Duplicate \/ InsertSpan \/ UpsertSummary \/ Finish
           \/ InsertFails \/ UpsertFails
  <2>1. UNCHANGED <<phase, crashes>>
    BY <1>6 DEF Tick, Publish, Duplicate, InsertSpan, UpsertSummary, Finish, InsertFails,
                UpsertFails, StoreFails, closeVars, faultVars
  <2> QED
    BY <2>1
<1> QED
  BY <1>2, <1>3, <1>4, <1>5, <1>6 DEF Next, Handler

-----------------------------------------------------------------------------
(* Rows and their deletion: what holds of a trace whose rows retention and *)
(* the processor did not touch at once.                                    *)

\* A disturbed trace stays one.
LEMMA DisturbedStays ==
    ASSUME MemoryInv, StorageType, ProcessorStep, NEW t \in 1..opened, Disturbed(t)
    PROVE  Disturbed(t)'
<1>1. Next /\ t \in Traces
  BY HandedOut DEF ProcessorStep
<1>2. blip \subseteq blip'
  BY <1>1, RowsStay
<1>3. phase[t] = "dead" => phase'[t] = "dead"
  BY <1>1, PhaseMoves
<1>4. fate'[t] = "late" \/ fate'[t] = fate[t]
  BY <1>1 DEF ProcessorStep
<1> QED
  BY <1>2, <1>3, <1>4 DEF Disturbed

\* A trace that is not disturbed was not written to while it was being deleted.
LEMMA RowsUntouched ==
    ASSUME ProcessorStep, NEW t \in Traces, ~Disturbed(t)',
           fate[t] # "kept" \/ (deleting /\ start[t] < cutoff)
    PROVE  HasRow(t)' = HasRow(t) /\ (Emptied(t) => Emptied(t)')
<1>1. fate'[t] # "late"
  BY DEF Disturbed
<1>2. RowsOf(t)' = RowsOf(t)
  BY <1>1 DEF ProcessorStep
<1>3. /\ row'[t] = row[t] /\ Payload(t)' = Payload(t) /\ Labels(t)' = Labels(t)
  BY <1>2 DEF RowsOf
<1>4. t \in tree' => t \in tree
  BY <1>2 DEF RowsOf
<1> QED
  BY <1>3, <1>4 DEF HasRow, Emptied

\* While the handler has a running row to write, or the goroutine the closed
\* one, the row is on its way; it stays once it is there.
LEMMA RowOnItsWay ==
    ASSUME MemoryInv, Next, NEW t \in 1..opened, t \notin blip', phase'[t] # "dead",
           \/ phase[t] \in {"labels", "row"}
           \/ phase[t] = "open" /\ pc \in {"insert", "upsert"} /\ trace = t /\ span \notin Terminal
    PROVE  \/ HasRow(t)'
           \/ phase'[t] \in {"labels", "row"}
           \/ phase'[t] = "open" /\ pc' \in {"insert", "upsert"} /\ trace' = t /\ span' \notin Terminal
<1>1. /\ t \in Traces /\ phase \in [Traces -> Phases]
      /\ row \in [Traces -> [status : Statuses, count : Nat]]
      /\ opened \in Nat
  BY HandedOut DEF MemoryInv, TypeOK, TraceType, StoreType
<1>2. CASE Tick \/ Publish
  BY <1>2 DEF Tick, Publish, closeVars, handlerVars
<1>3. CASE Duplicate
  BY <1>3 DEF Duplicate, closeVars
<1>4. CASE HandleSpan
  <2>1. PICK s, u : s = Head(queue) /\ u = TraceFor(s)
    OBVIOUS
  <2>2. /\ u = opened + 1 \/ phase[u] = "open"
        /\ \A v \in ClosedBy(s, u) : v = u \/ phase[v] = "open"
    BY <1>4, <2>1, AssembleFacts
  <2>3. pc = "idle"
    BY <1>4 DEF HandleSpan
  <2>4. phase[t] \in {"labels", "row"} /\ t # u /\ t \notin ClosedBy(s, u)
    BY <1>1, <2>2, <2>3
  <2>5. phase' = [v \in Traces |-> IF v \in ClosedBy(s, u) THEN "labels"
                                   ELSE IF v = u THEN "open" ELSE phase[v]]
    BY <1>4, <2>1 DEF HandleSpan, Assemble
  <2> QED
    BY <1>1, <2>4, <2>5
<1>5. CASE InsertSpan
  BY <1>5 DEF InsertSpan, Upserts, closeVars
<1>6. CASE UpsertSummary
  <2>1. /\ pc = "upsert" /\ UNCHANGED phase
        /\ row' = [row EXCEPT ![trace] = [status |-> "running", count |-> copy]]
    BY <1>6 DEF UpsertSummary, closeVars
  <2> QED
    BY <1>1, <2>1 DEF HasRow
<1>7. CASE Finish
  BY <1>7 DEF Finish, closeVars
<1>8. CASE InsertFails
  <2>1. trace \in blip' /\ UNCHANGED phase
    BY <1>8 DEF InsertFails, StoreFails, closeVars
  <2> QED
    BY <2>1
<1>9. CASE UpsertFails
  <2>1. trace \in blip' /\ UNCHANGED phase
    BY <1>9 DEF UpsertFails, StoreFails, closeVars
  <2> QED
    BY <2>1
<1>10. CASE Sweep
  <2>1. /\ phase'[t] = "labels" \/ phase'[t] = phase[t]
        /\ UNCHANGED <<pc, trace, span>>
    BY <1>1, <1>10 DEF Sweep, handlerVars
  <2> QED
    BY <2>1
<1>11. CASE \E u \in Traces : Closer(u)
  <2>1. PICK u \in Traces : Closer(u)
    BY <1>11
  <2>2. UNCHANGED <<pc, trace, span>>
    BY <2>1 DEF Closer, LabelSpan, SaveTree, CloseRow, CloseEvent, handlerVars
  <2>3. CASE phase'[t] = phase[t]
    BY <2>2, <2>3
  <2>4. CASE phase'[t] # phase[t]
    <3>1. CASE LabelSpan(u)
      BY <2>4, <3>1 DEF LabelSpan
    <3>2. CASE SaveTree(u)
      BY <1>1, <2>4, <3>2 DEF SaveTree
    <3>3. CASE CloseRow(u)
      <4>1. \/ phase' = [phase EXCEPT ![u] = "event"] /\ row' = FinalRow(u)
            \/ phase' = [phase EXCEPT ![u] = "done"] /\ u \in blip'
        BY <3>3 DEF CloseRow, StoreFails
      <4>2. u = t
        BY <1>1, <2>4, <4>1
      <4> QED
        BY <1>1, <4>1, <4>2 DEF FinalRow, HasRow
    <3>4. CASE CloseEvent(u)
      BY <1>1, <2>4, <3>4 DEF CloseEvent
    <3> QED
      BY <2>1, <3>1, <3>2, <3>3, <3>4 DEF Closer
  <2> QED
    BY <2>3, <2>4
<1>12. CASE Crash
  BY <1>1, <1>12 DEF Crash
<1> QED
  BY <1>2, <1>3, <1>4, <1>5, <1>6, <1>7, <1>8, <1>9, <1>10, <1>11, <1>12 DEF Next, Handler

\* A trace that is opened has its first row on its way.
LEMMA OpenedRow ==
    ASSUME MemoryInv, HandleSpan
    PROVE  \A t \in 1..opened' : t \in 1..opened \/
              \/ phase'[t] \in {"labels", "row"}
              \/ phase'[t] = "open" /\ pc' \in {"insert", "upsert"} /\ trace' = t /\ span' \notin Terminal
<1>1. PICK s, t : s = Head(queue) /\ t = TraceFor(s)
  OBVIOUS
<1>2. /\ \A u \in Traces : u \in 1..opened' => u \in 1..opened \/ u = t
      /\ t \in Traces /\ opened' \in 0..(MaxDeliveries + MaxCrashes)
      /\ s \in Terminal <=> t \in ClosedBy(s, t)
  BY <1>1, AssembleFacts
<1>3. /\ phase' = [u \in Traces |-> IF u \in ClosedBy(s, t) THEN "labels"
                                    ELSE IF u = t THEN "open" ELSE phase[u]]
      /\ pc' = "insert" /\ trace' = t /\ span' = s
  BY <1>1 DEF HandleSpan, Assemble
<1>4. 1..opened' \subseteq Traces
  BY <1>2 DEF Traces
<1>5. phase'[t] = "labels" \/ (phase'[t] = "open" /\ s \notin Terminal)
  BY <1>2, <1>3
<1> QED
  BY <1>2, <1>3, <1>4, <1>5

\* Only handleSpan opens a trace.
LEMMA OnlyHandleOpens ==
    ASSUME MemoryInv, Next, ~HandleSpan
    PROVE  opened' = opened
  BY DEF Next, Handler, Closer, Tick, Publish, Duplicate, InsertSpan, UpsertSummary, Finish,
         InsertFails, UpsertFails, Sweep, LabelSpan, SaveTree, CloseRow, CloseEvent, Crash,
         traceVars

LEMMA RowOrGoneStep ==
    ASSUME MemoryInv, StorageType, RowOrGone, ProcessorStep
    PROVE  RowOrGone'
<1> SUFFICES ASSUME NEW t \in 1..opened', ~Disturbed(t)'
             PROVE  \/ HasRow(t)'
                    \/ fate'[t] # "kept" /\ Emptied(t)'
                    \/ phase'[t] \in {"labels", "row"}
                    \/ phase'[t] = "open" /\ pc' \in {"insert", "upsert"} /\ trace' = t /\ span' \notin Terminal
  BY DEF RowOrGone
<1>1. Next
  BY DEF ProcessorStep
<1>2. CASE t \in 1..opened
  <2>1. ~Disturbed(t) /\ t \in Traces
    BY <1>2, DisturbedStays, HandedOut
  <2>2. t \notin blip' /\ phase'[t] # "dead"
    BY DEF Disturbed
  <2>3. CASE HasRow(t)
    BY <1>1, <2>1, <2>3, RowsStay
  <2>4. CASE fate[t] # "kept" /\ Emptied(t)
    <3>1. fate'[t] # "kept"
      BY <2>1, <2>4 DEF ProcessorStep
    <3> QED
      BY <2>1, <2>4, <3>1, RowsUntouched
  <2>5. CASE \/ phase[t] \in {"labels", "row"}
             \/ phase[t] = "open" /\ pc \in {"insert", "upsert"} /\ trace = t /\ span \notin Terminal
    BY <1>1, <1>2, <2>2, <2>5, RowOnItsWay
  <2> QED
    BY <1>2, <2>1, <2>3, <2>4, <2>5 DEF RowOrGone
<1>3. CASE t \notin 1..opened
  <2>1. HandleSpan
    BY <1>1, <1>3, OnlyHandleOpens
  <2> QED
    BY <1>3, <2>1, OpenedRow
<1> QED
  BY <1>2, <1>3

\* What is being deleted has lost its details, and gets none while it is being
\* deleted unless it is disturbed.
LEMMA DetailsGoFirstStep ==
    ASSUME MemoryInv, MemoryInv', StorageType, DetailsGoFirst, ProcessorStep
    PROVE  DetailsGoFirst'
<1> SUFFICES ASSUME deleting', NEW t \in Traces, Expired(t, cutoff)', ~Disturbed(t)'
             PROVE  Emptied(t)'
  BY DEF DetailsGoFirst
<1>1. Next /\ deleting /\ cutoff' = cutoff
  BY DEF ProcessorStep, retentionVars
<1>2. t \in 1..opened
  <2>1. t \in 1..opened \/ t > opened
    BY HandedOut
  <2>2. t > opened => ~HasRow(t)'
    BY <1>1, RowsStay DEF HasRow, MemoryInv, FreshTraces
  <2> QED
    BY <2>1, <2>2 DEF Expired
<1>3. start'[t] = start[t] /\ start[t] < cutoff
  BY <1>1, <1>2, TracesGrow DEF Expired
<1>4. ~Disturbed(t)
  BY <1>2, DisturbedStays
<1>5. HasRow(t)' = HasRow(t) /\ (Emptied(t) => Emptied(t)')
  BY <1>1, <1>3, RowsUntouched
<1> QED
  BY <1>1, <1>3, <1>4, <1>5 DEF DetailsGoFirst, Expired

-----------------------------------------------------------------------------
(* What a reader of a closed trace finds: details, labels and tree.        *)

\* Two traces that have a span in one life have it because the dedup memory
\* forgot it; the traces of different lives are each other's elsewhere.
LEMMA SharedIsElsewhere ==
    ASSUME MemoryInv, NEW t \in 1..opened, NEW u \in 1..opened, u # t,
           NEW s \in members[t], s \in members[u]
    PROVE  Elsewhere(t, s)
<1>1. life[t] = life[u] => s \in forgotten
  BY DEF MemoryInv, AssembledOnce
<1> QED
  BY <1>1 DEF Elsewhere

\* What another trace has it goes on having.
LEMMA ElsewhereStays ==
    ASSUME MemoryInv, Next, NEW t \in 1..opened, NEW s, Elsewhere(t, s)
    PROVE  Elsewhere(t, s)'
<1>1. CASE s \in forgotten
  BY <1>1, TracesGrow DEF Elsewhere
<1>2. CASE \E u \in 1..opened : life[u] # life[t] /\ s \in members[u]
  <2>1. PICK u \in 1..opened : life[u] # life[t] /\ s \in members[u]
    BY <1>2
  <2>2. u \in 1..opened'
    BY HandedOut, TracesGrow
  <2>3. life'[u] # life'[t] /\ s \in members'[u]
    BY <2>1, TracesGrow
  <2> QED
    BY <2>2, <2>3 DEF Elsewhere
<1> QED
  BY <1>1, <1>2 DEF Elsewhere

\* A span the process goes on from is settled: its payload is under trace t, or
\* another trace has it, or a store call for the trace failed.
LEMMA SpanMoves ==
    ASSUME MemoryInv, Next, NEW t \in 1..opened, NEW s \in members[t], t \notin blip',
           Unwritten(t, s)
    PROVE  Unwritten(t, s)' \/ Elsewhere(t, s)' \/ detailOf'[s] = t
<1>1. /\ t \in Traces /\ s \in Spans /\ opened \in Nat
      /\ detailOf \in [Spans -> 0..opened]
  BY HandedOut DEF MemoryInv, TypeOK, TraceType, StoreType
<1>2. s \in members'[t] /\ life'[t] = life[t] /\ t \in 1..opened'
  BY HandedOut, TracesGrow
<1>5. CASE pc = "insert" /\ trace = t /\ span = s
  <2>1. /\ trace \in 1..opened /\ s \in members[trace] /\ life[trace] = crashes
        /\ queue \in Seq(Spans) /\ queue # <<>> /\ s = Head(queue)
    BY <1>5, HandlerFacts
  <2>2. CASE InsertSpan
    <3>1. detailOf'[s] = Owner(detailOf[s], trace)
      BY <1>1, <1>5, <2>2 DEF InsertSpan, StoreDetails
    <3>2. CASE detailOf'[s] = t
      BY <3>2
    <3>3. CASE detailOf'[s] # t
      <4> DEFINE u == detailOf'[s]
      <4>1. u \in 1..opened /\ s \in members[u]
        <5>1. CASE detailOf[s] = 0
          BY <2>1, <3>1, <5>1 DEF Owner
        <5>2. CASE detailOf[s] # 0
          <6>1. u = detailOf[s]
            BY <3>1, <5>2 DEF Owner
          <6>2. s \in members[detailOf[s]]
            BY <1>1, <5>2 DEF MemoryInv, OwnRows
          <6> QED
            BY <1>1, <5>2, <6>1, <6>2
        <5> QED
          BY <5>1, <5>2
      <4> QED
        BY <3>3, <4>1, SharedIsElsewhere, ElsewhereStays
    <3> QED
      BY <3>2, <3>3
  <2>3. CASE InsertFails
    BY <1>5, <2>3 DEF InsertFails, StoreFails
  <2>4. CASE Crash
    <3>1. crashes' = crashes + 1 /\ UNCHANGED life /\ queue' \in Reordered(queue)
      BY <2>4 DEF Crash
    <3>2. s \in Entries(queue) /\ Entries(queue') = Entries(queue)
      BY <2>1, <3>1, TailEntries, ReorderedSame
    <3>3. life[t] # crashes'
      BY <1>1, <3>1 DEF MemoryInv, LivingTraces, TypeOK, TraceType, HandlerType
    <3> QED
      BY <3>1, <3>2, <3>3 DEF Unwritten, Entries
  <2>5. CASE UNCHANGED <<pc, trace, span>>
    BY <1>5, <2>5 DEF Unwritten
  <2>6. CASE Duplicate \/ HandleSpan \/ UpsertSummary \/ Finish \/ UpsertFails
    BY <1>5, <2>6 DEF Duplicate, HandleSpan, UpsertSummary, Finish, UpsertFails
  <2>7. CASE Tick \/ Publish \/ Sweep
    BY <2>5, <2>7 DEF Tick, Publish, Sweep, handlerVars
  <2>8. CASE \E u \in Traces : Closer(u)
    BY <2>5, <2>8 DEF Closer, LabelSpan, SaveTree, CloseRow, CloseEvent, handlerVars
  <2> QED
    BY <2>2, <2>3, <2>4, <2>6, <2>7, <2>8 DEF Next, Handler
<1>6. CASE life[t] # crashes /\ s \in Entries(queue)
  <2>1. life'[t] # crashes'
    BY <1>2, <1>6, TracesGrow
  <2>2. CASE s \in Entries(queue)'
    BY <2>1, <2>2 DEF Unwritten
  <2>3. CASE s \notin Entries(queue)'
    <3>1. queue \in Seq(Spans)
      BY DEF MemoryInv, TypeOK, StreamType
    <3>2. \/ UNCHANGED queue \/ Publish
          \/ queue' = Tail(queue) /\ (Duplicate \/ Finish)
          \/ queue' = Tail(queue) /\ pc # "idle" /\ InsertFails
          \/ queue' \in Reordered(queue)
      BY DEF Next, Handler, Closer, Tick, Duplicate, HandleSpan, InsertSpan, UpsertSummary,
             Finish, InsertFails, GivenUp, Return, UpsertFails, Sweep, LabelSpan, SaveTree,
             CloseRow, CloseEvent, Crash, streamVars
    <3>3. CASE UNCHANGED queue
      BY <1>6, <2>3, <3>3 DEF Entries
    <3>4. CASE Publish
      <4>1. PICK r \in Spans : queue' = Append(queue, r)
        BY <3>4 DEF Publish
      <4>2. Entries(queue') = Entries(queue) \cup {r}
        BY <3>1, <4>1, AppendEntries
      <4> QED
        BY <1>6, <2>3, <4>2 DEF Entries
    <3>5. CASE queue' = Tail(queue) /\ pc # "idle" /\ (Finish \/ InsertFails)
      <4>1. /\ trace \in 1..opened /\ span \in members[trace] /\ life[trace] = crashes
            /\ Entries(queue) = Entries(Tail(queue)) \cup {span}
        BY <3>5, HandlerFacts
      <4>2. s = span
        BY <1>6, <2>3, <3>5, <4>1 DEF Entries
      <4>3. Elsewhere(t, s)
        BY <1>6, <4>1, <4>2 DEF Elsewhere
      <4> QED
        BY <4>3, ElsewhereStays
    <3>6. CASE queue' = Tail(queue) /\ Duplicate
      <4>1. queue # <<>> /\ Head(queue) \in Entries(seen)
        BY <3>6 DEF Duplicate
      <4>2. Entries(queue) = Entries(Tail(queue)) \cup {Head(queue)}
        BY <3>1, <4>1, TailEntries
      <4>3. s = Head(queue)
        BY <1>6, <2>3, <3>6, <4>2 DEF Entries
      <4>4. Elsewhere(t, s)
        BY <1>6, <4>1, <4>3 DEF MemoryInv, SeenJoined, Elsewhere
      <4> QED
        BY <4>4, ElsewhereStays
    <3>7. CASE queue' \in Reordered(queue)
      <4>1. Entries(queue') = Entries(queue)
        BY <3>1, <3>7, ReorderedSame
      <4> QED
        BY <1>6, <2>3, <4>1 DEF Entries
    <3> QED
      BY <3>2, <3>3, <3>4, <3>5, <3>6, <3>7 DEF Finish
  <2> QED
    BY <2>2, <2>3
<1> QED
  BY <1>5, <1>6 DEF Unwritten

\* What joins a trace is the span in hand.
LEMMA JoinsInHand ==
    ASSUME MemoryInv, Next
    PROVE  \A t \in 1..opened' : \A s \in members'[t] :
              \/ t \in 1..opened /\ s \in members[t]
              \/ pc' = "insert" /\ trace' = t /\ span' = s
<1>1. CASE HandleSpan
  <2>1. PICK s, t : s = Head(queue) /\ t = TraceFor(s)
    OBVIOUS
  <2>2. /\ \A u \in Traces : u \in 1..opened' => u \in 1..opened \/ u = t
        /\ t \in Traces /\ opened' \in 0..(MaxDeliveries + MaxCrashes) /\ opened \in Nat
        /\ t = opened + 1 \/ t \in 1..opened
    BY <1>1, <2>1, AssembleFacts
  <2>3. /\ members' = [members EXCEPT ![t] = @ \cup {s}]
        /\ pc' = "insert" /\ trace' = t /\ span' = s
    BY <1>1, <2>1 DEF HandleSpan, Assemble
  <2>4. members \in [Traces -> SUBSET Spans] /\ 1..opened' \subseteq Traces
    BY <2>2 DEF MemoryInv, TypeOK, TraceType, Traces
  <2>5. t = opened + 1 => members[t] = {}
    BY <2>2 DEF MemoryInv, FreshTraces
  <2>6. \A u \in Traces : \A r \in members'[u] : r \in members[u] \/ (u = t /\ r = s)
    BY <2>2, <2>3, <2>4
  <2> QED
    BY <2>2, <2>3, <2>4, <2>5, <2>6
<1>2. CASE ~HandleSpan
  <2>1. opened' = opened /\ members' = members
    BY <1>2 DEF Next, Handler, Closer, Tick, Publish, Duplicate, InsertSpan, UpsertSummary, Finish,
         InsertFails, UpsertFails, Sweep, LabelSpan, SaveTree, CloseRow, CloseEvent, Crash,
         traceVars
  <2> QED
    BY <2>1
<1> QED
  BY <1>1, <1>2

\* A trace that is left alone after the step was left alone before.
LEMMA WholeBefore ==
    ASSUME MemoryInv, ProcessorStep, NEW t \in Traces, Whole(t)'
    PROVE  Whole(t)
<1>1. fate[t] = "kept"
  BY DEF Whole, ProcessorStep
<1>2. t \notin blip
  BY RowsStay DEF Whole, ProcessorStep
<1> QED
  BY <1>1, <1>2 DEF Whole

\* Before its goroutine is past the tree nobody is told that a trace is closed.
LEMMA NotToldYet ==
    ASSUME MemoryInv, PageClosed, NEW t \in Traces, phase[t] \in {"new", "open", "labels"}
    PROVE  ~Told(t)
  BY DEF MemoryInv, ClosedRows, PageClosed, Told

\* A row is closed by the step of its goroutine that writes it; what the sweep
\* closed stays swept; and only a crash ends a life of the process.
LEMMA RowCloses ==
    ASSUME MemoryInv, Next, NEW t \in Traces, row'[t].status = "closed"
    PROVE  row[t].status = "closed" \/ phase[t] = "row"
<1>1. row \in [Traces -> [status : Statuses, count : Nat]]
  BY DEF MemoryInv, TypeOK, StoreType
<1>2. CASE UNCHANGED row
  BY <1>2
<1>3. CASE UpsertSummary \/ UpsertFails
  <2>1. row' = [row EXCEPT ![trace] = [status |-> "running", count |-> copy]] \/ UNCHANGED row
    BY <1>3 DEF UpsertSummary, UpsertFails
  <2> QED
    BY <1>1, <2>1
<1>4. CASE \E u \in Traces : CloseRow(u)
  <2>1. PICK u \in Traces : CloseRow(u)
    BY <1>4
  <2>2. phase[u] = "row" /\ (row' = FinalRow(u) \/ UNCHANGED row)
    BY <2>1 DEF CloseRow
  <2> QED
    BY <1>1, <2>2 DEF FinalRow
<1>5. CASE Tick \/ Publish \/ Duplicate \/ HandleSpan \/ InsertSpan \/ Finish \/ InsertFails
           \/ Sweep \/ Crash \/ \E u \in Traces : LabelSpan(u) \/ SaveTree(u) \/ CloseEvent(u)
  <2>1. UNCHANGED row
    BY <1>5 DEF Tick, Publish, Duplicate, HandleSpan, InsertSpan, Finish, InsertFails, Sweep,
                Crash, LabelSpan, SaveTree, CloseEvent, storeVars
  <2> QED
    BY <1>2, <2>1
<1> QED
  BY <1>3, <1>4, <1>5 DEF Next, Handler, Closer

LEMMA SweptGrows ==
    ASSUME Next
    PROVE  swept \subseteq swept'
  BY DEF Next, Handler, Closer, Tick, Publish, Duplicate, HandleSpan, InsertSpan, UpsertSummary,
         Finish, InsertFails, UpsertFails, Sweep, LabelSpan, SaveTree, CloseRow, CloseEvent, Crash

LEMMA OnlyCrashEnds ==
    ASSUME Next, ~Crash
    PROVE  crashes' = crashes
  BY DEF Next, Handler, Closer, Tick, Publish, Duplicate, HandleSpan, InsertSpan, UpsertSummary,
         Finish, InsertFails, UpsertFails, Sweep, LabelSpan, SaveTree, CloseRow, CloseEvent,
         StoreFails, faultVars

\* Nobody is told that a trace is closed but by a step of its goroutine that saves
\* the tree.
LEMMA ToldBefore ==
    ASSUME MemoryInv, PageClosed, ProcessorStep, NEW t \in Traces, phase[t] # "labels", Told(t)'
    PROVE  Told(t)
<1>1. Next /\ page' = page
  BY DEF ProcessorStep
<1>2. CASE phase'[t] \in {"row", "event"}
  <2>1. CASE phase[t] \in {"row", "event"}
    <3>1. CASE phase[t] = "row"
      BY <3>1 DEF Told
    <3>2. CASE phase[t] = "event"
      BY <3>2 DEF Told
    <3> QED
      BY <2>1, <3>1, <3>2
  <2> QED
    BY <1>1, <1>2, <2>1, PhaseMoves
<1>3. CASE row'[t].status = "closed"
  <2>1. row[t].status = "closed" \/ phase[t] = "row"
    BY <1>1, <1>3, RowCloses
  <2> QED
    BY <2>1 DEF Told
<1>4. CASE page'.trace = t /\ page'.status = "closed"
  BY <1>1, <1>4 DEF Told
<1> QED
  BY <1>2, <1>3, <1>4 DEF Told

\* What is stored stays, and the span in hand of a trace that is told closed ended
\* it: the handler is on an open trace, or on one closed by its terminal span or
\* by the sweep.
LEMMA DetailsKeptStep ==
    ASSUME MemoryInv, MemoryInv', PageClosed, PageClosed', LabellingNow, DetailsKept, ProcessorStep
    PROVE  DetailsKept'
<1> SUFFICES ASSUME NEW t \in 1..opened', Whole(t)', NEW s \in members'[t],
                    ~(detailOf'[s] = t), ~Elsewhere(t, s)'
             PROVE  Unwritten(t, s)' /\ (Told(t)' => MayEnd(t, s)')
  BY DEF DetailsKept
<1>1. Next /\ t \in Traces
  BY DEF ProcessorStep, MemoryInv, TypeOK, TraceType, Traces
<1>2. CASE pc' = "insert" /\ trace' = t /\ span' = s
  <2>1. ASSUME Told(t)', s \notin Terminal, t \notin swept' PROVE FALSE
    <3>1. phase'[t] = "open"
      BY <1>2, <2>1 DEF MemoryInv, ClosedRows
    <3>2. row'[t].status # "closed"
      BY <1>1, <3>1 DEF MemoryInv, ClosedRows
    <3> QED
      BY <2>1, <3>1, <3>2 DEF Told, PageClosed
  <2> QED
    BY <1>2, <2>1 DEF Unwritten, MayEnd
<1>3. CASE t \in 1..opened /\ s \in members[t] /\ ~(pc' = "insert" /\ trace' = t /\ span' = s)
  <2>1. t # 0 /\ s \in Spans /\ t \notin blip' /\ Whole(t)
    BY <1>1, <1>3, HandedOut, WholeBefore DEF MemoryInv, TypeOK, TraceType, Whole
  <2>2. ~(detailOf[s] = t)
    BY <1>1, <2>1, RowsStay
  <2>3. ~Elsewhere(t, s)
    BY <1>1, <1>3, ElsewhereStays
  <2>4. Unwritten(t, s) /\ (Told(t) => MayEnd(t, s))
    BY <1>3, <2>1, <2>2, <2>3 DEF DetailsKept
  <2>5. Unwritten(t, s)'
    BY <1>1, <1>3, <2>1, <2>4, SpanMoves
  <2>6. ASSUME Told(t)' PROVE MayEnd(t, s)'
    <3>1. life'[t] # crashes' /\ life'[t] = life[t]
      BY <1>1, <1>3, <2>5, TracesGrow DEF Unwritten
    <3>2. CASE phase[t] # "labels"
      <4>1. MayEnd(t, s)
        BY <1>1, <2>4, <2>6, <3>2, ToldBefore
      <4> QED
        BY <1>1, <4>1, SweptGrows DEF MayEnd
    <3>3. CASE phase[t] = "labels"
      <4>1. Crash
        BY <1>1, <1>3, <3>1, <3>3, OnlyCrashEnds DEF LabellingNow
      <4>2. ~Told(t)
        BY <1>1, <3>3, NotToldYet
      <4>3. phase'[t] = "dead" /\ UNCHANGED <<row, page>>
        BY <1>1, <3>3, <4>1 DEF Crash, storeVars, ProcessorStep
      <4> QED
        BY <2>6, <4>2, <4>3 DEF Told
    <3> QED
      BY <3>2, <3>3
  <2> QED
    BY <2>5, <2>6
<1> QED
  BY <1>1, <1>2, <1>3, JoinsInHand

LEMMA LabellingNowStep ==
    ASSUME MemoryInv, MemoryInv', LabellingNow, ProcessorStep
    PROVE  LabellingNow'
<1> SUFFICES ASSUME NEW t \in 1..opened', phase'[t] = "labels", life'[t] # crashes'
             PROVE  FALSE
  BY DEF LabellingNow
<1>1. Next
  BY DEF ProcessorStep
<1>2. CASE t \in 1..opened
  <2>1. t \in Traces /\ life'[t] = life[t]
    BY <1>1, <1>2, HandedOut, TracesGrow
  <2>2. phase[t] = "labels" /\ crashes' = crashes
    BY <1>1, <2>1, PhaseMoves
  <2> QED
    BY <1>2, <2>1, <2>2 DEF LabellingNow
<1>3. CASE t \notin 1..opened
  <2>1. t \in Traces
    BY DEF MemoryInv, TypeOK, TraceType, Traces
  <2>2. phase[t] = "new"
    BY <1>3, <2>1, HandedOut DEF MemoryInv, FreshTraces
  <2> QED
    BY <1>1, <2>1, <2>2, PhaseMoves
<1> QED
  BY <1>2, <1>3

\* A label under its trace, or another trace's, stays.
LEMMA LabelledStays ==
    ASSUME MemoryInv, Next, NEW t \in 1..opened, NEW s \in Spans, Labelled(t, s)
    PROVE  Labelled(t, s)'
<1>1. CASE labelOf[s] = t
  <2>1. t # 0
    BY HandedOut
  <2>2. labelOf'[s] = t
    BY <1>1, <2>1, RowsStay
  <2> QED
    BY <2>2 DEF Labelled
<1>2. CASE Elsewhere(t, s)
  BY <1>2, ElsewhereStays DEF Labelled
<1> QED
  BY <1>1, <1>2 DEF Labelled

\* A row that a label was to be written to has the label of trace t, or is
\* another trace's.
LEMMA LabelLands ==
    ASSUME MemoryInv, NEW t \in 1..opened, NEW s \in members[t], s \in Spans,
           labelOf' = [labelOf EXCEPT ![s] = Owner(@, t)]
    PROVE  labelOf'[s] = t \/ Elsewhere(t, s)
<1>1. labelOf \in [Spans -> 0..opened]
  BY DEF MemoryInv, TypeOK, StoreType
<1>2. labelOf'[s] = Owner(labelOf[s], t)
  BY <1>1
<1>3. CASE labelOf[s] = 0
  BY <1>2, <1>3 DEF Owner
<1>4. CASE labelOf[s] = t
  BY <1>2, <1>4 DEF Owner
<1>5. CASE labelOf[s] # 0 /\ labelOf[s] # t
  <2>1. labelOf[s] \in 1..opened
    BY <1>1, <1>5, HandedOut
  <2>2. s \in members[labelOf[s]]
    BY <1>5 DEF MemoryInv, OwnRows
  <2> QED
    BY <1>5, <2>1, <2>2, SharedIsElsewhere
<1> QED
  BY <1>3, <1>4, <1>5

LEMMA ClosingKeptStep ==
    ASSUME MemoryInv, PageClosed, ClosingKept, ProcessorStep
    PROVE  ClosingKept'
<1> SUFFICES ASSUME NEW t \in 1..opened', Whole(t)'
             PROVE  /\ phase'[t] = "labels" =>
                          \A s \in members'[t] \ unlabelled'[t] : Labelled(t, s)'
                    /\ Told(t)' => t \in tree' /\ \A s \in members'[t] : Labelled(t, s)'
  BY DEF ClosingKept
<1>1. Next /\ page' = page
  BY DEF ProcessorStep
<1>2. /\ members \in [Traces -> SUBSET Spans] /\ phase \in [Traces -> Phases]
      /\ unlabelled \in [Traces -> SUBSET Spans]
      /\ row \in [Traces -> [status : Statuses, count : Nat]]
      /\ opened \in Nat /\ 1..opened \subseteq Traces
  BY HandedOut DEF MemoryInv, TypeOK, TraceType, StoreType
<1>3. ASSUME t \in 1..opened
      PROVE  /\ Whole(t) /\ tree \subseteq tree'
             /\ \A s \in members[t] : Labelled(t, s) => Labelled(t, s)'
             /\ phase[t] = "labels" => \A s \in members[t] \ unlabelled[t] : Labelled(t, s)
             /\ Told(t) => t \in tree /\ \A s \in members[t] : Labelled(t, s)
  <2>1. t \in Traces /\ Whole(t)
    BY <1>2, <1>3, WholeBefore
  <2>2. \A s \in members[t] : Labelled(t, s) => Labelled(t, s)'
    BY <1>1, <1>2, <1>3, <2>1, LabelledStays
  <2>3. /\ phase[t] = "labels" => \A s \in members[t] \ unlabelled[t] : Labelled(t, s)
        /\ Told(t) => t \in tree /\ \A s \in members[t] : Labelled(t, s)
    BY <1>3, <2>1 DEF ClosingKept
  <2> QED
    BY <1>1, <2>1, <2>2, <2>3, RowsStay
\* Steps that do not move the goroutine of t on, nor tell anything of t.
<1>4. ASSUME UNCHANGED <<opened, members, unlabelled>>,
             phase'[t] = "labels" => phase[t] = "labels",
             Told(t)' => Told(t)
      PROVE  /\ phase'[t] = "labels" =>
                   \A s \in members'[t] \ unlabelled'[t] : Labelled(t, s)'
             /\ Told(t)' => t \in tree' /\ \A s \in members'[t] : Labelled(t, s)'
  BY <1>3, <1>4
<1>5. CASE HandleSpan
  <2>1. PICK s, u : s = Head(queue) /\ u = TraceFor(s)
    OBVIOUS
  <2> DEFINE C == ClosedBy(s, u)
  <2>2. /\ \A v \in Traces : v \in 1..opened' => v \in 1..opened \/ v = u
        /\ u \in Traces /\ opened' \in 0..(MaxDeliveries + MaxCrashes)
        /\ u = opened + 1 \/ phase[u] = "open"
        /\ \A v \in C : v = u \/ phase[v] = "open"
    BY <1>5, <2>1, AssembleFacts
  <2> HIDE DEF C
  <2>3. /\ members' = [members EXCEPT ![u] = @ \cup {s}]
        /\ phase' = [v \in Traces |-> IF v \in C THEN "labels"
                                      ELSE IF v = u THEN "open" ELSE phase[v]]
        /\ unlabelled' = [v \in Traces |-> IF v \in C THEN members'[v] ELSE unlabelled[v]]
        /\ UNCHANGED row
    BY <1>5, <2>1 DEF HandleSpan, Assemble, C, storeVars
  <2>4. t \in Traces
    BY <2>2 DEF Traces
  <2>5. CASE t \in C \/ t = u
    <3>1. phase'[t] = "labels" => t \in C
      BY <2>3, <2>4, <2>5
    <3>2. t \in C => members'[t] \ unlabelled'[t] = {}
      BY <2>3, <2>4
    <3>3. phase[t] \in {"new", "open"}
      BY <1>2, <2>2, <2>4, <2>5 DEF MemoryInv, FreshTraces
    <3>4. ~Told(t)
      BY <2>4, <3>3, NotToldYet
    <3>5. phase'[t] \in {"labels", "open"}
      BY <2>3, <2>4, <2>5
    <3>6. ~Told(t)'
      BY <1>1, <2>3, <3>4, <3>5 DEF Told
    <3> QED
      BY <3>1, <3>2, <3>6
  <2>6. CASE t \notin C /\ t # u
    <3>1. /\ t \in 1..opened /\ phase'[t] = phase[t] /\ unlabelled'[t] = unlabelled[t]
          /\ members'[t] = members[t]
      BY <1>2, <2>2, <2>3, <2>4, <2>6
    <3>2. Told(t)' => Told(t)
      BY <1>1, <2>3, <3>1 DEF Told
    <3> QED
      BY <1>3, <3>1, <3>2
  <2> QED
    BY <2>5, <2>6
<1>6. CASE Sweep
  <2> DEFINE gone == {open[a] : a \in {b \in Agents : open[b] # 0 /\ Idle(open[b])}}
  <2>1. /\ phase' = [v \in Traces |-> IF v \in gone THEN "labels" ELSE phase[v]]
        /\ unlabelled' = [v \in Traces |-> IF v \in gone THEN members[v] ELSE unlabelled[v]]
        /\ UNCHANGED <<opened, members, row>>
    BY <1>6 DEF Sweep, storeVars
  <2>2. \A v \in gone : phase[v] = "open"
    BY DEF MemoryInv, LivingTraces
  <2> HIDE DEF gone
  <2>3. t \in 1..opened /\ t \in Traces
    BY <1>2, <2>1
  <2>4. CASE t \in gone
    <3>1. members'[t] \ unlabelled'[t] = {} /\ phase'[t] = "labels"
      BY <2>1, <2>3, <2>4
    <3>2. ~Told(t)
      BY <2>2, <2>3, <2>4, NotToldYet
    <3>3. ~Told(t)'
      BY <1>1, <2>1, <3>1, <3>2 DEF Told
    <3> QED
      BY <3>1, <3>3
  <2>5. CASE t \notin gone
    <3>1. phase'[t] = phase[t] /\ unlabelled'[t] = unlabelled[t] /\ members'[t] = members[t]
      BY <2>1, <2>3, <2>5
    <3>2. Told(t)' => Told(t)
      BY <1>1, <2>1, <3>1 DEF Told
    <3> QED
      BY <1>3, <2>3, <3>1, <3>2
  <2> QED
    BY <2>4, <2>5
<1>7. CASE \E u \in Traces : Closer(u)
  <2>1. PICK u \in Traces : Closer(u)
    BY <1>7
  <2>2. UNCHANGED <<opened, members>> /\ t \in 1..opened /\ t \in Traces
    BY <1>2, <2>1 DEF Closer, LabelSpan, SaveTree, CloseRow, CloseEvent, traceVars
  <2>3. CASE LabelSpan(u)
    <3>1. PICK r \in unlabelled[u] :
            /\ unlabelled' = [unlabelled EXCEPT ![u] = @ \ {r}]
            /\ \/ labelOf' = [labelOf EXCEPT ![r] = Owner(@, u)]
               \/ u \in blip'
      BY <2>3 DEF LabelSpan, StoreFails
    <3>2. UNCHANGED <<phase, row>>
      BY <2>3 DEF LabelSpan
    <3>3. Told(t)' => Told(t)
      BY <1>1, <3>2 DEF Told
    <3>4. CASE u # t
      <4>1. unlabelled'[t] = unlabelled[t]
        BY <1>2, <2>2, <3>1, <3>4
      <4> QED
        BY <1>3, <2>2, <3>2, <3>3, <4>1
    <3>5. CASE u = t
      <4>1. unlabelled'[t] = unlabelled[t] \ {r} /\ r \in members[t] /\ r \in Spans
        BY <1>2, <3>1, <3>5 DEF MemoryInv, OwnRows
      <4>2. labelOf' = [labelOf EXCEPT ![r] = Owner(@, t)]
        BY <3>1, <3>5 DEF Whole
      <4>3. labelOf'[r] = t \/ Elsewhere(t, r)
        BY <2>2, <4>1, <4>2, LabelLands
      <4>4. Labelled(t, r)'
        BY <1>1, <2>2, <4>3, ElsewhereStays DEF Labelled
      <4> QED
        BY <1>3, <2>2, <3>2, <3>3, <4>1, <4>4
    <3> QED
      BY <3>4, <3>5
  <2>4. CASE SaveTree(u)
    <3>1. /\ phase[u] = "labels" /\ unlabelled[u] = {} /\ phase' = [phase EXCEPT ![u] = "row"]
          /\ UNCHANGED <<unlabelled, row>>
          /\ u \in tree' \/ u \in blip'
      BY <2>4 DEF SaveTree, LabelsWritten, StoreFails
    <3>2. CASE u # t
      <4>1. phase'[t] = phase[t]
        BY <1>2, <2>2, <3>1, <3>2
      <4>2. Told(t)' => Told(t)
        BY <1>1, <3>1, <4>1 DEF Told
      <4> QED
        BY <1>4, <2>2, <3>1, <4>1, <4>2
    <3>3. CASE u = t
      <4>1. phase'[t] = "row" /\ t \in tree'
        BY <1>2, <3>1, <3>3 DEF Whole
      <4>2. \A s \in members[t] : Labelled(t, s)'
        BY <1>3, <2>2, <3>1, <3>3
      <4> QED
        BY <2>2, <4>1, <4>2
    <3> QED
      BY <3>2, <3>3
  <2>5. CASE CloseRow(u)
    <3>1. /\ phase[u] = "row" /\ UNCHANGED unlabelled
          /\ phase' = [phase EXCEPT ![u] = "event"] \/ phase' = [phase EXCEPT ![u] = "done"]
          /\ row' = [row EXCEPT ![u] = [status |-> "closed", count |-> count[u]]] \/ UNCHANGED row
      BY <2>5 DEF CloseRow, FinalRow
    <3>2. phase'[t] = "labels" => phase[t] = "labels"
      BY <1>2, <2>2, <3>1
    <3>3. Told(t)' => Told(t)
      <4>1. CASE u = t
        BY <3>1, <4>1 DEF Told
      <4>2. CASE u # t
        <5>1. phase'[t] = phase[t] /\ row'[t] = row[t]
          BY <1>2, <2>2, <3>1, <4>2
        <5> QED
          BY <1>1, <5>1 DEF Told
      <4> QED
        BY <4>1, <4>2
    <3> QED
      BY <1>4, <2>2, <3>1, <3>2, <3>3
  <2>6. CASE CloseEvent(u)
    <3>1. /\ phase' = [phase EXCEPT ![u] = "done"] /\ UNCHANGED <<unlabelled, row>>
      BY <2>6 DEF CloseEvent, storeVars
    <3>2. phase'[t] = phase[t] \/ phase'[t] = "done"
      BY <1>2, <2>2, <3>1
    <3>3. Told(t)' => Told(t)
      BY <1>1, <3>1, <3>2 DEF Told
    <3> QED
      BY <1>4, <2>2, <3>1, <3>2, <3>3
  <2> QED
    BY <2>1, <2>3, <2>4, <2>5, <2>6 DEF Closer
<1>8. CASE Crash
  <2>1. /\ phase' = [v \in Traces |-> IF phase[v] = "new" \/ phase[v] = "done"
                                      THEN phase[v] ELSE "dead"]
        /\ UNCHANGED <<opened, members, row>>
    BY <1>8 DEF Crash, storeVars
  <2>2. t \in 1..opened /\ t \in Traces
    BY <1>2, <2>1
  <2>3. phase'[t] \in {"new", "done", "dead"}
    BY <2>1, <2>2
  <2>4. Told(t)' => Told(t)
    BY <1>1, <2>1, <2>3 DEF Told
  <2> QED
    BY <1>3, <2>1, <2>2, <2>3, <2>4
<1>9. CASE UpsertSummary \/ UpsertFails
  <2>1. /\ UNCHANGED <<opened, members, phase, unlabelled>>
        /\ \/ row' = [row EXCEPT ![trace] = [status |-> "running", count |-> copy]]
           \/ UNCHANGED row
    BY <1>9 DEF UpsertSummary, UpsertFails, traceVars, closeVars
  <2>2. t \in Traces
    BY <1>2, <2>1
  <2>3. row'[t].status = "closed" => row[t].status = "closed"
    BY <1>2, <2>1, <2>2
  <2>4. Told(t)' => Told(t)
    BY <1>1, <2>1, <2>3 DEF Told
  <2> QED
    BY <1>4, <2>1, <2>4
<1>10. CASE Tick \/ Publish \/ Duplicate \/ InsertSpan \/ Finish \/ InsertFails
  <2>1. UNCHANGED <<opened, members, phase, unlabelled, row>>
    BY <1>10 DEF Tick, Publish, Duplicate, InsertSpan, Finish, InsertFails,
                 traceVars, closeVars, storeVars
  <2>2. Told(t)' => Told(t)
    BY <1>1, <2>1 DEF Told
  <2> QED
    BY <1>4, <2>1, <2>2
<1> QED
  BY <1>1, <1>5, <1>6, <1>7, <1>8, <1>9, <1>10 DEF Next, Handler

\* What a page was told stays so: a closed trace is not opened again.
LEMMA PageClosedStep ==
    ASSUME MemoryInv, PageClosed, ProcessorStep
    PROVE  PageClosed'
<1> SUFFICES ASSUME page.status = "closed"
             PROVE  /\ page.trace \in 1..opened'
                    /\ phase'[page.trace] \in {"event", "done", "dead"}
  BY DEF PageClosed, ProcessorStep
<1> DEFINE t == page.trace
<1>1. Next /\ t \in 1..opened /\ phase[t] \in {"event", "done", "dead"} /\ t \in Traces
  BY HandedOut DEF ProcessorStep, PageClosed
<1>2. t \in 1..opened'
  BY <1>1, HandedOut, TracesGrow
<1>3. phase \in [Traces -> Phases]
  BY DEF MemoryInv, TypeOK, TraceType
<1> HIDE DEF t
<1>4. phase'[t] \in {"event", "done", "dead"}
  <2>1. CASE HandleSpan
    <3>1. PICK s, u : s = Head(queue) /\ u = TraceFor(s)
      OBVIOUS
    <3>2. /\ u = opened + 1 \/ phase[u] = "open"
          /\ \A v \in ClosedBy(s, u) : v = u \/ phase[v] = "open"
      BY <2>1, <3>1, AssembleFacts
    <3>3. phase' = [v \in Traces |-> IF v \in ClosedBy(s, u) THEN "labels"
                                     ELSE IF v = u THEN "open" ELSE phase[v]]
      BY <2>1, <3>1 DEF HandleSpan, Assemble
    <3>4. t # u /\ t \notin ClosedBy(s, u)
      BY <1>1, <3>2, HandedOut
    <3> QED
      BY <1>1, <3>3, <3>4
  <2>2. CASE Sweep
    <3> DEFINE gone == {open[a] : a \in {b \in Agents : open[b] # 0 /\ Idle(open[b])}}
    <3>1. phase' = [v \in Traces |-> IF v \in gone THEN "labels" ELSE phase[v]]
      BY <2>2 DEF Sweep
    <3>2. \A v \in gone : phase[v] = "open"
      BY DEF MemoryInv, LivingTraces
    <3> HIDE DEF gone
    <3> QED
      BY <1>1, <3>1, <3>2
  <2>3. CASE \E u \in Traces : Closer(u)
    <3>1. PICK u \in Traces : Closer(u)
      BY <2>3
    <3>2. \/ UNCHANGED phase
          \/ phase' = [phase EXCEPT ![u] = "row"] /\ phase[u] = "labels"
          \/ phase' = [phase EXCEPT ![u] = "event"]
          \/ phase' = [phase EXCEPT ![u] = "done"]
      BY <3>1 DEF Closer, LabelSpan, SaveTree, CloseRow, CloseEvent
    <3> QED
      BY <1>1, <1>3, <3>2
  <2>4. CASE Crash
    BY <1>1, <2>4 DEF Crash
  <2>5. CASE (Handler /\ ~HandleSpan) \/ InsertFails \/ UpsertFails
    <3>1. UNCHANGED phase
      BY <2>5 DEF Handler, Duplicate, InsertSpan, UpsertSummary, Finish, InsertFails, UpsertFails,
                  closeVars
    <3> QED
      BY <1>1, <3>1
  <2>6. CASE Tick \/ Publish
    BY <1>1, <2>6 DEF Tick, Publish, closeVars
  <2> QED
    BY <1>1, <2>1, <2>2, <2>3, <2>4, <2>5, <2>6 DEF Next, Handler
<1> QED
  BY <1>2, <1>4 DEF t

-----------------------------------------------------------------------------
(* The retention goroutine.                                                *)

\* What its statements do to the rows of the traces they are about, and of the
\* others.
LEMMA StatementFacts ==
    ASSUME MemoryInv, NEW n \in {1, 2}, NEW gone \in SUBSET Traces,
           Statement(n, gone) \/ UNCHANGED storeVars
    PROVE  /\ row' \in [Traces -> [status : Statuses, count : Nat]]
           /\ detailOf' \in [Spans -> 0..opened] /\ labelOf' \in [Spans -> 0..opened]
           /\ tree' \subseteq tree
           /\ \A s \in Spans : /\ detailOf'[s] = detailOf[s] \/ (detailOf[s] \in gone /\ detailOf'[s] = 0)
                               /\ labelOf'[s] = labelOf[s] \/ (labelOf[s] \in gone /\ labelOf'[s] = 0)
           /\ \A t \in Traces : row'[t] = row[t] \/ (n = 2 /\ t \in gone /\ row'[t] = NoRow)
           /\ tree \ gone \subseteq tree'
<1>1. /\ row \in [Traces -> [status : Statuses, count : Nat]]
      /\ detailOf \in [Spans -> 0..opened] /\ labelOf \in [Spans -> 0..opened]
      /\ opened \in Nat
  BY HandedOut DEF MemoryInv, TypeOK, StoreType
<1>2. CASE UNCHANGED storeVars
  BY <1>1, <1>2 DEF storeVars
<1>3. CASE n = 1 /\ WithoutDetails(gone)
  <2>1. /\ detailOf' = [s \in Spans |-> IF detailOf[s] \in gone THEN 0 ELSE detailOf[s]]
        /\ labelOf' = [s \in Spans |-> IF labelOf[s] \in gone THEN 0 ELSE labelOf[s]]
        /\ tree' = tree \ gone /\ row' = row
    BY <1>3 DEF WithoutDetails
  <2>2. detailOf' \in [Spans -> 0..opened] /\ labelOf' \in [Spans -> 0..opened]
    BY <1>1, <2>1
  <2>3. \A s \in Spans : /\ detailOf'[s] = detailOf[s] \/ (detailOf[s] \in gone /\ detailOf'[s] = 0)
                         /\ labelOf'[s] = labelOf[s] \/ (labelOf[s] \in gone /\ labelOf'[s] = 0)
    BY <2>1
  <2> QED
    BY <1>1, <2>1, <2>2, <2>3
<1>4. CASE n = 2 /\ WithoutSummaries(gone)
  <2>1. /\ row' = [t \in Traces |-> IF t \in gone THEN NoRow ELSE row[t]]
        /\ UNCHANGED <<detailOf, labelOf, tree>>
    BY <1>4 DEF WithoutSummaries
  <2>2. NoRow \in [status : Statuses, count : Nat]
    BY DEF NoRow, Statuses
  <2>3. row' \in [Traces -> [status : Statuses, count : Nat]]
    BY <1>1, <2>1, <2>2
  <2>4. \A t \in Traces : row'[t] = row[t] \/ (n = 2 /\ t \in gone /\ row'[t] = NoRow)
    BY <1>4, <2>1
  <2> QED
    BY <1>1, <2>1, <2>3, <2>4
<1> QED
  BY <1>2, <1>3, <1>4 DEF Statement

\* Deleting rows takes nothing from what the process remembers.
LEMMA DeleteMemory ==
    ASSUME MemoryInv,
           row' \in [Traces -> [status : Statuses, count : Nat]],
           detailOf' \in [Spans -> 0..opened], labelOf' \in [Spans -> 0..opened],
           tree' \subseteq tree,
           \A s \in Spans : /\ detailOf'[s] = detailOf[s] \/ detailOf'[s] = 0
                            /\ labelOf'[s] = labelOf[s] \/ labelOf'[s] = 0,
           \A t \in Traces : row'[t] = row[t] \/ row'[t] = NoRow,
           storeFailures' \in 0..MaxStoreFailures, UNCHANGED <<crashes, blip>>,
           UNCHANGED <<streamVars, traceVars, closeVars, handlerVars, dedupVars>>,
           UNCHANGED <<shown, lost, swept>>
    PROVE  MemoryInv'
<1>1. StreamType'
  BY DEF MemoryInv, TypeOK, StreamType, streamVars, dedupVars
<1>2. TraceType'
  BY DEF MemoryInv, TypeOK, TraceType, traceVars, closeVars
<1>3. HandlerType'
  BY DEF MemoryInv, TypeOK, HandlerType, handlerVars, traceVars, streamVars
<1>4. StoreType'
  BY DEF MemoryInv, TypeOK, StoreType, traceVars
<1>5. WorkLeft' /\ SpanInHand'
  BY DEF MemoryInv, WorkLeft, SpanInHand, handlerVars, traceVars, streamVars
<1>6. FreshTraces' /\ ClosedRows'
  BY DEF MemoryInv, FreshTraces, ClosedRows, NoRow, handlerVars, traceVars, closeVars
<1>7. LivingTraces' /\ SeenJoined' /\ AssembledOnce'
  <2>1. LivingTraces'
    BY DEF MemoryInv, LivingTraces, Entries, traceVars, closeVars, dedupVars
  <2>2. SeenJoined'
    BY DEF MemoryInv, SeenJoined, Entries, traceVars, dedupVars
  <2>3. AssembledOnce'
    BY DEF MemoryInv, AssembledOnce, traceVars, dedupVars
  <2> QED
    BY <2>1, <2>2, <2>3
<1>8. OwnRows'
  BY DEF MemoryInv, OwnRows, traceVars, closeVars
<1> QED
  BY <1>1, <1>2, <1>3, <1>4, <1>5, <1>6, <1>7, <1>8 DEF MemoryInv, TypeOK

\* Both statements of a run, and both of their outcomes.
LEMMA DeleteFacts ==
    ASSUME MemoryInv, StorageType, NEW n \in {1, 2}, Delete(n),
           NEW before, before = IF n = 1 THEN now - Keep ELSE cutoff,
           NEW gone, gone = {t \in Traces : Expired(t, before)}
    PROVE  /\ deleting <=> (n = 2)
           /\ Statement(n, gone) \/ UNCHANGED storeVars
           /\ storeFailures' \in 0..MaxStoreFailures /\ UNCHANGED <<crashes, blip>>
           /\ deleting' \in BOOLEAN
           /\ deleting' => n = 1 /\ Statement(1, gone) /\ cutoff' = before
           /\ cutoff' \in Int /\ before \in Int
           /\ fate' = [t \in Traces |-> IF t \in gone /\ fate[t] = "kept" THEN "aged" ELSE fate[t]]
           /\ UNCHANGED <<streamVars, traceVars, closeVars, handlerVars, dedupVars>>
           /\ UNCHANGED <<shown, lost, swept, page>>
<1>1. now \in Int /\ Keep \in Int /\ cutoff \in Int /\ storeFailures \in 0..MaxStoreFailures
  BY DEF MemoryInv, TypeOK, StreamType, HandlerType, StorageType
<1>2. before \in Int
  BY <1>1
<1>3. /\ deleting <=> (n = 2)
      /\ \/ Statement(n, gone) /\ deleting' = (n = 1) /\ UNCHANGED faultVars
         \/ (Statement(n, gone) \/ UNCHANGED storeVars) /\ DeleteFails
      /\ cutoff' = IF deleting' THEN before ELSE 0
      /\ Marked(gone)
      /\ UNCHANGED <<streamVars, traceVars, closeVars, handlerVars, dedupVars>>
      /\ UNCHANGED <<shown, lost, swept, page>>
  BY DEF Delete
<1>4. /\ Statement(n, gone) \/ UNCHANGED storeVars
      /\ storeFailures' \in 0..MaxStoreFailures /\ UNCHANGED <<crashes, blip>>
      /\ deleting' \in BOOLEAN
      /\ deleting' => n = 1 /\ Statement(1, gone)
  <2>1. CASE Statement(n, gone) /\ deleting' = (n = 1) /\ UNCHANGED faultVars
    <3>1. UNCHANGED <<storeFailures, crashes, blip>>
      BY <2>1 DEF faultVars
    <3>2. deleting' \in BOOLEAN /\ (deleting' => n = 1)
      BY <2>1
    <3>3. n = 1 => Statement(1, gone)
      BY <2>1
    <3> QED
      BY <1>1, <2>1, <3>1, <3>2, <3>3
  <2>2. CASE (Statement(n, gone) \/ UNCHANGED storeVars) /\ DeleteFails
    <3>1. deleting' = FALSE /\ UNCHANGED <<crashes, blip>>
      BY <2>2 DEF DeleteFails
    <3>2. storeFailures' \in 0..MaxStoreFailures
      BY <1>1, <2>2 DEF DeleteFails
    <3> QED
      BY <2>2, <3>1, <3>2
  <2> QED
    BY <1>3, <2>1, <2>2
<1>5. cutoff' \in Int /\ (deleting' => cutoff' = before)
  BY <1>2, <1>3
<1> QED
  BY <1>2, <1>3, <1>4, <1>5 DEF Marked

LEMMA RetainStep ==
    ASSUME StorageInv, Retain
    PROVE  StorageInv'
<1>1. PICK n \in {1, 2} : Delete(n)
  BY DEF Retain
<1>2. PICK before : before = IF n = 1 THEN now - Keep ELSE cutoff
  OBVIOUS
<1>3. PICK gone : gone = {t \in Traces : Expired(t, before)}
  OBVIOUS
<1>4. MemoryInv /\ StorageType /\ gone \in SUBSET Traces
  BY <1>3 DEF StorageInv
<1>5. /\ deleting <=> (n = 2)
      /\ Statement(n, gone) \/ UNCHANGED storeVars
      /\ storeFailures' \in 0..MaxStoreFailures /\ UNCHANGED <<crashes, blip>>
      /\ deleting' \in BOOLEAN
      /\ deleting' => n = 1 /\ Statement(1, gone) /\ cutoff' = before
      /\ cutoff' \in Int /\ before \in Int
      /\ fate' = [t \in Traces |-> IF t \in gone /\ fate[t] = "kept" THEN "aged" ELSE fate[t]]
      /\ UNCHANGED <<streamVars, traceVars, closeVars, handlerVars, dedupVars>>
      /\ UNCHANGED <<shown, lost, swept, page>>
  BY <1>1, <1>2, <1>3, <1>4, DeleteFacts
<1>6. /\ row' \in [Traces -> [status : Statuses, count : Nat]]
      /\ detailOf' \in [Spans -> 0..opened] /\ labelOf' \in [Spans -> 0..opened]
      /\ tree' \subseteq tree
      /\ \A s \in Spans : /\ detailOf'[s] = detailOf[s] \/ (detailOf[s] \in gone /\ detailOf'[s] = 0)
                          /\ labelOf'[s] = labelOf[s] \/ (labelOf[s] \in gone /\ labelOf'[s] = 0)
      /\ \A t \in Traces : row'[t] = row[t] \/ (n = 2 /\ t \in gone /\ row'[t] = NoRow)
      /\ tree \ gone \subseteq tree'
  BY <1>4, <1>5, StatementFacts
<1>7. UNCHANGED <<opened, members, start, life, phase, unlabelled, pc, span, trace, queue, forgotten>>
  BY <1>5 DEF streamVars, traceVars, closeVars, handlerVars, dedupVars
<1>8. MemoryInv'
  BY <1>4, <1>5, <1>6, DeleteMemory
<1>9. StorageType'
  BY <1>4, <1>5 DEF StorageType
<1>10. \A t \in Traces : 0 # t
  BY <1>4, HandedOut
<1>11. \A t \in Traces : /\ Emptied(t) => Emptied(t)'
                         /\ Disturbed(t)' <=> Disturbed(t)
                         /\ fate[t] # "kept" => fate'[t] # "kept"
  <2> SUFFICES ASSUME NEW t \in Traces
               PROVE  /\ Emptied(t) => Emptied(t)'
                      /\ Disturbed(t)' <=> Disturbed(t)
                      /\ fate[t] # "kept" => fate'[t] # "kept"
    OBVIOUS
  <2>1. Emptied(t) => Emptied(t)'
    BY <1>6, <1>10 DEF Emptied, Payload, Labels
  <2>2. fate'[t] = "late" <=> fate[t] = "late"
    BY <1>5
  <2>3. Disturbed(t)' <=> Disturbed(t)
    BY <1>5, <1>7, <2>2 DEF Disturbed
  <2> QED
    BY <1>5, <2>1, <2>3
<1>12. RowOrGone'
  <2> SUFFICES ASSUME NEW t \in 1..opened, ~Disturbed(t)'
               PROVE  \/ HasRow(t)'
                      \/ fate'[t] # "kept" /\ Emptied(t)'
                      \/ phase[t] \in {"labels", "row"}
                      \/ phase[t] = "open" /\ pc \in {"insert", "upsert"} /\ trace = t /\ span \notin Terminal
    BY <1>7 DEF RowOrGone
  <2>1. t \in Traces /\ ~Disturbed(t)
    BY <1>4, <1>11, HandedOut
  <2>2. CASE HasRow(t)
    <3>1. CASE row'[t] = row[t]
      BY <2>2, <3>1 DEF HasRow
    <3>2. CASE n = 2 /\ t \in gone
      <4>1. Expired(t, cutoff) /\ deleting
        BY <1>2, <1>3, <1>5, <3>2
      <4>2. Emptied(t)
        BY <2>1, <4>1 DEF StorageInv, DetailsGoFirst
      <4>3. fate'[t] # "kept"
        BY <1>5, <2>1, <3>2
      <4> QED
        BY <1>11, <2>1, <4>2, <4>3
    <3> QED
      BY <1>6, <2>1, <3>1, <3>2
  <2>3. CASE ~HasRow(t)
    BY <1>11, <2>1, <2>3 DEF StorageInv, RowOrGone
  <2> QED
    BY <2>2, <2>3
<1>13. DetailsGoFirst'
  <2> SUFFICES ASSUME deleting', NEW t \in Traces, Expired(t, cutoff)'
               PROVE  Emptied(t)'
    BY DEF DetailsGoFirst
  <2>1. n = 1 /\ WithoutDetails(gone) /\ cutoff' = before
    BY <1>5 DEF Statement
  <2>2. t \in gone
    <3>1. row'[t] = row[t] /\ start'[t] = start[t]
      BY <1>6, <1>7, <2>1
    <3> QED
      BY <1>3, <2>1, <3>1 DEF Expired, HasRow
  <2>3. /\ \A s \in Spans : detailOf'[s] # t /\ labelOf'[s] # t
        /\ t \notin tree'
    BY <1>10, <2>1, <2>2 DEF WithoutDetails
  <2> QED
    BY <2>3 DEF Emptied, Payload, Labels
<1>14. \A t \in Traces : Whole(t)' => Whole(t) /\ t \notin gone
  BY <1>5 DEF Whole
<1>15. \A t \in 1..opened : \A s : /\ Unwritten(t, s) => Unwritten(t, s)'
                                   /\ Elsewhere(t, s) => Elsewhere(t, s)'
                                   /\ MayEnd(t, s) => MayEnd(t, s)'
  BY <1>5, <1>7 DEF Unwritten, Elsewhere, Entries, MayEnd
<1>20. \A t \in Traces : Told(t)' => Told(t)
  BY <1>5, <1>6, <1>7 DEF Told, NoRow
<1>16. members \in [Traces -> SUBSET Spans]
  BY <1>4 DEF MemoryInv, TypeOK, TraceType
<1>17. DetailsKept'
  <2> SUFFICES ASSUME NEW t \in 1..opened, Whole(t)', NEW s \in members[t]
               PROVE  \/ detailOf'[s] = t \/ Elsewhere(t, s)'
                      \/ Unwritten(t, s)' /\ (Told(t)' => MayEnd(t, s)')
    BY <1>7 DEF DetailsKept
  <2>1. t \in Traces /\ s \in Spans
    BY <1>4, <1>16, HandedOut
  <2>2. Whole(t) /\ t \notin gone
    BY <1>14, <2>1
  <2>3. \/ detailOf[s] = t \/ Elsewhere(t, s)
        \/ Unwritten(t, s) /\ (Told(t) => MayEnd(t, s))
    BY <2>2 DEF StorageInv, DetailsKept
  <2>4. detailOf[s] = t => detailOf'[s] = t
    BY <1>6, <2>1, <2>2
  <2> QED
    BY <1>15, <1>20, <2>1, <2>3, <2>4
<1>18. ClosingKept'
  <2> SUFFICES ASSUME NEW t \in 1..opened, Whole(t)'
               PROVE  /\ phase[t] = "labels" =>
                            \A s \in members[t] \ unlabelled[t] : Labelled(t, s)'
                      /\ Told(t)' => t \in tree' /\ \A s \in members[t] : Labelled(t, s)'
    BY <1>7 DEF ClosingKept
  <2>1. t \in Traces
    BY <1>4, HandedOut
  <2>2. Whole(t) /\ t \notin gone
    BY <1>14, <2>1
  <2>3. \A s \in members[t] : Labelled(t, s) => Labelled(t, s)'
    BY <1>6, <1>15, <1>16, <2>1, <2>2 DEF Labelled
  <2>4. Told(t)' => Told(t)
    BY <1>20, <2>1
  <2>5. /\ phase[t] = "labels" => \A s \in members[t] \ unlabelled[t] : Labelled(t, s)
        /\ Told(t) => t \in tree /\ \A s \in members[t] : Labelled(t, s)
    BY <2>2 DEF StorageInv, ClosingKept
  <2> QED
    BY <1>6, <2>2, <2>3, <2>4, <2>5
<1>19. PageClosed' /\ LabellingNow'
  BY <1>5, <1>7 DEF StorageInv, PageClosed, LabellingNow
<1> QED
  BY <1>8, <1>9, <1>12, <1>13, <1>17, <1>18, <1>19 DEF StorageInv

-----------------------------------------------------------------------------
(* The reader, and the whole.                                              *)

\* Steps of the reader change its page only: nobody else's variables.
LEMMA ReadStep ==
    ASSUME StorageInv, UNCHANGED <<vars, retentionVars, fate>>,
           \/ page' = NoPage
           \/ UNCHANGED page
           \/ \E t \in Watched : HasRow(t) /\ page' = Asked([NoPage EXCEPT !.trace = t], Queries[1])
    PROVE  StorageInv'
<1>1. MemoryInv'
  BY StutterStep DEF StorageInv
<1>2. UNCHANGED <<streamVars, traceVars, closeVars, handlerVars, storeVars, faultVars,
                  dedupVars, lost, swept, deleting, cutoff, fate>>
  BY DEF vars, retentionVars
<1>3. UNCHANGED <<queue, opened, members, start, life, phase, unlabelled, pc, span, trace,
                  row, detailOf, labelOf, tree, blip, crashes, forgotten, lost, swept,
                  deleting, cutoff, fate>>
  BY <1>2 DEF streamVars, traceVars, closeVars, handlerVars, storeVars, faultVars, dedupVars
<1>4. /\ page' \in [trace : Traces \cup {0}, status : Statuses, spans : SUBSET Spans,
                    labels : SUBSET Spans, tree : BOOLEAN]
      /\ page'.status = "closed" =>
            \/ page' = page
            \/ /\ page'.trace \in Traces /\ row[page'.trace].status = "closed"
  <2>1. NoPage \in [trace : Traces \cup {0}, status : Statuses, spans : SUBSET Spans,
                    labels : SUBSET Spans, tree : BOOLEAN]
    BY DEF NoPage, Statuses
  <2>2. CASE page' = NoPage
    BY <2>1, <2>2 DEF NoPage
  <2>3. CASE UNCHANGED page
    BY <2>3 DEF StorageInv, StorageType
  <2>4. ASSUME NEW t \in Watched, page' = Asked([NoPage EXCEPT !.trace = t], Queries[1])
        PROVE  /\ page' \in [trace : Traces \cup {0}, status : Statuses, spans : SUBSET Spans,
                             labels : SUBSET Spans, tree : BOOLEAN]
               /\ page'.trace = t /\ page'.status = row[t].status /\ t \in Traces
    <3>1. page' = [trace |-> t, status |-> row[t].status, spans |-> {}, labels |-> {}, tree |-> FALSE]
      BY <2>4 DEF Asked, Queries, NoPage
    <3>2. t \in Traces /\ row[t].status \in Statuses
      BY <2>4 DEF StorageInv, MemoryInv, TypeOK, StoreType
    <3> QED
      BY <3>1, <3>2
  <2> QED
    BY <2>2, <2>3, <2>4
<1>5. StorageType'
  BY <1>3, <1>4 DEF StorageInv, StorageType
<1>6. RowOrGone' /\ DetailsGoFirst'
  BY <1>3 DEF StorageInv, RowOrGone, DetailsGoFirst, Disturbed, HasRow, Emptied, Payload, Labels,
              Expired
<1>7. DetailsKept'
  <2>1. \A t \in 1..opened : \A s : /\ Unwritten(t, s)' <=> Unwritten(t, s)
                                    /\ Elsewhere(t, s)' <=> Elsewhere(t, s)
                                    /\ MayEnd(t, s)' <=> MayEnd(t, s)
    BY <1>3 DEF Unwritten, Elsewhere, MayEnd, Entries
  <2>2. \A t \in 1..opened : Whole(t)' <=> Whole(t)
    BY <1>3 DEF Whole
  <2>3. \A t \in 1..opened : Told(t)' => Told(t)
    BY <1>3, <1>4 DEF Told
  <2> QED
    BY <1>3, <2>1, <2>2, <2>3 DEF StorageInv, DetailsKept
<1>8. \A t \in 1..opened : /\ Whole(t)' => Whole(t)
                           /\ \A s : Labelled(t, s) => Labelled(t, s)'
                           /\ Told(t)' => Told(t)
  BY <1>3, <1>4 DEF Whole, Labelled, Elsewhere, Told
<1>9. ClosingKept'
  BY <1>3, <1>8 DEF StorageInv, ClosingKept
<1>10. PageClosed'
  <2> SUFFICES ASSUME page'.status = "closed"
               PROVE  /\ page'.trace \in 1..opened
                      /\ phase[page'.trace] \in {"event", "done", "dead"}
    BY <1>3 DEF PageClosed
  <2>1. CASE page' = page
    BY <2>1 DEF StorageInv, PageClosed
  <2>2. CASE page'.trace \in Traces /\ row[page'.trace].status = "closed"
    <3>1. page'.trace \in 1..opened
      BY <2>2, HandedOut DEF StorageInv, HasRow
    <3> QED
      BY <2>2, <3>1 DEF StorageInv, MemoryInv, ClosedRows
  <2> QED
    BY <1>4, <2>1, <2>2
<1>11. LabellingNow'
  BY <1>3 DEF StorageInv, LabellingNow
<1> QED
  BY <1>1, <1>5, <1>6, <1>7, <1>9, <1>10, <1>11 DEF StorageInv

LEMMA StorageInitInv == StorageInit => StorageInv
<1> SUFFICES ASSUME StorageInit PROVE StorageInv
  OBVIOUS
<1>1. MemoryInv /\ opened = 0
  BY MemoryInit DEF StorageInit, Init
<1>2. StorageType
  <2>1. NoPage \in [trace : Traces \cup {0}, status : Statuses, spans : SUBSET Spans,
                    labels : SUBSET Spans, tree : BOOLEAN]
    BY DEF NoPage, Statuses
  <2>2. fate \in [Traces -> {"kept", "aged", "late"}]
    BY DEF StorageInit
  <2>3. deleting \in BOOLEAN /\ page = NoPage
    BY Zenon DEF StorageInit
  <2>4. cutoff \in Int
    BY DEF StorageInit
  <2> QED
    BY <2>1, <2>2, <2>3, <2>4 DEF StorageType
<1>3. RowOrGone /\ DetailsGoFirst /\ DetailsKept /\ ClosingKept /\ PageClosed /\ LabellingNow
  BY <1>1 DEF StorageInit, RowOrGone, DetailsGoFirst, DetailsKept, ClosingKept, PageClosed, NoPage,
              LabellingNow
<1> QED
  BY <1>1, <1>2, <1>3 DEF StorageInv

LEMMA StorageStep == StorageInv /\ [StorageNext]_allVars => StorageInv'
<1> SUFFICES ASSUME StorageInv, [StorageNext]_allVars PROVE StorageInv'
  OBVIOUS
<1>1. CASE ProcessorStep
  <2>1. /\ MemoryInv /\ StorageType /\ RowOrGone /\ DetailsGoFirst
        /\ DetailsKept /\ ClosingKept /\ PageClosed /\ LabellingNow
    BY DEF StorageInv
  <2>2. MemoryInv'
    BY <1>1, <2>1, MemoryStep DEF ProcessorStep
  <2>3. StorageType'
    <3>1. fate' \in [Traces -> {"kept", "aged", "late"}]
      BY <1>1, <2>1 DEF ProcessorStep, StorageType
    <3>2. deleting' \in BOOLEAN /\ cutoff' \in Int
      <4>1. UNCHANGED <<deleting, cutoff>> \/ (deleting' = FALSE /\ cutoff' = 0)
        BY <1>1 DEF ProcessorStep, retentionVars
      <4>2. deleting' \in BOOLEAN
        BY Zenon, <2>1, <4>1 DEF StorageType
      <4>3. cutoff' \in Int
        BY <2>1, <4>1 DEF StorageType
      <4> QED
        BY <4>2, <4>3
    <3>3. page' \in [trace : Traces \cup {0}, status : Statuses, spans : SUBSET Spans,
                     labels : SUBSET Spans, tree : BOOLEAN]
      BY <1>1, <2>1 DEF ProcessorStep, StorageType
    <3> QED
      BY <3>1, <3>2, <3>3 DEF StorageType
  <2>4. PageClosed'
    BY <1>1, <2>1, PageClosedStep
  <2> QED
    BY <1>1, <2>1, <2>2, <2>3, <2>4, RowOrGoneStep, DetailsGoFirstStep, DetailsKeptStep,
       ClosingKeptStep, LabellingNowStep DEF StorageInv
<1>2. CASE Retain
  BY <1>2, RetainStep
<1>3. CASE BeginRead
  BY <1>3, ReadStep DEF BeginRead
<1>4. CASE EndRead
  BY <1>4, ReadStep DEF EndRead
<1>5. CASE UNCHANGED allVars
  BY <1>5, ReadStep DEF allVars
<1> QED
  BY <1>1, <1>2, <1>3, <1>4, <1>5 DEF StorageNext

\* The invariant that ties the rows, the retention run and the reader's page to
\* the memory of the processor holds in every reachable state.
THEOREM StorageInvariant == StorageSpec => []StorageInv
BY StorageInitInv, StorageStep, PTL DEF StorageSpec

\* Retention, cut short anywhere, by a failing statement or a crash, leaves no
\* detail row without its summary, unless the trace was written to while it was
\* being deleted.
THEOREM NoUnqueryableDetails == StorageSpec => []DetailsHaveSummary
<1>1. StorageInv => DetailsHaveSummary
  <2> SUFFICES ASSUME StorageInv, NEW t \in 1..opened, AtRest(t), ~HasRow(t), ~Disturbed(t)
               PROVE  Payload(t) = {} /\ Labels(t) = {} /\ t \notin tree
    BY DEF DetailsHaveSummary
  <2>1. Emptied(t)
    BY DEF StorageInv, RowOrGone, AtRest
  <2> QED
    BY <2>1 DEF Emptied
<1> QED
  BY <1>1, StorageInvariant, PTL

\* GetTrace asks for the summary and then for the details: when the summary said
\* closed the tree and the labels are there, and the details of every span that
\* did not end the trace, whatever was written in between.
LEMMA PageMissesOnlyLast ==
    ASSUME StorageInv, page # NoPage, Answer.status = "closed",
           NEW t, t = Answer.trace, Whole(t)
    PROVE  /\ Answer.tree
           /\ \A s \in members[t] :
                 /\ s \in Answer.labels \/ Elsewhere(t, s)
                 /\ \/ s \in Answer.spans \/ Elsewhere(t, s)
                    \/ Unwritten(t, s) /\ MayEnd(t, s)
<1>1. page \in [trace : Traces \cup {0}, status : Statuses, spans : SUBSET Spans,
                labels : SUBSET Spans, tree : BOOLEAN]
  BY DEF StorageInv, StorageType
<1>2. Answer = [page EXCEPT !.spans = Payload(page.trace), !.labels = Labels(page.trace),
                            !.tree = page.trace \in tree]
  BY DEF Answer, Asked, Queries
<1>3. /\ Answer.status = page.status /\ Answer.trace = page.trace
      /\ Answer.spans = Payload(page.trace) /\ Answer.labels = Labels(page.trace)
      /\ Answer.tree = (page.trace \in tree)
  BY <1>1, <1>2
<1>4. t = page.trace /\ page.status = "closed"
  BY <1>3
<1>5. t \in 1..opened /\ t \in Traces
  BY <1>4, HandedOut DEF StorageInv, PageClosed
<1>6. Told(t)
  BY <1>4 DEF Told
<1>7. t \in tree /\ \A s \in members[t] : Labelled(t, s)
  BY <1>5, <1>6 DEF StorageInv, ClosingKept
<1>8. \A s \in members[t] : \/ detailOf[s] = t \/ Elsewhere(t, s)
                            \/ Unwritten(t, s) /\ MayEnd(t, s)
  BY <1>5, <1>6 DEF StorageInv, DetailsKept
<1>9. members[t] \subseteq Spans
  BY <1>5 DEF StorageInv, MemoryInv, TypeOK, TraceType
<1>10. \A s \in members[t] : /\ labelOf[s] = t => s \in Answer.labels
                             /\ detailOf[s] = t => s \in Answer.spans
  BY <1>3, <1>4, <1>9 DEF Payload, Labels
<1> QED
  BY <1>3, <1>4, <1>7, <1>8, <1>10 DEF Labelled

\* A page that says closed has the tree, every label, and the payload of every span
\* but the one that ended the trace while that is being inserted, for any number
\* of writers' steps between the two queries.
THEOREM ClosedPagesMissOnlyLast == StorageSpec => ClosedPageMissesOnlyLast
<1>1. StorageInv /\ [StorageNext]_allVars =>
        [page # NoPage /\ page' = NoPage /\ Answer.status = "closed" =>
            LET t == Answer.trace
            IN Whole(t) =>
                  /\ Answer.tree
                  /\ \A s \in members[t] :
                        /\ s \in Answer.labels \/ Elsewhere(t, s)
                        /\ \/ s \in Answer.spans \/ Elsewhere(t, s)
                           \/ Unwritten(t, s) /\ MayEnd(t, s)]_allVars
  BY PageMissesOnlyLast
<1> QED
  BY <1>1, StorageInvariant, PTL DEF StorageSpec, ClosedPageMissesOnlyLast
=============================================================================
