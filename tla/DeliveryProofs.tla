--------------------------- MODULE DeliveryProofs ---------------------------
(***************************************************************************)
(* Proofs about Delivery, for every buffer cap, every set of invalid spans *)
(* and any number of spans, faults and failed publishes.                   *)
(***************************************************************************)
EXTENDS Delivery, SequenceTheorems, FiniteSetTheorems, TLAPS

USE ModesAssumption, CapAssumption, InvalidAssumption, BoundsAssumption

-----------------------------------------------------------------------------
(* Facts about the buffer and the queues.                                  *)

\* The cap keeps a suffix: nothing appears, and what is left out is Oldest.
LEMMA NewestFacts ==
    ASSUME NEW S, NEW s \in Seq(S)
    PROVE  LET m == IF Len(s) > Cap THEN Len(s) - Cap ELSE 0
           IN /\ m \in Nat
              /\ Newest(s) \in Seq(S)
              /\ Len(Newest(s)) = Len(s) - m
              /\ Len(Newest(s)) <= Cap
              /\ \A i \in 1..Len(Newest(s)) : Newest(s)[i] = s[m + i]
              /\ Oldest(s) = {s[i] : i \in 1..m}
              /\ Oldest(s) \subseteq S
<1>1. Len(s) \in Nat /\ \A i \in 1..Len(s) : s[i] \in S
  BY ElementOfSeq
<1>2. CASE Len(s) <= Cap
  BY <1>1, <1>2 DEF Newest, Oldest
<1>3. CASE Len(s) > Cap
  <2> DEFINE a == Len(s) - Cap + 1
  <2>1. a \in Int /\ Len(s) \in Int /\ \A i \in a..Len(s) : s[i] \in S
    BY <1>1, <1>3
  <2>2. /\ SubSeq(s, a, Len(s)) \in Seq(S)
        /\ Len(SubSeq(s, a, Len(s))) = IF a <= Len(s) THEN Len(s) - a + 1 ELSE 0
        /\ \A i \in 1..(Len(s) - a + 1) : SubSeq(s, a, Len(s))[i] = s[a + i - 1]
    BY <2>1, SubSeqProperties
  <2>3. Newest(s) = SubSeq(s, a, Len(s))
    BY <1>3 DEF Newest
  <2>4. a = Len(s) - Cap + 1
    OBVIOUS
  <2> HIDE DEF a
  <2>5. \A i \in 1..Cap : a + i - 1 = (Len(s) - Cap) + i
    BY <2>4, <1>1
  <2>6. Len(s) - a + 1 = Cap /\ a <= Len(s)
    BY <2>4, <1>1
  <2>7. Newest(s) \in Seq(S) /\ Len(Newest(s)) = Cap
    BY <1>1, <2>2, <2>3, <2>6
  <2>8. \A i \in 1..Cap : Newest(s)[i] = s[(Len(s) - Cap) + i]
    BY <2>2, <2>3, <2>5, <2>6
  <2>9. /\ Oldest(s) = {s[i] : i \in 1..(Len(s) - Cap)}
        /\ \A i \in 1..(Len(s) - Cap) : i \in 1..Len(s)
    BY <1>1, CapAssumption DEF Oldest
  <2>10. Oldest(s) \subseteq S
    BY <1>1, <2>9
  <2>11. Len(s) - Cap \in Nat /\ Cap \in Nat
    BY <1>1, <1>3, CapAssumption
  <2> PICK n \in Nat : n = Len(s) - Cap
    BY <2>11
  <2>12. n = IF Len(s) > Cap THEN Len(s) - Cap ELSE 0
    BY <1>3
  <2>13. Len(Newest(s)) = Len(s) - n /\ Len(Newest(s)) <= Cap
    BY <1>1, <2>7, <2>11
  <2>14. \A i \in 1..Len(Newest(s)) : Newest(s)[i] = s[n + i]
    BY <2>7, <2>8
  <2>15. Oldest(s) = {s[i] : i \in 1..n}
    BY <2>9
  <2> QED
    BY <2>7, <2>10, <2>12, <2>13, <2>14, <2>15, Zenon
<1> QED
  BY <1>1, <1>2, <1>3

\* What is left of a sequence after its first n elements.
LEMMA SuffixFacts ==
    ASSUME NEW S, NEW s \in Seq(S), NEW n \in 0..Len(s)
    PROVE  LET t == SubSeq(s, n + 1, Len(s))
           IN /\ t \in Seq(S)
              /\ Len(t) = Len(s) - n
              /\ \A i \in 1..Len(t) : t[i] = s[n + i]
<1>1. Len(s) \in Nat /\ \A i \in 1..Len(s) : s[i] \in S
  BY ElementOfSeq
<1>2. n + 1 \in Int /\ Len(s) \in Int /\ \A i \in (n + 1)..Len(s) : s[i] \in S
  BY <1>1
<1> DEFINE a == n + 1
<1>3. /\ SubSeq(s, a, Len(s)) \in Seq(S)
      /\ Len(SubSeq(s, a, Len(s))) = IF a <= Len(s) THEN Len(s) - a + 1 ELSE 0
      /\ \A i \in 1..(Len(s) - a + 1) : SubSeq(s, a, Len(s))[i] = s[a + i - 1]
  BY <1>2, SubSeqProperties
<1>4. Len(s) - a + 1 = Len(s) - n /\ (a <= Len(s) <=> n < Len(s))
  BY <1>1
<1>5. \A i \in Int : a + i - 1 = n + i
  OBVIOUS
<1>6. SubSeq(s, n + 1, Len(s)) = SubSeq(s, a, Len(s))
  OBVIOUS
<1> HIDE DEF a
<1>7. SubSeq(s, a, Len(s)) \in Seq(S) /\ Len(SubSeq(s, a, Len(s))) = Len(s) - n
  BY <1>1, <1>3, <1>4
<1>8. \A i \in 1..(Len(s) - n) : SubSeq(s, a, Len(s))[i] = s[a + i - 1]
  BY <1>3, <1>4
<1>9. \A i \in 1..(Len(s) - n) : s[a + i - 1] = s[n + i]
  BY <1>5
<1> QED
  BY <1>6, <1>7, <1>8, <1>9

-----------------------------------------------------------------------------
(* Types.                                                                  *)

LEMMA TypeInit == Init => TypeOK
BY DEF Init, TypeOK, ProxyType, WriterType, NetType, CollectorType, Busy, BoundType, NoBatch

LEMMA TypeStep == TypeOK /\ [Next]_vars => TypeOK'
<1> SUFFICES ASSUME TypeOK, [Next]_vars PROVE TypeOK'
  OBVIOUS
<1>1. CASE Enter
  <2>1. ProxyType'
    BY <1>1 DEF Enter, connected, TypeOK, ProxyType, writerVars, netVars, collectorVars, boundVars
  <2>2. WriterType' /\ NetType' /\ CollectorType' /\ BoundType'
    BY <1>1 DEF Enter, TypeOK, WriterType, NetType, CollectorType, Busy, BoundType, writerVars, netVars, collectorVars, boundVars
  <2> QED
    BY <2>1, <2>2 DEF TypeOK
<1>2. CASE Assign
  <2>1. seq \in Nat /\ seq' = seq + 1 /\ 1..seq \subseteq 1..seq' /\ seq + 1 \in 1..seq'
    BY <1>2 DEF Assign, TypeOK, ProxyType
  <2> DEFINE buf == Enqueued
  <2>2. buf \in Seq(1..seq') /\ Len(buf) = Len(pending) + 1
    <3>1. pending \in Seq(1..seq')
      BY <2>1, SeqMonotonic DEF TypeOK, ProxyType
    <3> QED
      BY <2>1, <3>1, AppendProperties DEF Enqueued
  <2>3. pending' = Newest(buf) /\ evicted' = evicted \cup Oldest(buf)
    BY <1>2 DEF Assign
  <2> HIDE DEF buf
  <2>4. Newest(buf) \in Seq(1..seq') /\ Len(Newest(buf)) <= Cap /\ Oldest(buf) \subseteq 1..seq'
    BY <2>2, NewestFacts
  <2>5. ProxyType'
    <3>1. pending' \in Seq(1..seq') /\ Len(pending') <= Cap
      BY <2>3, <2>4
    <3>2. evicted' \subseteq 1..seq' /\ stranded' \subseteq 1..seq'
      BY <1>2, <2>1, <2>3, <2>4 DEF Assign, TypeOK, ProxyType
    <3>3. /\ offered' \in 0..MaxSpans /\ entering' \in Nat /\ seq' \in Nat
          /\ entering' + seq' <= offered' /\ dropped' \in Nat
      BY <1>2, <2>1 DEF Assign, TypeOK, ProxyType
    <3> QED
      BY <3>1, <3>2, <3>3 DEF ProxyType
  <2>6. WriterType'
    BY <1>2, <2>1 DEF Assign, TypeOK, WriterType, writerVars
  <2>7. NetType'
    <3>1. Seq(1..seq) \subseteq Seq(1..seq')
      BY <2>1, SeqMonotonic
    <3> QED
      BY <1>2, <3>1 DEF Assign, TypeOK, NetType, netVars
  <2>8. CollectorType' /\ BoundType'
    BY <1>2, <2>1 DEF Assign, TypeOK, CollectorType, Busy, BoundType, collectorVars, boundVars
  <2> QED
    BY <2>5, <2>6, <2>7, <2>8 DEF TypeOK
<1>3. CASE Dial
  <2>1. WriterType'
    BY <1>3 DEF Dial, CursorAtStart, NoBatch, TypeOK, WriterType, ProxyType, proxyVars, boundVars
  <2>2. NetType'
    BY <1>3 DEF Dial, CursorAtStart, NoBatch, TypeOK, NetType, proxyVars, boundVars
  <2>3. CollectorType'
    BY <1>3 DEF Dial, CursorAtStart, NoBatch, TypeOK, CollectorType, Busy, WriterType, proxyVars, boundVars
  <2>4. ProxyType' /\ BoundType'
    BY <1>3 DEF Dial, CursorAtStart, TypeOK, ProxyType, BoundType, proxyVars, boundVars
  <2> QED
    BY <2>1, <2>2, <2>3, <2>4 DEF TypeOK
<1>4. CASE Snapshot
  <2>1. WriterType'
    BY <1>4 DEF Snapshot, Unwritten, TypeOK, WriterType, ProxyType, proxyVars, netVars, collectorVars, boundVars
  <2>2. ProxyType' /\ NetType' /\ CollectorType' /\ BoundType'
    BY <1>4 DEF Snapshot, TypeOK, ProxyType, NetType, CollectorType, Busy, BoundType, proxyVars, netVars, collectorVars, boundVars
  <2> QED
    BY <2>1, <2>2 DEF TypeOK
<1>5. CASE Write
  <2>1. WriterType'
    BY <1>5 DEF Write, TypeOK, WriterType, proxyVars, collectorVars, boundVars
  <2>2. NetType'
    <3>1. conn \in Conns /\ \A i \in DOMAIN batch : batch[i] \in 1..seq
      BY <1>5 DEF Write, TypeOK, WriterType, Conns
    <3>2. \A i \in DOMAIN batch : Append(wire[conn], batch[i]) \in Seq(1..seq)
      BY <3>1, AppendProperties DEF TypeOK, NetType
    <3>3. seq' = seq
      BY <1>5 DEF Write, proxyVars
    <3>4. wire' \in [Conns -> Seq(1..seq')]
      BY <1>5, <3>1, <3>2, <3>3 DEF Write, TypeOK, NetType
    <3> QED
      BY <1>5, <3>3, <3>4 DEF Write, TypeOK, NetType
  <2>3. ProxyType' /\ CollectorType' /\ BoundType'
    BY <1>5 DEF Write, TypeOK, ProxyType, CollectorType, Busy, BoundType, proxyVars, collectorVars, boundVars
  <2> QED
    BY <2>1, <2>2, <2>3 DEF TypeOK
<1>6. CASE SessionEnds
  <2>1. WriterType'
    BY <1>6 DEF SessionEnds, NoBatch, TypeOK, WriterType, proxyVars, netVars, collectorVars, boundVars
  <2>2. ProxyType' /\ NetType' /\ CollectorType' /\ BoundType'
    BY <1>6 DEF SessionEnds, TypeOK, ProxyType, NetType, CollectorType, Busy, BoundType, proxyVars, netVars, collectorVars, boundVars
  <2> QED
    BY <2>1, <2>2 DEF TypeOK
<1>7. CASE Hangup
  <2>1. WriterType'
    BY <1>7 DEF Hangup, TypeOK, WriterType, proxyVars, netVars, collectorVars, boundVars
  <2>2. ProxyType' /\ NetType' /\ CollectorType' /\ BoundType'
    BY <1>7 DEF Hangup, TypeOK, ProxyType, NetType, CollectorType, Busy, BoundType, proxyVars, netVars, collectorVars, boundVars
  <2> QED
    BY <2>1, <2>2 DEF TypeOK
<1>8. CASE Strand
  <2>1. ProxyType'
    <3>1. Held \subseteq 1..seq
      BY ElementOfSeq DEF Held, TypeOK, ProxyType
    <3> QED
      BY <1>8, <3>1, EmptySeq DEF Strand, StrandedCount, TypeOK, ProxyType, netVars, collectorVars, boundVars
  <2>2. WriterType'
    BY <1>8, EmptySeq DEF Strand, StrandedCount, Held, TypeOK, WriterType, netVars, collectorVars, boundVars
  <2>3. NetType' /\ CollectorType' /\ BoundType'
    BY <1>8 DEF Strand, StrandedCount, TypeOK, NetType, CollectorType, Busy, BoundType, netVars, collectorVars, boundVars
  <2> QED
    BY <2>1, <2>2, <2>3 DEF TypeOK
<1>9. ASSUME NEW c \in Conns, ReadAck(c) PROVE TypeOK'
  <2>1. ProxyType'
    <3>1. PICK n \in 0..Len(pending) : pending' = SubSeq(pending, n + 1, Len(pending))
      BY <1>9 DEF ReadAck
    <3>2. pending \in Seq(1..seq) /\ Len(pending) <= Cap
      BY DEF TypeOK, ProxyType
    <3>3. pending' \in Seq(1..seq) /\ Len(pending') = Len(pending) - n
      BY <3>1, <3>2, SuffixFacts
    <3>4. Len(pending') <= Cap
      BY <3>2, <3>3, CapAssumption
    <3> QED
      BY <1>9, <3>3, <3>4 DEF ReadAck, TypeOK, ProxyType, writerVars
  <2>2. NetType'
    BY <1>9 DEF ReadAck, TypeOK, NetType, writerVars, collectorVars, boundVars
  <2>3. WriterType' /\ CollectorType' /\ BoundType'
    BY <1>9 DEF ReadAck, TypeOK, WriterType, CollectorType, Busy, BoundType, writerVars, collectorVars, boundVars
  <2> QED
    BY <2>1, <2>2, <2>3 DEF TypeOK
<1>10. ASSUME NEW c \in Conns, ReaderEnds(c) PROVE TypeOK'
  <2>1. NetType'
    BY <1>10 DEF ReaderEnds, TypeOK, NetType, proxyVars, writerVars, collectorVars, boundVars
  <2>2. ProxyType' /\ WriterType' /\ CollectorType' /\ BoundType'
    BY <1>10 DEF ReaderEnds, TypeOK, ProxyType, WriterType, CollectorType, Busy, BoundType, proxyVars, writerVars, collectorVars, boundVars
  <2> QED
    BY <2>1, <2>2 DEF TypeOK
<1>11. ASSUME NEW c \in Conns, Receive(c) PROVE TypeOK'
  <2>0. /\ Head(wire[c]) \in 1..seq /\ Tail(wire[c]) \in Seq(1..seq)
        /\ Append(acks[c], Head(wire[c])) \in Seq(1..seq)
        /\ seq' = seq /\ seq \in Nat
    BY <1>11, HeadTailProperties, AppendProperties
       DEF Receive, TypeOK, NetType, ProxyType, proxyVars
  <2>1. NetType'
    BY <1>11, <2>0 DEF Receive, SendAck, TypeOK, NetType
  <2>2. CollectorType'
    <3>1. CASE Head(wire[c]) \in Invalid
      BY <1>11, <2>0, <3>1 DEF Receive, TypeOK, CollectorType, Busy
    <3>2. CASE Head(wire[c]) \notin Invalid
      <4>1. /\ handler' = [handler EXCEPT ![c] = "publishing"]
            /\ hand' = [hand EXCEPT ![c] = Head(wire[c])]
            /\ up' = up /\ stored' = stored /\ rejected' = rejected
        BY <1>11, <3>2 DEF Receive
      <4>2. Head(wire[c]) \in 0..seq /\ Head(wire[c]) # 0
        BY <2>0
      <4> QED
        BY <2>0, <4>1, <4>2 DEF TypeOK, CollectorType, Busy
    <3> QED
      BY <3>1, <3>2
  <2>3. ProxyType' /\ WriterType' /\ BoundType'
    BY <1>11 DEF Receive, TypeOK, ProxyType, WriterType, BoundType, proxyVars, writerVars, boundVars
  <2> QED
    BY <2>1, <2>2, <2>3 DEF TypeOK
<1>12. ASSUME NEW c \in Conns, TransportStores(c) PROVE TypeOK'
  <2>1. CollectorType'
    <3>1. hand[c] \in 1..seq /\ seq' = seq
      BY <1>12 DEF TransportStores, TypeOK, CollectorType, Busy, ProxyType, proxyVars
    <3> QED
      BY <1>12, <3>1 DEF TransportStores, TypeOK, CollectorType, Busy
  <2>2. ProxyType' /\ WriterType' /\ NetType' /\ BoundType'
    BY <1>12 DEF TransportStores, TypeOK, ProxyType, WriterType, NetType, BoundType, proxyVars, writerVars, netVars, boundVars
  <2> QED
    BY <2>1, <2>2 DEF TypeOK
<1>13. ASSUME NEW c \in Conns, Accept(c) PROVE TypeOK'
  <2>1. NetType'
    BY <1>13, AppendProperties DEF Accept, Published, SendAck, TypeOK, NetType, CollectorType, Busy, proxyVars, writerVars, boundVars
  <2>2. CollectorType'
    BY <1>13, AppendProperties DEF Accept, Published, SendAck, TypeOK, CollectorType, Busy, proxyVars, writerVars, boundVars
  <2>3. ProxyType' /\ WriterType' /\ BoundType'
    BY <1>13 DEF Accept, Published, TypeOK, ProxyType, WriterType, BoundType, proxyVars, writerVars, boundVars
  <2> QED
    BY <2>1, <2>2, <2>3 DEF TypeOK
<1>14. ASSUME NEW c \in Conns, PublishFails(c) PROVE TypeOK'
  <2>1. CollectorType'
    BY <1>14 DEF PublishFails, TypeOK, CollectorType, Busy, proxyVars, writerVars, netVars
  <2>2. BoundType'
    <3>1. hand[c] \in 1..seq /\ seq' = seq
      BY <1>14 DEF PublishFails, TypeOK, CollectorType, Busy, ProxyType, proxyVars
    <3>2. failures' \in 0..MaxPublishFailures
      BY <1>14 DEF PublishFails, Busy, TypeOK, BoundType
    <3>3. failed' \subseteq 1..seq' /\ faults' \in 0..MaxFaults /\ reattach' \in Modes
      BY <1>14, <3>1 DEF PublishFails, Busy, TypeOK, BoundType
    <3> QED
      BY <3>2, <3>3 DEF BoundType
  <2>3. ProxyType' /\ WriterType' /\ NetType'
    BY <1>14 DEF PublishFails, Busy, TypeOK, ProxyType, WriterType, NetType, proxyVars, writerVars, netVars
  <2> QED
    BY <2>1, <2>2, <2>3 DEF TypeOK
<1>15. ASSUME NEW c \in Conns, HandlerEnds(c) PROVE TypeOK'
  <2>1. NetType'
    BY <1>15, EmptySeq DEF HandlerEnds, TypeOK, NetType, proxyVars, writerVars, boundVars
  <2>2. CollectorType'
    BY <1>15, EmptySeq DEF HandlerEnds, TypeOK, CollectorType, Busy, proxyVars, writerVars, boundVars
  <2>3. ProxyType' /\ WriterType' /\ BoundType'
    BY <1>15 DEF HandlerEnds, TypeOK, ProxyType, WriterType, BoundType, proxyVars, writerVars, boundVars
  <2> QED
    BY <2>1, <2>2, <2>3 DEF TypeOK
<1>16. CASE Break
  <2>1. NetType'
    BY <1>16 DEF Break, Cut, TypeOK, NetType, proxyVars, writerVars, collectorVars
  <2>2. BoundType'
    BY <1>16 DEF Break, Cut, TypeOK, BoundType, proxyVars, writerVars, collectorVars
  <2>3. ProxyType' /\ WriterType' /\ CollectorType'
    BY <1>16 DEF Break, TypeOK, ProxyType, WriterType, CollectorType, Busy, proxyVars, writerVars, collectorVars
  <2> QED
    BY <2>1, <2>2, <2>3 DEF TypeOK
<1>17. CASE Crash
  <2>1. NetType'
    BY <1>17, EmptySeq DEF Crash, Cut, TypeOK, NetType, proxyVars, writerVars
  <2>2. CollectorType'
    BY <1>17, EmptySeq DEF Crash, Cut, TypeOK, CollectorType, Busy, proxyVars, writerVars
  <2>3. BoundType'
    BY <1>17, EmptySeq DEF Crash, Cut, TypeOK, BoundType, proxyVars, writerVars
  <2>4. ProxyType' /\ WriterType'
    BY <1>17 DEF Crash, TypeOK, ProxyType, WriterType, proxyVars, writerVars
  <2> QED
    BY <2>1, <2>2, <2>3, <2>4 DEF TypeOK
<1>18. CASE Restart
  <2>1. CollectorType'
    BY <1>18 DEF Restart, TypeOK, CollectorType, Busy, proxyVars, writerVars, netVars, boundVars
  <2>2. ProxyType' /\ WriterType' /\ NetType' /\ BoundType'
    BY <1>18 DEF Restart, TypeOK, ProxyType, WriterType, NetType, BoundType, proxyVars, writerVars, netVars, boundVars
  <2> QED
    BY <2>1, <2>2 DEF TypeOK
<1>19. CASE UNCHANGED vars
  BY <1>19 DEF vars, proxyVars, writerVars, collectorVars, netVars, boundVars, TypeOK,
     ProxyType, WriterType, NetType, CollectorType, Busy, BoundType
<1>20. CASE CountStranded
  <2>1. dropped' \in Nat /\ uncounted' = 0 /\ shipper' = "dial"
    BY <1>20 DEF CountStranded, TypeOK, ProxyType, WriterType
  <2>2. ProxyType'
    BY <1>20, <2>1 DEF CountStranded, TypeOK, ProxyType
  <2>3. WriterType'
    BY <1>20, <2>1 DEF CountStranded, TypeOK, WriterType
  <2>4. NetType' /\ CollectorType' /\ BoundType'
    BY <1>20 DEF CountStranded, TypeOK, NetType, CollectorType, Busy, BoundType, netVars, collectorVars, boundVars
  <2> QED
    BY <2>2, <2>3, <2>4 DEF TypeOK
<1> QED
  BY <1>1, <1>2, <1>3, <1>4, <1>5, <1>6, <1>7, <1>8, <1>9, <1>10, <1>11, <1>12, <1>13,
     <1>14, <1>15, <1>16, <1>17, <1>18, <1>19, <1>20 DEF Next, HandlerStep, ReaderStep

\* Every reachable state of the hand-off is well typed.
THEOREM Typing == Spec => []TypeOK
BY TypeInit, TypeStep, PTL DEF Spec

-----------------------------------------------------------------------------
(* The inductive invariant.                                                *)

LEMMA InvInit == Init => HandOffInv
<1> SUFFICES ASSUME Init PROVE HandOffInv
  OBVIOUS
<1>1. TypeOK
  BY TypeInit
<1>2. Increasing(pending) /\ OnlyFailedPublishLoses
  BY DEF Init, Increasing, OnlyFailedPublishLoses
<1>3. AckCoversSettled /\ CarriedInOrder /\ StreamClosed
  BY DEF Init, AckCoversSettled, CarriedInOrder, Increasing, StreamClosed, Busy
<1>4. CursorClosed /\ BatchClosed /\ FreshConns
  BY DEF Init, CursorClosed, BatchClosed, FreshConns
<1> QED
  BY <1>1, <1>2, <1>3, <1>4 DEF HandOffInv

\* What is settled stays settled, and a failed publish stays recorded.
LEMMA ExcusedGrows == [Next]_vars => Excused \subseteq Excused'
<1> SUFFICES ASSUME [Next]_vars PROVE Excused \subseteq Excused'
  OBVIOUS
<1> USE DEF Excused, Settled, vars, proxyVars, writerVars, collectorVars, netVars, boundVars
<1>1. CASE Enter \/ Assign
  BY <1>1 DEF Enter, Assign
<1>2. CASE Dial \/ Snapshot \/ Write
  BY <1>2 DEF Dial, CursorAtStart, Snapshot, Write
<1>3. CASE SessionEnds \/ Hangup \/ Strand \/ CountStranded
  BY <1>3 DEF SessionEnds, Hangup, Strand, CountStranded
<1>4. ASSUME NEW c \in Conns, ReadAck(c) \/ ReaderEnds(c) PROVE Excused \subseteq Excused'
  BY <1>4 DEF ReadAck, ReaderEnds
<1>5. ASSUME NEW c \in Conns, Receive(c) PROVE Excused \subseteq Excused'
  BY <1>5 DEF Receive
<1>6. ASSUME NEW c \in Conns, TransportStores(c) \/ Accept(c) PROVE Excused \subseteq Excused'
  BY <1>6 DEF TransportStores, Accept, Published
<1>7. ASSUME NEW c \in Conns, PublishFails(c) \/ HandlerEnds(c) PROVE Excused \subseteq Excused'
  BY <1>7 DEF PublishFails, Busy, HandlerEnds
<1>8. CASE Break \/ Crash \/ Restart
  BY <1>8 DEF Break, Crash, Restart
<1>9. CASE UNCHANGED vars
  BY <1>9
<1> QED
  BY <1>1, <1>2, <1>3, <1>4, <1>5, <1>6, <1>7, <1>8, <1>9 DEF Next, HandlerStep, ReaderStep

\* The parts of the invariant that say what the connections carry depend on
\* the proxy's side only through the settled spans.
CarryInv == AckCoversSettled /\ CarriedInOrder /\ StreamClosed
carryVars == <<wire, hand, handler, acks>>

LEMMA CarryFrame ==
    ASSUME CarryInv, Excused \subseteq Excused', UNCHANGED carryVars
    PROVE  CarryInv'
BY DEF CarryInv, carryVars, AckCoversSettled, CarriedInOrder, Increasing, StreamClosed,
       Covered, InFlight, Busy

LEMMA CursorFrame ==
    ASSUME CursorClosed, Excused \subseteq Excused', UNCHANGED <<wire, hand, handler>>,
           UNCHANGED <<shipper, conn, cursor, link>>
    PROVE  CursorClosed'
BY DEF CursorClosed, Covered, InFlight, Busy

LEMMA BatchFrame ==
    ASSUME BatchClosed, Excused \subseteq Excused', UNCHANGED <<shipper, cursor, batch>>
    PROVE  BatchClosed'
BY DEF BatchClosed

LEMMA FreshFrame ==
    ASSUME FreshConns, UNCHANGED <<conn, wire, hand, handler, acks>>
    PROVE  FreshConns'
BY DEF FreshConns

\* The buffer's part of the invariant.
BufferInv == Increasing(pending) /\ OnlyFailedPublishLoses

LEMMA BufferFrame ==
    ASSUME BufferInv, Excused \subseteq Excused', UNCHANGED <<seq, pending>>
    PROVE  BufferInv'
BY DEF BufferInv, Increasing, OnlyFailedPublishLoses, Held

LEMMA InvParts ==
    HandOffInv <=> TypeOK /\ BufferInv /\ CarryInv /\ CursorClosed /\ BatchClosed /\ FreshConns
BY DEF HandOffInv, BufferInv, CarryInv

-----------------------------------------------------------------------------
(* Steps of the proxy.                                                     *)

\* Appending the next number keeps the buffer ordered and complete; what the
\* cap pushes out is recorded.
LEMMA AssignBuffer ==
    ASSUME TypeOK, BufferInv, Assign, Excused \subseteq Excused'
    PROVE  BufferInv'
<1> DEFINE buf == Enqueued
<1>1. seq \in Nat /\ seq' = seq + 1 /\ pending \in Seq(1..seq)
  BY DEF Assign, TypeOK, ProxyType
<1>2. /\ Len(pending) \in Nat
      /\ \A i \in 1..Len(pending) : pending[i] \in 1..seq
      /\ DOMAIN pending = 1..Len(pending)
  BY <1>1, ElementOfSeq, LenProperties
<1>3. pending \in Seq(1..seq') /\ seq + 1 \in 1..seq'
  BY <1>1, SeqMonotonic
<1>4. /\ buf \in Seq(1..seq') /\ Len(buf) = Len(pending) + 1
      /\ \A i \in 1..Len(pending) : buf[i] = pending[i]
      /\ buf[Len(pending) + 1] = seq + 1
  BY <1>3, AppendProperties DEF Enqueued
<1>5. pending' = Newest(buf) /\ evicted' = evicted \cup Oldest(buf)
  BY DEF Assign
<1> HIDE DEF buf
<1>6. \A i, j \in 1..Len(buf) : i < j => buf[i] < buf[j]
  <2> SUFFICES ASSUME NEW i \in 1..Len(buf), NEW j \in 1..Len(buf), i < j
               PROVE  buf[i] < buf[j]
    OBVIOUS
  <2>1. i \in 1..Len(pending) /\ buf[i] = pending[i] /\ pending[i] \in 1..seq
    BY <1>2, <1>4
  <2>2. CASE j = Len(pending) + 1
    BY <1>1, <1>4, <2>1, <2>2
  <2>3. CASE j \in 1..Len(pending)
    BY <1>2, <1>4, <2>1, <2>3 DEF BufferInv, Increasing
  <2> QED
    BY <1>2, <1>4, <2>2, <2>3
<1> DEFINE m == IF Len(buf) > Cap THEN Len(buf) - Cap ELSE 0
<1>7. /\ m \in Nat
      /\ pending' \in Seq(1..seq')
      /\ Len(pending') = Len(buf) - m
      /\ \A i \in 1..Len(pending') : pending'[i] = buf[m + i]
      /\ Oldest(buf) = {buf[i] : i \in 1..m}
  <2>1. /\ m \in Nat
        /\ Newest(buf) \in Seq(1..seq')
        /\ Len(Newest(buf)) = Len(buf) - m
        /\ \A i \in 1..Len(Newest(buf)) : Newest(buf)[i] = buf[m + i]
        /\ Oldest(buf) = {buf[i] : i \in 1..m}
    BY <1>4, NewestFacts
  <2> HIDE DEF m
  <2> QED
    BY <1>5, <2>1
<1> HIDE DEF m
<1>8. DOMAIN pending' = 1..(Len(buf) - m)
  BY <1>7, LenProperties
<1>9. Increasing(pending')
  <2> SUFFICES ASSUME NEW i \in DOMAIN pending', NEW j \in DOMAIN pending', i < j
               PROVE  pending'[i] < pending'[j]
    BY DEF Increasing
  <2>1. m + i \in 1..Len(buf) /\ m + j \in 1..Len(buf) /\ m + i < m + j
    BY <1>2, <1>4, <1>7, <1>8
  <2>2. pending'[i] = buf[m + i] /\ pending'[j] = buf[m + j]
    BY <1>7, <1>8
  <2> QED
    BY <1>6, <2>1, <2>2
<1>10. \A i \in 1..Len(buf) : buf[i] \in Held' \cup Excused'
  <2> TAKE i \in 1..Len(buf)
  <2>1. CASE i <= m
    BY <1>5, <1>7, <2>1 DEF Excused, Settled
  <2>2. CASE i > m
    <3>1. i - m \in DOMAIN pending' /\ pending'[i - m] = buf[m + (i - m)] /\ m + (i - m) = i
      BY <1>2, <1>4, <1>7, <1>8, <2>2
    <3> QED
      BY <3>1 DEF Held
  <2> QED
    BY <1>2, <1>4, <1>7, <2>1, <2>2
<1>11. \A n \in 1..seq : n \in Held => \E i \in 1..Len(buf) : buf[i] = n
  BY <1>2, <1>4 DEF Held
<1>12. \E i \in 1..Len(buf) : buf[i] = seq + 1
  BY <1>2, <1>4
<1>13. 1..seq' \subseteq Held' \cup Excused'
  BY <1>1, <1>10, <1>11, <1>12 DEF BufferInv, OnlyFailedPublishLoses
<1> QED
  BY <1>9, <1>13 DEF BufferInv, OnlyFailedPublishLoses

\* Trimming up to a cumulative ack gives up excused spans only.
LEMMA TrimBuffer ==
    ASSUME TypeOK, BufferInv, AckCoversSettled, NEW c \in Conns, ReadAck(c),
           Excused \subseteq Excused'
    PROVE  BufferInv'
<1>1. /\ pending \in Seq(1..seq) /\ seq' = seq /\ seq \in Nat
      /\ acks[c] \in Seq(1..seq) /\ acks[c] # <<>>
  BY DEF ReadAck, TypeOK, ProxyType, NetType
<1>2. /\ Len(pending) \in Nat
      /\ \A i \in 1..Len(pending) : pending[i] \in 1..seq
      /\ DOMAIN pending = 1..Len(pending)
  BY <1>1, ElementOfSeq, LenProperties
<1> DEFINE a == Head(acks[c])
<1>3. a \in 1..seq /\ 1..a \subseteq Excused
  <2>1. 1 \in DOMAIN acks[c] /\ a = acks[c][1]
    BY <1>1, LenProperties, HeadTailProperties
  <2> QED
    BY <1>1, <2>1, HeadTailProperties DEF AckCoversSettled
<1>4. PICK n \in 0..Len(pending) :
         /\ \A i \in 1..n : pending[i] <= a
         /\ pending' = SubSeq(pending, n + 1, Len(pending))
  BY DEF ReadAck
<1> HIDE DEF a
<1>5. /\ pending' \in Seq(1..seq)
      /\ Len(pending') = Len(pending) - n
      /\ \A i \in 1..Len(pending') : pending'[i] = pending[n + i]
  BY <1>1, <1>4, SuffixFacts
<1>6. DOMAIN pending' = 1..(Len(pending) - n)
  BY <1>5, LenProperties
<1>7. Increasing(pending')
  <2> SUFFICES ASSUME NEW i \in DOMAIN pending', NEW j \in DOMAIN pending', i < j
               PROVE  pending'[i] < pending'[j]
    BY DEF Increasing
  <2>1. n + i \in DOMAIN pending /\ n + j \in DOMAIN pending /\ n + i < n + j
    BY <1>2, <1>6
  <2>2. pending'[i] = pending[n + i] /\ pending'[j] = pending[n + j]
    BY <1>5, <1>6
  <2> QED
    BY <2>1, <2>2 DEF BufferInv, Increasing
<1>8. \A i \in 1..Len(pending) : pending[i] \in Held' \cup Excused'
  <2> TAKE i \in 1..Len(pending)
  <2>1. CASE i <= n
    <3>1. pending[i] \in 1..a
      BY <1>2, <1>3, <1>4, <2>1
    <3> QED
      BY <1>3, <3>1
  <2>2. CASE i > n
    <3>1. i - n \in DOMAIN pending' /\ pending'[i - n] = pending[n + (i - n)] /\ n + (i - n) = i
      BY <1>2, <1>5, <1>6, <2>2
    <3> QED
      BY <3>1 DEF Held
  <2> QED
    BY <1>2, <2>1, <2>2
<1>9. Held \subseteq Held' \cup Excused'
  BY <1>2, <1>8 DEF Held
<1> QED
  BY <1>1, <1>7, <1>9 DEF BufferInv, OnlyFailedPublishLoses

\* A snapshot takes what the connection has not carried; every number between
\* two of its entries is excused.
LEMMA SnapshotBatch ==
    ASSUME TypeOK, BufferInv, Snapshot, Excused \subseteq Excused'
    PROVE  BatchClosed'
<1>1. /\ pending \in Seq(1..seq) /\ seq \in Nat /\ cursor \in 0..seq /\ cursor' = cursor
      /\ batch' = [i \in Unwritten |-> pending[i]]
  BY DEF Snapshot, TypeOK, ProxyType, WriterType
<1>2. /\ DOMAIN pending = 1..Len(pending) /\ Len(pending) \in Nat
      /\ \A i \in DOMAIN pending : pending[i] \in 1..seq
  BY <1>1, ElementOfSeq, LenProperties
<1>3. \A i, j \in DOMAIN batch' : i < j => batch'[i] < batch'[j]
  BY <1>1 DEF BufferInv, Increasing, Unwritten
<1>4. \A i \in DOMAIN batch' : batch'[i] > cursor
  BY <1>1 DEF Unwritten
<1>5. ASSUME NEW i \in DOMAIN batch', NEW n \in (cursor + 1)..(batch'[i] - 1)
      PROVE  n \in Excused \/ \E j \in DOMAIN batch' : batch'[j] = n
  <2>1. n \in 1..seq /\ n > cursor
    BY <1>1, <1>2 DEF Unwritten
  <2>2. CASE n \in Held
    <3>1. PICK j \in DOMAIN pending : pending[j] = n
      BY <2>2 DEF Held
    <3> QED
      BY <1>1, <2>1, <3>1 DEF Unwritten
  <2> QED
    BY <2>1, <2>2 DEF BufferInv, OnlyFailedPublishLoses
<1> QED
  BY <1>1, <1>3, <1>4, <1>5 DEF BatchClosed

\* A fresh connection has carried nothing, so nothing can be missing on it.
LEMMA DialStep ==
    ASSUME TypeOK, CarryInv, FreshConns, Dial, Excused \subseteq Excused'
    PROVE  CarryInv' /\ CursorClosed' /\ BatchClosed' /\ FreshConns'
<1>1. /\ conn \in Nat /\ conn + 1 \in Conns /\ conn' = conn + 1 /\ cursor' = 0
      /\ \A c \in Conns : c \in Int
  BY DEF Dial, CursorAtStart, TypeOK, WriterType, Conns
<1>2. /\ wire' = wire /\ hand' = hand /\ acks' = acks
      /\ handler' = [handler EXCEPT ![conn + 1] = "reading"]
  BY DEF Dial, CursorAtStart
<1>3. /\ wire[conn + 1] = <<>> /\ hand[conn + 1] = 0 /\ handler[conn + 1] = "gone"
  BY <1>1 DEF FreshConns
<1>4. \A c \in Conns : Busy(c)' <=> Busy(c)
  BY <1>1, <1>2, <1>3 DEF Busy, TypeOK, CollectorType
<1>5. \A c \in Conns : \A n \in Nat : Covered(c, n) => Covered(c, n)'
  BY <1>2, <1>4 DEF Covered, InFlight
<1>6. AckCoversSettled'
  BY <1>1, <1>2, <1>3 DEF CarryInv, AckCoversSettled, TypeOK, CollectorType, Busy
<1>7. CarriedInOrder'
  BY <1>2 DEF CarryInv, CarriedInOrder, Increasing
<1>8. StreamClosed'
  <2>1. ASSUME NEW c \in Conns, NEW i \in DOMAIN wire[c], NEW n \in 1..(wire[c][i] - 1)
        PROVE  Covered(c, n)'
    BY <1>5 DEF CarryInv, StreamClosed
  <2>2. ASSUME NEW c \in Conns, Busy(c)' PROVE 1..(hand[c] - 1) \subseteq Excused'
    BY <1>4, <2>2 DEF CarryInv, StreamClosed
  <2> QED
    BY <1>2, <2>1, <2>2 DEF StreamClosed
<1>9. CursorClosed'
  BY <1>1, <1>2, <1>3 DEF CursorClosed
<1>10. BatchClosed'
  BY DEF Dial, CursorAtStart, BatchClosed, NoBatch
<1>11. FreshConns'
  BY <1>1, <1>2 DEF FreshConns, TypeOK, CollectorType, Busy
<1> QED
  BY <1>6, <1>7, <1>8, <1>9, <1>10, <1>11 DEF CarryInv

\* Writing the first entry of the batch: everything before it was carried by
\* this connection, or is excused.
LEMMA WriteStep ==
    ASSUME TypeOK, CarryInv, CursorClosed, BatchClosed, FreshConns, Write,
           Excused \subseteq Excused'
    PROVE  CarryInv' /\ CursorClosed' /\ BatchClosed' /\ FreshConns'
<1>1. PICK i \in DOMAIN batch :
         /\ \A j \in DOMAIN batch : i <= j
         /\ wire' = IF link[conn] = "up"
                      THEN [wire EXCEPT ![conn] = Append(@, batch[i])]
                      ELSE wire
         /\ cursor' = batch[i]
         /\ batch' = [j \in DOMAIN batch \ {i} |-> batch[j]]
  BY DEF Write
<1>2. /\ shipper = "session" /\ shipper' = "session" /\ conn' = conn /\ link' = link
      /\ handler' = handler /\ hand' = hand /\ acks' = acks
  BY DEF Write, collectorVars
<1>3. /\ conn \in Conns /\ cursor \in Nat /\ batch[i] \in 1..seq /\ seq \in Nat
      /\ DOMAIN batch \subseteq Nat
      /\ \A j \in DOMAIN batch : batch[j] \in 1..seq
  BY <1>2 DEF TypeOK, WriterType, ProxyType, Conns
<1>4. batch[i] > cursor
  BY <1>2 DEF BatchClosed
<1>5. \A n \in (cursor + 1)..(batch[i] - 1) : n \in Excused
  <2> TAKE n \in (cursor + 1)..(batch[i] - 1)
  <2>1. n \in Excused \/ \E j \in DOMAIN batch : batch[j] = n
    BY <1>2 DEF BatchClosed
  <2>2. ASSUME NEW j \in DOMAIN batch, batch[j] = n PROVE FALSE
    <3>1. j # i
      BY <1>3, <2>2
    <3>2. i < j
      BY <1>1, <1>3, <3>1
    <3>3. batch[i] < batch[j]
      BY <1>2, <3>2 DEF BatchClosed
    <3> QED
      BY <1>3, <2>2, <3>3
  <2> QED
    BY <2>1, <2>2
<1>6. BatchClosed'
  <2>1. DOMAIN batch' = DOMAIN batch \ {i} /\ \A j \in DOMAIN batch' : batch'[j] = batch[j]
    BY <1>1
  <2>2. \A a, b \in DOMAIN batch' : a < b => batch'[a] < batch'[b]
    BY <1>2, <2>1 DEF BatchClosed
  <2>3. ASSUME NEW a \in DOMAIN batch' PROVE batch'[a] > cursor'
    <3>1. i < a
      BY <1>1, <1>3, <2>1
    <3> QED
      BY <1>1, <1>2, <1>3, <2>1, <3>1 DEF BatchClosed
  <2>4. ASSUME NEW a \in DOMAIN batch', NEW n \in (cursor' + 1)..(batch'[a] - 1)
        PROVE  n \in Excused' \/ \E b \in DOMAIN batch' : batch'[b] = n
    <3>1. a \in DOMAIN batch /\ n \in (cursor + 1)..(batch[a] - 1) /\ n > batch[i]
      BY <1>1, <1>3, <1>4, <2>1
    <3>2. n \in Excused \/ \E b \in DOMAIN batch : batch[b] = n
      BY <1>2, <3>1 DEF BatchClosed
    <3>3. ASSUME NEW b \in DOMAIN batch, batch[b] = n
          PROVE  b \in DOMAIN batch' /\ batch'[b] = n
      BY <1>3, <2>1, <3>1, <3>3
    <3> QED
      BY <3>2, <3>3
  <2> QED
    BY <2>2, <2>3, <2>4 DEF BatchClosed
<1>7. CASE link[conn] = "up"
  <2>1. wire[conn] \in Seq(1..seq)
    BY <1>3 DEF TypeOK, NetType
  <2> DEFINE w == Append(wire[conn], batch[i])
             k == Len(wire[conn])
  <2>2. /\ w \in Seq(1..seq) /\ Len(w) = k + 1 /\ k \in Nat
        /\ DOMAIN w = 1..(k + 1) /\ DOMAIN wire[conn] = 1..k
        /\ \A j \in 1..k : w[j] = wire[conn][j]
        /\ w[k + 1] = batch[i]
        /\ \A j \in 1..k : wire[conn][j] \in 1..seq
    BY <1>3, <2>1, AppendProperties, ElementOfSeq, LenProperties
  <2>3. wire' = [wire EXCEPT ![conn] = w]
    BY <1>1, <1>7
  <2>4. wire \in [Conns -> Seq(1..seq)]
    BY DEF TypeOK, NetType
  <2> HIDE DEF w, k
  <2>5. wire'[conn] = w /\ \A c \in Conns \ {conn} : wire'[c] = wire[c]
    BY <1>3, <2>3, <2>4
  <2>6. \A c \in Conns : Busy(c)' <=> Busy(c)
    BY <1>2 DEF Busy
  <2>7. \A c \in Conns : \A n \in Nat : Covered(c, n) => Covered(c, n)'
    <3> TAKE c \in Conns
    <3> TAKE n \in Nat
    <3>1. CASE c = conn
      <4>1. ASSUME NEW j \in DOMAIN wire[c], wire[c][j] = n
            PROVE  \E l \in DOMAIN wire'[c] : wire'[c][l] = n
        BY <2>2, <2>5, <3>1, <4>1
      <4> QED
        BY <1>2, <2>6, <4>1 DEF Covered, InFlight
    <3>2. CASE c # conn
      BY <1>2, <2>5, <2>6, <3>2 DEF Covered, InFlight
    <3> QED
      BY <3>1, <3>2
  <2>0. PICK d \in Conns, b \in 1..seq : d = conn /\ b = batch[i]
    BY <1>3
  <2>8. \A n \in 1..(b - 1) : Covered(d, n)'
    <3> TAKE n \in 1..(b - 1)
    <3>1. CASE n <= cursor
      <4>1. Covered(d, n) /\ n \in Nat
        BY <1>2, <1>3, <1>7, <2>0, <3>1 DEF CursorClosed
      <4> QED
        BY <2>7, <4>1
    <3>2. CASE n > cursor
      BY <1>3, <1>5, <2>0, <3>2 DEF Covered
    <3> QED
      BY <1>3, <2>0, <3>1, <3>2
  <2>9. Covered(d, b)'
    <3>1. k + 1 \in DOMAIN wire'[d] /\ wire'[d][k + 1] = b
      BY <2>0, <2>2, <2>5
    <3>2. \E j \in DOMAIN wire'[d] : wire'[d][j] = b
      BY <3>1
    <3> QED
      BY <3>2 DEF Covered, InFlight
  <2>15. \A j \in 1..k : wire[conn][j] <= cursor /\ wire[conn][j] \in 1..seq
    <3>1. \A j \in DOMAIN wire[conn] : wire[conn][j] <= cursor
      BY <1>2 DEF CursorClosed
    <3> QED
      BY <2>2, <3>1
  <2>10. AckCoversSettled'
    BY <1>2 DEF CarryInv, AckCoversSettled
  <2>11. CarriedInOrder'
    <3>1. \A j \in 1..k : wire[conn][j] < batch[i]
      BY <1>3, <1>4, <2>15
    <3>2. Increasing(w)
      <4> SUFFICES ASSUME NEW a \in 1..(k + 1), NEW e \in 1..(k + 1), a < e PROVE w[a] < w[e]
        BY <2>2 DEF Increasing
      <4>1. CASE e = k + 1
        BY <2>2, <3>1, <4>1
      <4>2. CASE e \in 1..k
        <5>1. wire[conn][a] < wire[conn][e]
          BY <1>3, <2>2, <4>2, SMTT(20) DEF CarryInv, CarriedInOrder, Increasing
        <5> QED
          BY <2>2, <4>2, <5>1
      <4> QED
        BY <2>2, <4>1, <4>2
    <3>3. \A j \in 1..(k + 1) : hand[conn] < w[j]
      <4> TAKE j \in 1..(k + 1)
      <4>1. hand[conn] <= cursor /\ hand[conn] \in Nat
        BY <1>2, <1>3 DEF CursorClosed, TypeOK, CollectorType, Busy
      <4>2. CASE j = k + 1
        BY <1>3, <1>4, <2>2, <4>1, <4>2
      <4>3. CASE j \in 1..k
        BY <1>3, <2>2, <4>3 DEF CarryInv, CarriedInOrder
      <4> QED
        BY <2>2, <4>2, <4>3
    <3> QED
      BY <1>2, <2>2, <2>5, <3>2, <3>3 DEF CarryInv, CarriedInOrder
  <2>12. StreamClosed'
    <3>1. ASSUME NEW c \in Conns, NEW j \in DOMAIN wire'[c], NEW n \in 1..(wire'[c][j] - 1)
          PROVE  Covered(c, n)'
      <4>1. CASE c # conn
        BY <2>5, <2>7, <3>1, <4>1 DEF CarryInv, StreamClosed
      <4>2. CASE c = conn /\ j = k + 1
        BY <2>0, <2>2, <2>5, <2>8, <3>1, <4>2
      <4>3. CASE c = conn /\ j # k + 1
        <5>1. j \in DOMAIN wire[c] /\ wire'[c][j] = wire[c][j]
          BY <2>2, <2>5, <4>3
        <5> QED
          BY <2>7, <5>1 DEF CarryInv, StreamClosed
      <4> QED
        BY <4>1, <4>2, <4>3
    <3> QED
      BY <1>2, <2>6, <3>1 DEF CarryInv, StreamClosed
  <2>13. CursorClosed'
    <3>1. hand'[conn] <= cursor'
      BY <1>1, <1>2, <1>3, <1>4 DEF CursorClosed, TypeOK, CollectorType, Busy
    <3>2. \A j \in DOMAIN wire'[conn] : wire'[conn][j] <= cursor'
      <4> SUFFICES ASSUME NEW j \in 1..(k + 1) PROVE w[j] <= batch[i]
        BY <1>1, <2>2, <2>5
      <4>1. CASE j = k + 1
        BY <1>3, <2>2, <4>1
      <4>2. CASE j \in 1..k
        <5>1. wire[conn][j] <= cursor /\ wire[conn][j] \in Nat
          BY <2>15, <4>2
        <5>2. cursor \in Nat /\ batch[i] \in Nat /\ cursor <= batch[i]
          BY <1>3, <1>4
        <5>3. w[j] = wire[conn][j]
          BY <2>2, <4>2
        <5> QED
          BY <5>1, <5>2, <5>3
      <4> QED
        BY <2>2, <4>1, <4>2
    <3>3. \A n \in 1..b : Covered(d, n)'
      BY <2>8, <2>9
    <3> QED
      BY <1>1, <1>2, <2>0, <3>1, <3>2, <3>3 DEF CursorClosed
  <2>14. FreshConns'
    BY <1>2, <1>3, <2>5 DEF FreshConns, Conns, TypeOK, WriterType
  <2> QED
    BY <1>6, <2>10, <2>11, <2>12, <2>13, <2>14 DEF CarryInv
<1>8. CASE link[conn] # "up"
  <2>1. wire' = wire
    BY <1>1, <1>8
  <2>2. CarryInv'
    BY <1>2, <2>1, CarryFrame DEF carryVars
  <2>3. FreshConns'
    BY <1>2, <2>1, FreshFrame
  <2>4. CursorClosed'
    BY <1>1, <1>2, <1>3, <1>4, <1>8, <2>1
       DEF CursorClosed, TypeOK, CollectorType, Busy, NetType
  <2> QED
    BY <1>6, <2>2, <2>3, <2>4
<1> QED
  BY <1>7, <1>8

-----------------------------------------------------------------------------
(* Steps of the ack readers, the collector and the network.                *)

LEMMA ReaderCarry ==
    ASSUME TypeOK, CarryInv, FreshConns, NEW c \in Conns, ReadAck(c) \/ ReaderEnds(c),
           Excused \subseteq Excused'
    PROVE  CarryInv' /\ FreshConns'
<1>1. /\ wire' = wire /\ hand' = hand /\ handler' = handler /\ conn' = conn
      /\ acks \in [Conns -> Seq(1..seq)]
  BY DEF ReadAck, ReaderEnds, writerVars, collectorVars, TypeOK, NetType
<1>2. CarriedInOrder' /\ StreamClosed'
  BY <1>1 DEF CarryInv, CarriedInOrder, Increasing, StreamClosed, Covered, InFlight, Busy
<1>3. \A d \in Conns : \A i \in DOMAIN acks'[d] : \E j \in DOMAIN acks[d] : acks'[d][i] = acks[d][j]
  <2>1. CASE ReaderEnds(c)
    BY <1>1, <2>1 DEF ReaderEnds
  <2>2. CASE ReadAck(c)
    <3>1. acks' = [acks EXCEPT ![c] = Tail(acks[c])] /\ acks[c] \in Seq(1..seq) /\ acks[c] # <<>>
      BY <1>1, <2>2 DEF ReadAck
    <3>2. \A i \in DOMAIN Tail(acks[c]) : i + 1 \in DOMAIN acks[c] /\ Tail(acks[c])[i] = acks[c][i + 1]
      BY <3>1, HeadTailProperties, LenProperties
    <3> QED
      BY <1>1, <3>1, <3>2
  <2> QED
    BY <2>1, <2>2
<1>4. AckCoversSettled'
  BY <1>1, <1>3 DEF CarryInv, AckCoversSettled
<1>5. FreshConns'
  BY <1>1, <1>3 DEF FreshConns, ReadAck, ReaderEnds
<1> QED
  BY <1>2, <1>4, <1>5 DEF CarryInv

\* An ack for n is safe to send once everything up to n is excused.
LEMMA SendAckCovers ==
    ASSUME NetType, AckCoversSettled, NEW c \in Conns, NEW n \in 1..seq, SendAck(c, n),
           1..n \subseteq Excused', Excused \subseteq Excused'
    PROVE  \A d \in Conns : \A i \in DOMAIN acks'[d] : 1..acks'[d][i] \subseteq Excused'
<1>1. acks \in [Conns -> Seq(1..seq)]
  BY DEF NetType
<1>2. \A d \in Conns : \A i \in DOMAIN acks[d] : 1..acks[d][i] \subseteq Excused'
  BY DEF AckCoversSettled
<1>3. CASE acks' = acks
  BY <1>2, <1>3
<1>4. CASE acks' = [acks EXCEPT ![c] = Append(acks[c], n)]
  <2>1. /\ acks[c] \in Seq(1..seq)
        /\ Append(acks[c], n) \in Seq(1..seq)
        /\ Len(Append(acks[c], n)) = Len(acks[c]) + 1
        /\ \A i \in 1..Len(acks[c]) : Append(acks[c], n)[i] = acks[c][i]
        /\ Append(acks[c], n)[Len(acks[c]) + 1] = n
    BY <1>1, AppendProperties
  <2>2. /\ DOMAIN Append(acks[c], n) = 1..(Len(acks[c]) + 1)
        /\ DOMAIN acks[c] = 1..Len(acks[c])
        /\ Len(acks[c]) \in Nat
    BY <2>1, LenProperties
  <2>3. \A i \in DOMAIN Append(acks[c], n) : 1..Append(acks[c], n)[i] \subseteq Excused'
    <3> TAKE i \in DOMAIN Append(acks[c], n)
    <3>1. CASE i = Len(acks[c]) + 1
      BY <2>1, <3>1
    <3>2. CASE i \in 1..Len(acks[c])
      BY <1>2, <2>1, <2>2, <3>2
    <3> QED
      BY <2>2, <3>1, <3>2
  <2> QED
    BY <1>1, <1>2, <1>4, <2>3
<1> QED
  BY <1>3, <1>4 DEF SendAck

\* Reading the head of the wire: nothing before it was skipped.
LEMMA ReceiveStep ==
    ASSUME TypeOK, CarryInv, CursorClosed, FreshConns, NEW c \in Conns, Receive(c),
           Excused \subseteq Excused'
    PROVE  CarryInv' /\ CursorClosed' /\ FreshConns'
<1> DEFINE h == Head(wire[c])
           t == Tail(wire[c])
<1>1. /\ wire \in [Conns -> Seq(1..seq)] /\ wire[c] \in Seq(1..seq) /\ wire[c] # <<>>
      /\ acks \in [Conns -> Seq(1..seq)] /\ seq \in Nat
      /\ handler \in [Conns -> {"reading", "publishing", "stored", "gone"}]
      /\ hand \in [Conns -> 0..seq]
      /\ handler[c] = "reading"
      /\ conn \in Int /\ \A d \in Conns : d \in Int
  BY SMTT(20) DEF Receive, TypeOK, NetType, CollectorType, Busy, ProxyType, WriterType, Conns
<1>2. /\ wire' = [wire EXCEPT ![c] = t]
      /\ link' = link /\ shipper' = shipper /\ conn' = conn /\ cursor' = cursor
      /\ \/ /\ h \in Invalid /\ h \in Excused'
            /\ SendAck(c, h) /\ handler' = handler /\ hand' = hand
         \/ /\ h \notin Invalid /\ acks' = acks
            /\ handler' = [handler EXCEPT ![c] = "publishing"]
            /\ hand' = [hand EXCEPT ![c] = h]
  BY DEF Receive, writerVars, Excused, Settled
<1>3. /\ h \in 1..seq /\ t \in Seq(1..seq)
      /\ 1 \in DOMAIN wire[c] /\ wire[c][1] = h
      /\ \A i \in DOMAIN t : i + 1 \in DOMAIN wire[c] /\ t[i] = wire[c][i + 1] /\ i \in Nat \ {0}
      /\ \A i \in DOMAIN wire[c] : i \in Nat \ {0} /\ (i = 1 \/ i - 1 \in DOMAIN t)
      /\ \A i \in DOMAIN wire[c] : i # 1 => t[i - 1] = wire[c][i]
      /\ \A i \in DOMAIN wire[c] : wire[c][i] \in 1..seq
  BY <1>1, HeadTailProperties, LenProperties, ElementOfSeq, SMTT(20)
<1> HIDE DEF h, t
<1>4. /\ wire'[c] = t /\ \A d \in Conns \ {c} : wire'[d] = wire[d]
      /\ \A d \in Conns \ {c} : hand'[d] = hand[d] /\ handler'[d] = handler[d]
      /\ hand'[c] <= h
  BY <1>1, <1>2, <1>3 DEF CarryInv, CarriedInOrder
<1>5. 1..(h - 1) \subseteq Excused
  <2> SUFFICES ASSUME NEW n \in 1..(h - 1) PROVE n \in Excused
    OBVIOUS
  <2>1. Covered(c, n)
    BY <1>3 DEF CarryInv, StreamClosed
  <2>2. ~Busy(c)
    BY <1>1 DEF Busy
  <2>3. ASSUME NEW i \in DOMAIN wire[c], wire[c][i] = n PROVE FALSE
    <3>1. CASE i = 1
      BY <1>3, <2>3, <3>1
    <3>2. CASE i # 1
      <4>1. wire[c][1] < wire[c][i]
        BY <1>3, <3>2 DEF CarryInv, CarriedInOrder, Increasing
      <4> QED
        BY <1>3, <2>3, <4>1
    <3> QED
      BY <3>1, <3>2
  <2> QED
    BY <2>1, <2>2, <2>3 DEF Covered, InFlight
<1>6. \A d \in Conns : \A n \in Nat : Covered(d, n) => Covered(d, n)'
  <2> TAKE d \in Conns
  <2> TAKE n \in Nat
  <2>1. CASE d # c
    BY <1>4, <2>1 DEF Covered, InFlight, Busy
  <2>2. CASE d = c
    <3>1. ASSUME NEW i \in DOMAIN wire[c], wire[c][i] = n, n # h
          PROVE  \E j \in DOMAIN wire'[c] : wire'[c][j] = n
      BY <1>3, <1>4, <3>1
    <3>2. ~Busy(c)
      BY <1>1 DEF Busy
    <3>3. PICK g : g = h
      OBVIOUS
    <3>4. CASE n = g
      BY <1>1, <1>2, <1>3, <2>2, <3>3, <3>4 DEF Covered, InFlight, Busy
    <3>5. CASE n # g
      BY <2>2, <3>1, <3>2, <3>3, <3>5 DEF Covered, InFlight
    <3> QED
      BY <3>4, <3>5
  <2> QED
    BY <2>1, <2>2
<1>7. AckCoversSettled'
  <2>1. \A d \in Conns : \A i \in DOMAIN acks'[d] : 1..acks'[d][i] \subseteq Excused'
    <3>1. CASE h \in Invalid
      <4>1. 1..h \subseteq Excused'
        BY <1>2, <1>3, <1>5, <3>1
      <4> QED
        BY <1>2, <1>3, <3>1, <4>1, SendAckCovers DEF CarryInv, TypeOK
    <3>2. CASE h \notin Invalid
      BY <1>2, <3>2 DEF CarryInv, AckCoversSettled
    <3> QED
      BY <3>1, <3>2
  <2>2. \A d \in Conns : handler'[d] = "stored" => 1..hand'[d] \subseteq Excused'
    BY <1>1, <1>2, <1>4 DEF CarryInv, AckCoversSettled
  <2> QED
    BY <2>1, <2>2 DEF AckCoversSettled
<1>8. CarriedInOrder'
  <2>1. Increasing(t)
    BY <1>3 DEF CarryInv, CarriedInOrder, Increasing
  <2>2. \A i \in DOMAIN t : h < t[i]
    BY <1>3 DEF CarryInv, CarriedInOrder, Increasing
  <2>3. \A i \in DOMAIN t : hand'[c] < t[i]
    <3>1. hand'[c] \in Nat /\ \A i \in DOMAIN t : t[i] \in Nat
      BY <1>1, <1>2, <1>3
    <3> QED
      BY <1>3, <1>4, <2>2, <3>1
  <2> QED
    BY <1>4, <2>1, <2>3 DEF CarryInv, CarriedInOrder
<1>9. StreamClosed'
  <2>1. ASSUME NEW d \in Conns, NEW i \in DOMAIN wire'[d], NEW n \in 1..(wire'[d][i] - 1)
        PROVE  Covered(d, n)'
    <3>1. \E j \in DOMAIN wire[d] : wire'[d][i] = wire[d][j]
      BY <1>3, <1>4
    <3> QED
      BY <1>6, <3>1 DEF CarryInv, StreamClosed
  <2>2. ASSUME NEW d \in Conns, Busy(d)' PROVE 1..(hand'[d] - 1) \subseteq Excused'
    <3>1. CASE d # c
      BY <1>4, <2>2, <3>1 DEF CarryInv, StreamClosed, Busy
    <3>2. CASE d = c
      <4>1. hand'[c] = h
        BY <1>1, <1>2, <2>2, <3>2 DEF Busy
      <4> QED
        BY <1>5, <3>2, <4>1
    <3> QED
      BY <3>1, <3>2
  <2> QED
    BY <2>1, <2>2 DEF StreamClosed
<1>10. CursorClosed'
  <2> SUFFICES ASSUME shipper = "session"
               PROVE  /\ hand'[conn] <= cursor
                      /\ \A i \in DOMAIN wire'[conn] : wire'[conn][i] <= cursor
                      /\ link[conn] = "up" => \A n \in 1..cursor : Covered(conn, n)'
    BY <1>2 DEF CursorClosed
  <2>0. PICK d \in Conns : d = conn
    BY DEF TypeOK, WriterType, Conns
  <2>1. /\ hand[d] <= cursor /\ \A i \in DOMAIN wire[d] : wire[d][i] <= cursor
        /\ link[d] = "up" => \A n \in 1..cursor : Covered(d, n)
    BY <2>0 DEF CursorClosed
  <2>2. \A i \in DOMAIN wire'[d] : \E j \in DOMAIN wire[d] : wire'[d][i] = wire[d][j]
    BY <1>3, <1>4
  <2>3. hand'[d] <= cursor
    <3>1. CASE d # c
      BY <1>4, <2>1, <3>1
    <3>2. CASE d = c
      <4>1. h <= cursor
        BY <1>3, <2>1, <3>2
      <4> QED
        BY <1>1, <1>2, <2>1, <3>2, <4>1
    <3> QED
      BY <3>1, <3>2
  <2>4. link[d] = "up" => \A n \in 1..cursor : Covered(d, n)'
    <3>1. cursor \in Nat
      BY <1>1 DEF TypeOK, WriterType
    <3> QED
      BY <1>6, <2>1, <3>1
  <2> QED
    BY <1>2, <2>0, <2>1, <2>2, <2>3, <2>4
<1>11. FreshConns'
  <2>1. c <= conn
    BY <1>1 DEF FreshConns
  <2> QED
    BY <1>1, <1>2, <1>4, <2>1 DEF FreshConns, SendAck
<1> QED
  BY <1>7, <1>8, <1>9, <1>10, <1>11 DEF CarryInv

\* The publish succeeds: the span in hand and all before it are excused.
LEMMA PublishStep ==
    ASSUME TypeOK, CarryInv, CursorClosed, FreshConns, NEW c \in Conns,
           TransportStores(c) \/ Accept(c) \/ PublishFails(c), Excused \subseteq Excused'
    PROVE  CarryInv' /\ CursorClosed' /\ FreshConns'
<1>1. /\ wire' = wire /\ hand' = hand /\ link' = link
      /\ shipper' = shipper /\ conn' = conn /\ cursor' = cursor /\ seq' = seq
      /\ \A d \in Conns \ {c} : handler'[d] = handler[d]
      /\ hand[c] \in 1..seq /\ seq \in Nat /\ Busy(c)
      /\ handler \in [Conns -> {"reading", "publishing", "stored", "gone"}]
      /\ handler'[c] \in {"reading", "stored"}
      /\ conn \in Int /\ \A d \in Conns : d \in Int
  BY SMTT(20) DEF TransportStores, Accept, Published, PublishFails, proxyVars, writerVars, netVars, TypeOK,
         CollectorType, ProxyType, WriterType, Conns, Busy
<1>2. 1..(hand[c] - 1) \subseteq Excused
  BY <1>1 DEF CarryInv, StreamClosed
<1>3. hand[c] \in Excused'
  <2>1. CASE TransportStores(c)
    BY <2>1 DEF TransportStores, Excused, Settled
  <2>2. CASE Accept(c)
    BY <1>1, <2>2 DEF Accept, Published, CarryInv, AckCoversSettled
  <2>3. CASE PublishFails(c)
    BY <2>3 DEF PublishFails, Busy, Excused
  <2> QED
    BY <2>1, <2>2, <2>3
<1>4. 1..hand[c] \subseteq Excused'
  BY <1>1, <1>2, <1>3
<1>5. \A d \in Conns : \A n \in Nat : Covered(d, n) => Covered(d, n)'
  BY <1>1, <1>3 DEF Covered, InFlight, Busy
<1>6. AckCoversSettled'
  <2>1. \A d \in Conns : \A i \in DOMAIN acks'[d] : 1..acks'[d][i] \subseteq Excused'
    <3>1. CASE acks' = acks
      BY <3>1 DEF CarryInv, AckCoversSettled
    <3>2. CASE Accept(c)
      BY <1>1, <1>4, <3>2, SendAckCovers DEF Accept, Published, CarryInv, TypeOK
    <3> QED
      BY <3>1, <3>2 DEF TransportStores, PublishFails, Busy, netVars
  <2>2. \A d \in Conns : handler'[d] = "stored" => 1..hand'[d] \subseteq Excused'
    BY <1>1, <1>4 DEF CarryInv, AckCoversSettled
  <2> QED
    BY <2>1, <2>2 DEF AckCoversSettled
<1>7. CarriedInOrder'
  BY <1>1 DEF CarryInv, CarriedInOrder, Increasing
<1>8. StreamClosed'
  <2>1. ASSUME NEW d \in Conns, NEW i \in DOMAIN wire[d], NEW n \in 1..(wire[d][i] - 1)
        PROVE  Covered(d, n)'
    BY <1>5 DEF CarryInv, StreamClosed
  <2>2. ASSUME NEW d \in Conns, Busy(d)' PROVE 1..(hand[d] - 1) \subseteq Excused'
    <3>1. CASE d = c
      BY <1>2, <3>1
    <3>2. CASE d # c
      BY <1>1, <2>2, <3>2 DEF CarryInv, StreamClosed, Busy
    <3> QED
      BY <3>1, <3>2
  <2> QED
    BY <1>1, <2>1, <2>2 DEF StreamClosed
<1>9. CursorClosed'
  <2>1. PICK d : d = conn
    OBVIOUS
  <2>2. CASE shipper = "session"
    <3>1. d \in Conns /\ cursor \in Nat
      BY <1>1, <2>1, <2>2 DEF TypeOK, WriterType, Conns
    <3>2. link[d] = "up" => \A n \in 1..cursor : Covered(d, n)'
      BY <1>5, <2>1, <2>2, <3>1 DEF CursorClosed
    <3> QED
      BY <1>1, <2>1, <2>2, <3>2 DEF CursorClosed
  <2> QED
    BY <1>1, <2>2 DEF CursorClosed
<1>10. FreshConns'
  <2>1. c <= conn
    BY <1>1 DEF FreshConns
  <2> QED
    BY <1>1, <2>1 DEF FreshConns, TransportStores, Accept, Published, PublishFails, Busy, SendAck, netVars,
       TypeOK, NetType
<1> QED
  BY <1>6, <1>7, <1>8, <1>9, <1>10 DEF CarryInv

\* What dies with a handler, a connection or the collector is still pending,
\* and the cursor of a dead connection claims nothing.
LEMMA LossStep ==
    ASSUME TypeOK, CarryInv, CursorClosed, FreshConns,
           (\E c \in Conns : HandlerEnds(c)) \/ Break \/ Crash, Excused \subseteq Excused'
    PROVE  CarryInv' /\ CursorClosed' /\ FreshConns'
<1>1. /\ hand' = hand /\ acks' = acks
      /\ shipper' = shipper /\ conn' = conn /\ cursor' = cursor
      /\ link \in [Conns -> {"none", "up", "down"}]
      /\ wire \in [Conns -> Seq(1..seq)]
      /\ handler \in [Conns -> {"reading", "publishing", "stored", "gone"}]
  BY DEF HandlerEnds, Break, Crash, writerVars, collectorVars, TypeOK, NetType, CollectorType, Busy
<1>2. \A d \in Conns : \/ wire'[d] = wire[d] /\ handler'[d] = handler[d]
                       \/ wire'[d] = <<>> /\ handler'[d] = "gone" /\ link'[d] # "up"
  BY <1>1 DEF HandlerEnds, Break, Crash, Cut, collectorVars
<1>3. \A d \in Conns : link'[d] = "up" => link[d] = "up"
  BY <1>1 DEF HandlerEnds, Break, Crash, Cut
<1>4. AckCoversSettled'
  BY <1>1, <1>2 DEF CarryInv, AckCoversSettled
<1>5. CarriedInOrder'
  BY <1>1, <1>2 DEF CarryInv, CarriedInOrder, Increasing
<1>6. StreamClosed'
  <2>1. ASSUME NEW d \in Conns, NEW i \in DOMAIN wire'[d], NEW n \in 1..(wire'[d][i] - 1)
        PROVE  Covered(d, n)'
    <3>1. wire'[d] = wire[d] /\ handler'[d] = handler[d]
      BY <1>2, <2>1
    <3>2. Covered(d, n)
      BY <3>1 DEF CarryInv, StreamClosed
    <3> QED
      BY <1>1, <3>1, <3>2 DEF Covered, InFlight, Busy
  <2>2. ASSUME NEW d \in Conns, Busy(d)' PROVE 1..(hand[d] - 1) \subseteq Excused'
    BY <1>2, <2>2 DEF CarryInv, StreamClosed, Busy
  <2> QED
    BY <1>1, <2>1, <2>2 DEF StreamClosed
<1>7. CursorClosed'
  <2>1. CASE shipper = "session"
    <3>1. PICK d \in Conns : d = conn
      BY <2>1 DEF TypeOK, WriterType, Conns
    <3>2. \A i \in DOMAIN wire'[d] : wire'[d][i] <= cursor
      BY <1>2, <2>1, <3>1 DEF CursorClosed
    <3>3. ASSUME link'[d] = "up", NEW n \in 1..cursor PROVE Covered(d, n)'
      <4>1. wire'[d] = wire[d] /\ handler'[d] = handler[d] /\ link[d] = "up"
        BY <1>2, <1>3, <3>3
      <4>2. Covered(d, n)
        BY <2>1, <3>1, <4>1 DEF CursorClosed
      <4> QED
        BY <1>1, <4>1, <4>2 DEF Covered, InFlight, Busy
    <3> QED
      BY <1>1, <2>1, <3>1, <3>2, <3>3 DEF CursorClosed
  <2> QED
    BY <1>1, <2>1 DEF CursorClosed
<1>8. FreshConns'
  BY <1>1, <1>2 DEF FreshConns
<1> QED
  BY <1>4, <1>5, <1>6, <1>7, <1>8 DEF CarryInv

-----------------------------------------------------------------------------
LEMMA InvStep == HandOffInv /\ [Next]_vars => HandOffInv'
<1> SUFFICES ASSUME HandOffInv, [Next]_vars PROVE HandOffInv'
  OBVIOUS
<1>0. TypeOK /\ BufferInv /\ CarryInv /\ CursorClosed /\ BatchClosed /\ FreshConns
  BY InvParts
<1>1. TypeOK' /\ Excused \subseteq Excused'
  BY <1>0, TypeStep, ExcusedGrows
<1> SUFFICES BufferInv' /\ CarryInv' /\ CursorClosed' /\ BatchClosed' /\ FreshConns'
  BY <1>1 DEF HandOffInv, BufferInv, CarryInv
<1> USE DEF proxyVars, writerVars, collectorVars, netVars, carryVars
<1>2. CASE Enter
  BY <1>0, <1>1, <1>2, BufferFrame, CarryFrame, CursorFrame, BatchFrame, FreshFrame DEF Enter
<1>3. CASE Assign
  BY <1>0, <1>1, <1>3, AssignBuffer, CarryFrame, CursorFrame, BatchFrame, FreshFrame DEF Assign
<1>4. CASE Dial
  BY <1>0, <1>1, <1>4, BufferFrame, DialStep DEF Dial, CursorAtStart
<1>5. CASE Snapshot
  BY <1>0, <1>1, <1>5, BufferFrame, CarryFrame, CursorFrame, SnapshotBatch, FreshFrame DEF Snapshot
<1>6. CASE Write
  BY <1>0, <1>1, <1>6, BufferFrame, WriteStep DEF Write
<1>7. CASE SessionEnds \/ Hangup \/ CountStranded
  <2>1. CursorClosed' /\ BatchClosed'
    BY <1>7 DEF SessionEnds, Hangup, CountStranded, CursorClosed, BatchClosed
  <2> QED
    BY <1>0, <1>1, <1>7, <2>1, BufferFrame, CarryFrame, FreshFrame
       DEF SessionEnds, Hangup, CountStranded
<1>8. CASE Strand
  <2>1. BufferInv'
    BY <1>0, <1>1, <1>8 DEF Strand, StrandedCount, BufferInv, Increasing, OnlyFailedPublishLoses, Excused, Settled
  <2>2. CursorClosed' /\ BatchClosed'
    BY <1>8 DEF Strand, StrandedCount, CursorClosed, BatchClosed
  <2> QED
    BY <1>0, <1>1, <1>8, <2>1, <2>2, CarryFrame, FreshFrame DEF Strand, StrandedCount
<1>9. ASSUME NEW c \in Conns, ReaderStep(c)
      PROVE  BufferInv' /\ CarryInv' /\ CursorClosed' /\ BatchClosed' /\ FreshConns'
  <2>1. BufferInv'
    BY <1>0, <1>1, <1>9, TrimBuffer, BufferFrame DEF ReaderStep, ReaderEnds, CarryInv
  <2> QED
    BY <1>0, <1>1, <1>9, <2>1, ReaderCarry, CursorFrame, BatchFrame
       DEF ReaderStep, ReadAck, ReaderEnds
<1>10. ASSUME NEW c \in Conns, Receive(c)
       PROVE  BufferInv' /\ CarryInv' /\ CursorClosed' /\ BatchClosed' /\ FreshConns'
  BY <1>0, <1>1, <1>10, ReceiveStep, BufferFrame, BatchFrame DEF Receive
<1>11. ASSUME NEW c \in Conns, TransportStores(c) \/ Accept(c) \/ PublishFails(c)
       PROVE  BufferInv' /\ CarryInv' /\ CursorClosed' /\ BatchClosed' /\ FreshConns'
  BY <1>0, <1>1, <1>11, PublishStep, BufferFrame, BatchFrame
     DEF TransportStores, Accept, Published, PublishFails, Busy
<1>12. ASSUME (\E c \in Conns : HandlerEnds(c)) \/ Break \/ Crash
       PROVE  BufferInv' /\ CarryInv' /\ CursorClosed' /\ BatchClosed' /\ FreshConns'
  BY <1>0, <1>1, <1>12, LossStep, BufferFrame, BatchFrame DEF HandlerEnds, Break, Crash
<1>13. CASE Restart
  BY <1>0, <1>1, <1>13, BufferFrame, CarryFrame, CursorFrame, BatchFrame, FreshFrame DEF Restart
<1>14. CASE UNCHANGED vars
  BY <1>0, <1>1, <1>14, BufferFrame, CarryFrame, CursorFrame, BatchFrame, FreshFrame DEF vars
<1> QED
  BY <1>2, <1>3, <1>4, <1>5, <1>6, <1>7, <1>8, <1>9, <1>10, <1>11, <1>12, <1>13, <1>14
     DEF Next, HandlerStep

\* The invariant holds in every reachable state.
THEOREM HandOff == Spec => []HandOffInv
BY InvInit, InvStep, PTL DEF Spec

\* However connections break, the collector crashes, acks come late and
\* buffers fill up: a span that leaves the proxy's buffer has been settled, or
\* its own publish had failed.
THEOREM LossNeedsFailedPublish == Spec => []OnlyFailedPublishLoses
<1>1. HandOffInv => OnlyFailedPublishLoses
  BY DEF HandOffInv
<1> QED
  BY <1>1, HandOff, PTL

\* Every ack under way covers only spans that may be trimmed.
THEOREM AcksAreSafe == Spec => []AckCoversSettled
<1>1. HandOffInv => AckCoversSettled
  BY DEF HandOffInv
<1> QED
  BY <1>1, HandOff, PTL

\* Each connection carries the spans in order, none twice.
THEOREM ConnectionsKeepOrder == Spec => []CarriedInOrder
<1>1. HandOffInv => CarriedInOrder
  BY DEF HandOffInv
<1> QED
  BY <1>1, HandOff, PTL

-----------------------------------------------------------------------------
(* The counter of stranded spans.                                          *)

LEMMA NumberedIsFinite ==
    ASSUME NEW n \in Nat, NEW S, S \subseteq 1..n
    PROVE  IsFiniteSet(S) /\ Cardinality(S) \in Nat
<1>1. IsFiniteSet(1..n)
  BY FS_Interval
<1> QED
  BY <1>1, FS_Subset, FS_CardinalityType

LEMMA UnionBound ==
    ASSUME NEW S, IsFiniteSet(S), NEW T, IsFiniteSet(T)
    PROVE  /\ IsFiniteSet(S \cup T) /\ Cardinality(S \cup T) \in Nat
           /\ Cardinality(S \cup T) <= Cardinality(S) + Cardinality(T)
<1>1. /\ IsFiniteSet(S \cup T)
      /\ Cardinality(S \cup T) = Cardinality(S) + Cardinality(T) - Cardinality(S \cap T)
  BY FS_Union
<1>2. IsFiniteSet(S \cap T)
  BY FS_Intersection
<1>3. /\ Cardinality(S) \in Nat /\ Cardinality(T) \in Nat
      /\ Cardinality(S \cap T) \in Nat /\ Cardinality(S \cup T) \in Nat
  BY <1>1, <1>2, FS_CardinalityType
<1> QED
  BY <1>1, <1>3

\* The buffer holds no more spans than it is long.
LEMMA HeldBound == TypeOK => IsFiniteSet(Held) /\ Cardinality(Held) <= Len(pending)
<1> SUFFICES ASSUME TypeOK PROVE IsFiniteSet(Held) /\ Cardinality(Held) <= Len(pending)
  OBVIOUS
<1>1. pending \in Seq(1..seq) /\ seq \in Nat /\ Len(pending) \in Nat
      /\ DOMAIN pending = 1..Len(pending)
  BY LenProperties DEF TypeOK, ProxyType
<1>2. Held \subseteq 1..seq
  BY <1>1, ElementOfSeq DEF Held
<1>3. [i \in 1..Len(pending) |-> pending[i]] \in Surjection(1..Len(pending), Held)
  BY <1>1 DEF Surjection, Held
<1>4. ExistsSurjection(1..Len(pending), Held)
  BY <1>3 DEF ExistsSurjection
<1>5. Cardinality(Held) <= Len(pending)
  BY <1>1, <1>4, FS_SurjCardinalityBound
<1> QED
  BY <1>1, <1>2, <1>5, NumberedIsFinite

LEMMA CountStep == TypeOK /\ StrandCounted /\ [Next]_vars => StrandCounted'
<1> SUFFICES ASSUME TypeOK, StrandCounted, [Next]_vars PROVE StrandCounted'
  OBVIOUS
<1>1. /\ offered \in Nat /\ entering \in Nat /\ seq \in Nat /\ dropped \in Nat
      /\ Len(pending) \in Nat /\ stranded \subseteq 1..seq /\ uncounted \in Nat
  BY LenProperties DEF TypeOK, ProxyType, WriterType
<1>2. IsFiniteSet(stranded) /\ Cardinality(stranded) \in Nat
  BY <1>1, NumberedIsFinite
<1>3. CASE Enter
  BY <1>1, <1>2, <1>3 DEF Enter, StrandCounted, writerVars
<1>4. CASE Assign
  BY <1>1, <1>2, <1>4 DEF Assign, StrandCounted, writerVars
<1>5. CASE Strand
  <2>1. /\ offered' = offered /\ entering' = entering /\ seq' = seq
        /\ stranded' = stranded \cup Held /\ dropped' = dropped
        /\ uncounted = 0 /\ uncounted' = Len(pending)
    BY <1>5 DEF Strand, StrandedCount, TypeOK, WriterType
  <2>2. IsFiniteSet(Held) /\ Cardinality(Held) <= Len(pending) /\ Cardinality(Held) \in Nat
    BY HeldBound, FS_CardinalityType
  <2>3. /\ Cardinality(stranded \cup Held) \in Nat
        /\ Cardinality(stranded \cup Held) <= Cardinality(stranded) + Cardinality(Held)
    BY <1>2, <2>2, UnionBound
  <2>4. Cardinality(stranded') <= Cardinality(stranded) + Len(pending) /\ Cardinality(stranded') \in Nat
    BY <1>1, <1>2, <2>1, <2>2, <2>3
  <2> QED
    BY <1>1, <1>2, <2>1, <2>4 DEF StrandCounted
<1>6. CASE CountStranded
  BY <1>1, <1>2, <1>6 DEF CountStranded, StrandCounted
<1>7. CASE ~Enter /\ ~Assign /\ ~Strand /\ ~CountStranded
  <2>1. UNCHANGED <<offered, entering, seq, dropped, stranded, uncounted>>
    BY <1>7 DEF Next, vars, proxyVars, writerVars, Dial, Snapshot, Write, SessionEnds, Hangup, HandlerStep,
       ReaderStep, Receive, TransportStores, Accept, HandlerEnds, ReadAck, ReaderEnds,
       PublishFails, Break, Crash, Restart
  <2> QED
    BY <2>1 DEF StrandCounted
<1> QED
  BY <1>3, <1>4, <1>5, <1>6, <1>7

LEMMA CountedLoss == HandOffInv /\ StrandCounted => LossIsCounted
<1> SUFFICES ASSUME HandOffInv, StrandCounted PROVE LossIsCounted
  OBVIOUS
<1> DEFINE kept == Held \cup stored \cup rejected \cup failed
<1>1. /\ TypeOK /\ seq \in Nat /\ offered \in Nat /\ entering \in Nat /\ dropped \in Nat
      /\ evicted \subseteq 1..seq /\ stranded \subseteq 1..seq
      /\ uncounted \in Nat
  BY DEF HandOffInv, TypeOK, ProxyType, WriterType
<1>2. kept \subseteq 1..seq
  <2>1. Held \subseteq 1..seq
    BY <1>1, ElementOfSeq DEF Held, TypeOK, ProxyType
  <2> QED
    BY <1>1, <2>1 DEF TypeOK, CollectorType, BoundType
<1>3. 1..seq = kept \cup (evicted \cup stranded)
  <2>1. 1..seq \subseteq Held \cup (stored \cup rejected \cup evicted \cup stranded) \cup failed
    BY DEF HandOffInv, OnlyFailedPublishLoses, Excused, Settled
  <2> QED
    BY <1>1, <1>2, <2>1
<1>4. /\ IsFiniteSet(kept) /\ Cardinality(kept) \in Nat
      /\ IsFiniteSet(evicted) /\ Cardinality(evicted) \in Nat
      /\ IsFiniteSet(stranded) /\ Cardinality(stranded) \in Nat
  BY <1>1, <1>2, NumberedIsFinite
<1>5. /\ IsFiniteSet(evicted \cup stranded)
      /\ Cardinality(evicted \cup stranded) \in Nat
      /\ Cardinality(evicted \cup stranded) <= Cardinality(evicted) + Cardinality(stranded)
  BY <1>4, UnionBound
<1>6. Cardinality(1..seq) <= Cardinality(kept) + Cardinality(evicted \cup stranded)
  BY <1>3, <1>4, <1>5, UnionBound, Zenon
<1>7. Cardinality(1..seq) = seq
  BY <1>1, FS_Interval
<1>8. LossIsCounted <=> (offered - entering) - Cardinality(kept)
                            <= dropped + uncounted + Cardinality(evicted)
  BY DEF LossIsCounted
<1> HIDE DEF kept
<1> QED
  BY <1>1, <1>4, <1>5, <1>6, <1>7, <1>8 DEF StrandCounted

\* The stranded counter of the proxy's healthz misses no span that is lost but
\* those the cap pushed out and those whose publish failed, whatever the race
\* between the unlocked connected check of enqueue and the stranding.
THEOREM LossesAreCounted == Spec => []LossIsCounted
<1>1. Init => StrandCounted
  <2>1. Cardinality({}) = 0
    BY FS_EmptySet
  <2> QED
    BY <2>1 DEF Init, StrandCounted
<1>2. HandOffInv => TypeOK
  BY DEF HandOffInv
<1> QED
  BY <1>1, <1>2, HandOff, CountStep, CountedLoss, PTL DEF Spec

-----------------------------------------------------------------------------
(* Without failed publishes, the hand-off implements AtLeastOnce.          *)

ValidInHand == \A c \in Conns : Busy(c) => hand[c] \notin Invalid
NoFailures == failed = {}

LEMMA ValidStep == TypeOK /\ ValidInHand /\ [Next]_vars => ValidInHand'
<1> SUFFICES ASSUME TypeOK, ValidInHand, [Next]_vars PROVE ValidInHand'
  OBVIOUS
<1> USE DEF ValidInHand, Busy
<1>1. CASE UNCHANGED <<handler, hand>>
  BY <1>1
<1>2. CASE Dial
  BY <1>2 DEF Dial, CursorAtStart, TypeOK, CollectorType, Busy
<1>3. ASSUME NEW c \in Conns, Receive(c) PROVE ValidInHand'
  BY <1>3 DEF Receive, TypeOK, CollectorType, Busy
<1>4. ASSUME NEW c \in Conns,
             TransportStores(c) \/ Accept(c) \/ PublishFails(c) \/ HandlerEnds(c)
      PROVE  ValidInHand'
  BY <1>4 DEF TransportStores, Accept, Published, PublishFails, HandlerEnds, TypeOK, CollectorType, Busy
<1>5. CASE Crash
  BY <1>5 DEF Crash
<1>6. CASE Enter \/ Assign \/ Snapshot \/ Write \/ SessionEnds \/ Hangup \/ Strand \/ CountStranded
  BY <1>1, <1>6 DEF Enter, Assign, Snapshot, Write, SessionEnds, Hangup, Strand, CountStranded, collectorVars
<1>7. CASE Break \/ Restart \/ UNCHANGED vars
  BY <1>1, <1>7 DEF Break, Restart, vars, collectorVars
<1>8. ASSUME NEW c \in Conns, ReaderStep(c) PROVE ValidInHand'
  BY <1>1, <1>8 DEF ReaderStep, ReadAck, ReaderEnds, collectorVars
<1> QED
  BY <1>2, <1>3, <1>4, <1>5, <1>6, <1>7, <1>8 DEF Next, HandlerStep

LEMMA NoFailuresStep ==
    ASSUME MaxPublishFailures = 0, TypeOK, NoFailures, [Next]_vars
    PROVE  NoFailures'
<1>1. \A c \in Conns : ~PublishFails(c)
  BY DEF PublishFails, Busy, TypeOK, BoundType
<1> USE DEF NoFailures
<1>2. CASE UNCHANGED failed
  BY <1>2
<1>3. CASE Enter \/ Assign \/ Dial \/ Snapshot \/ Write \/ SessionEnds \/ Hangup \/ Strand \/ CountStranded
  BY <1>2, <1>3 DEF Enter, Assign, Dial, Snapshot, Write, SessionEnds, Hangup, Strand, CountStranded, boundVars
<1>4. ASSUME NEW c \in Conns, HandlerStep(c) \/ ReaderStep(c) PROVE UNCHANGED failed
  BY <1>4 DEF HandlerStep, Receive, TransportStores, Accept, Published, HandlerEnds, ReaderStep, ReadAck,
     ReaderEnds, boundVars
<1>5. CASE Break \/ Crash \/ Restart \/ UNCHANGED vars
  BY <1>2, <1>5 DEF Break, Crash, Restart, vars, boundVars
<1> QED
  BY <1>1, <1>2, <1>3, <1>4, <1>5 DEF Next

\* What the append and the cap do to the set of held spans.
LEMMA AssignHeld ==
    ASSUME TypeOK, Increasing(pending), Assign
    PROVE  LET lost == Oldest(Enqueued)
           IN /\ lost \subseteq Held \cup {seq + 1}
              /\ Held' = (Held \cup {seq + 1}) \ lost
              /\ evicted' = evicted \cup lost
<1> DEFINE buf == Enqueued
<1>1. seq \in Nat /\ pending \in Seq(1..seq)
  BY DEF TypeOK, ProxyType
<1>2. /\ Len(pending) \in Nat
      /\ \A i \in 1..Len(pending) : pending[i] \in 1..seq
      /\ DOMAIN pending = 1..Len(pending)
  BY <1>1, ElementOfSeq, LenProperties
<1>3. pending \in Seq(1..(seq + 1)) /\ seq + 1 \in 1..(seq + 1)
  BY <1>1, SeqMonotonic
<1>4. /\ buf \in Seq(1..(seq + 1)) /\ Len(buf) = Len(pending) + 1
      /\ \A i \in 1..Len(pending) : buf[i] = pending[i]
      /\ buf[Len(pending) + 1] = seq + 1
  BY <1>3, AppendProperties DEF Enqueued
<1>5. pending' = Newest(buf) /\ evicted' = evicted \cup Oldest(buf)
  BY DEF Assign
<1> DEFINE all == {buf[i] : i \in 1..Len(buf)}
<1> HIDE DEF buf
<1>6. all = Held \cup {seq + 1}
  <2>1. \A i \in 1..Len(buf) : buf[i] \in Held \cup {seq + 1}
    BY <1>2, <1>4 DEF Held
  <2>2. \A n \in Held : \E i \in 1..Len(buf) : buf[i] = n
    BY <1>2, <1>4 DEF Held
  <2>3. \E i \in 1..Len(buf) : buf[i] = seq + 1
    BY <1>2, <1>4
  <2> QED
    BY <2>1, <2>2, <2>3
<1>7. \A i, j \in 1..Len(buf) : i < j => buf[i] # buf[j]
  <2> SUFFICES ASSUME NEW i \in 1..Len(buf), NEW j \in 1..Len(buf), i < j
               PROVE  buf[i] # buf[j]
    OBVIOUS
  <2>1. i \in 1..Len(pending) /\ buf[i] = pending[i] /\ pending[i] \in 1..seq
    BY <1>2, <1>4
  <2>2. CASE j = Len(pending) + 1
    BY <1>1, <1>4, <2>1, <2>2
  <2>3. CASE j \in 1..Len(pending)
    <3>1. pending[i] < pending[j] /\ pending[j] \in 1..seq
      BY <1>2, <2>1, <2>3 DEF Increasing
    <3> QED
      BY <1>4, <2>1, <2>3, <3>1
  <2> QED
    BY <1>2, <1>4, <2>2, <2>3
<1> DEFINE m == IF Len(buf) > Cap THEN Len(buf) - Cap ELSE 0
<1>8. /\ m \in Nat /\ m <= Len(buf)
      /\ Newest(buf) \in Seq(1..(seq + 1))
      /\ Len(Newest(buf)) = Len(buf) - m
      /\ \A i \in 1..Len(Newest(buf)) : Newest(buf)[i] = buf[m + i]
      /\ Oldest(buf) = {buf[i] : i \in 1..m}
  <2>1. Len(buf) \in Nat /\ m <= Len(buf)
    BY <1>2, <1>4
  <2>2. /\ m \in Nat
        /\ Newest(buf) \in Seq(1..(seq + 1))
        /\ Len(Newest(buf)) = Len(buf) - m
        /\ \A i \in 1..Len(Newest(buf)) : Newest(buf)[i] = buf[m + i]
        /\ Oldest(buf) = {buf[i] : i \in 1..m}
    <3>1. buf \in Seq(1..(seq + 1))
      BY <1>4
    <3> DEFINE S == 1..(seq + 1)
    <3>2. buf \in Seq(S)
      BY <3>1
    <3> HIDE DEF S
    <3>3. LET k == IF Len(buf) > Cap THEN Len(buf) - Cap ELSE 0
          IN /\ k \in Nat
             /\ Newest(buf) \in Seq(S)
             /\ Len(Newest(buf)) = Len(buf) - k
             /\ \A i \in 1..Len(Newest(buf)) : Newest(buf)[i] = buf[k + i]
             /\ Oldest(buf) = {buf[i] : i \in 1..k}
      BY <3>2, NewestFacts
    <3> QED
      BY <3>3 DEF S
  <2> HIDE DEF m
  <2> QED
    BY <2>1, <2>2
<1> HIDE DEF m
<1>9. DOMAIN pending' = 1..(Len(buf) - m) /\ \A i \in 1..(Len(buf) - m) : pending'[i] = buf[m + i]
  BY <1>5, <1>8, LenProperties
<1>10. Oldest(buf) \subseteq all
  BY <1>2, <1>4, <1>8
<1>11. ASSUME NEW i \in DOMAIN pending' PROVE pending'[i] \in all \ Oldest(buf)
  <2>1. m + i \in 1..Len(buf) /\ pending'[i] = buf[m + i]
    BY <1>2, <1>4, <1>8, <1>9
  <2>2. \A j \in 1..m : j \in 1..Len(buf) /\ j < m + i
    BY <1>2, <1>4, <1>8, <1>9
  <2> QED
    BY <1>7, <1>8, <2>1, <2>2
<1>12. ASSUME NEW i \in 1..Len(buf), buf[i] \notin Oldest(buf)
       PROVE  \E j \in DOMAIN pending' : pending'[j] = buf[i]
  <2>1. i > m
    BY <1>2, <1>4, <1>8, <1>12
  <2>2. i - m \in DOMAIN pending' /\ pending'[i - m] = buf[m + (i - m)] /\ m + (i - m) = i
    BY <1>2, <1>4, <1>8, <1>9, <2>1
  <2> QED
    BY <2>2
<1>13. Held' = all \ Oldest(buf)
  BY <1>11, <1>12 DEF Held
<1> QED
  BY <1>5, <1>6, <1>10, <1>13 DEF buf

\* Trimming removes numbers up to the ack, and nothing else.
LEMMA TrimHeld ==
    ASSUME TypeOK, NEW c \in Conns, ReadAck(c)
    PROVE  Held' \subseteq Held /\ Held \ Held' \subseteq 1..Head(acks[c])
<1>1. pending \in Seq(1..seq) /\ seq \in Nat /\ acks[c] \in Seq(1..seq) /\ acks[c] # <<>>
  BY DEF ReadAck, TypeOK, ProxyType, NetType
<1>2. /\ Len(pending) \in Nat
      /\ \A i \in 1..Len(pending) : pending[i] \in 1..seq
      /\ DOMAIN pending = 1..Len(pending)
  BY <1>1, ElementOfSeq, LenProperties
<1> DEFINE a == Head(acks[c])
<1>3. a \in 1..seq
  BY <1>1, HeadTailProperties
<1>4. PICK n \in 0..Len(pending) :
         /\ \A i \in 1..n : pending[i] <= a
         /\ pending' = SubSeq(pending, n + 1, Len(pending))
  BY DEF ReadAck
<1> HIDE DEF a
<1>5. /\ pending' \in Seq(1..seq)
      /\ Len(pending') = Len(pending) - n
      /\ \A i \in 1..Len(pending') : pending'[i] = pending[n + i]
  BY <1>1, <1>4, SuffixFacts
<1>6. DOMAIN pending' = 1..(Len(pending) - n)
  BY <1>5, LenProperties
<1>7. \A i \in DOMAIN pending' : n + i \in DOMAIN pending /\ pending'[i] = pending[n + i]
  BY <1>2, <1>5, <1>6
<1>8. ASSUME NEW i \in DOMAIN pending, pending[i] \notin Held' PROVE pending[i] \in 1..a
  <2>1. CASE i <= n
    BY <1>2, <1>3, <1>4, <2>1
  <2>2. CASE i > n
    <3>1. i - n \in DOMAIN pending' /\ pending'[i - n] = pending[n + (i - n)] /\ n + (i - n) = i
      BY <1>2, <1>5, <1>6, <2>2
    <3> QED
      BY <1>8, <3>1 DEF Held
  <2> QED
    BY <1>2, <2>1, <2>2
<1>9. Held' \subseteq Held
  BY <1>7 DEF Held
<1> QED
  BY <1>8, <1>9 DEF Held, a

LEMMA PromiseInit == Init => ALO!Init
BY DEF Init, ALO!Init, Held

LEMMA PromiseStep ==
    ASSUME HandOffInv, ValidInHand, NoFailures, [Next]_vars
    PROVE  [ALO!Next]_(ALO!vars)
<1>0. TypeOK /\ Increasing(pending) /\ AckCoversSettled
  BY DEF HandOffInv
<1>1. seq \in Nat /\ Held \subseteq 1..seq /\ seq <= MaxSpans
  BY <1>0, ElementOfSeq DEF TypeOK, ProxyType, Held
<1>2. CASE UNCHANGED <<seq, pending, stored, rejected, evicted, stranded>>
  BY <1>2 DEF ALO!vars, Held
<1>3. CASE Assign
  <2> DEFINE lost == Oldest(Enqueued)
  <2>1. /\ lost \subseteq Held \cup {seq + 1} /\ Held' = (Held \cup {seq + 1}) \ lost
        /\ evicted' = evicted \cup lost
    BY <1>0, <1>3, AssignHeld
  <2>2. /\ seq' = seq + 1 /\ stored' = stored /\ rejected' = rejected /\ stranded' = stranded
        /\ seq + 1 \in 1..MaxSpans
    BY <1>0, <1>3 DEF Assign, collectorVars, TypeOK, ProxyType
  <2>3. seq + 1 \notin 1..seq /\ 1..seq' = (1..seq) \cup {seq + 1}
    BY <1>1, <2>2
  <2> HIDE DEF lost
  <2>4. ALO!Take(seq + 1)
    BY <2>1, <2>2, <2>3 DEF ALO!Take
  <2> QED
    BY <2>2, <2>4 DEF ALO!Next
<1>4. CASE Strand
  <2>1. /\ Held' = {} /\ stranded' = stranded \cup Held
        /\ seq' = seq /\ evicted' = evicted /\ stored' = stored /\ rejected' = rejected
    BY <1>4 DEF Strand, StrandedCount, Held, collectorVars
  <2>2. ALO!WriteOff(Held)
    BY <2>1 DEF ALO!WriteOff
  <2> QED
    BY <2>2 DEF ALO!Next
<1>5. ASSUME NEW c \in Conns, ReadAck(c) PROVE [ALO!Next]_(ALO!vars)
  <2>1. Held' \subseteq Held /\ Held \ Held' \subseteq 1..Head(acks[c])
    BY <1>0, <1>5, TrimHeld
  <2>2. 1..Head(acks[c]) \subseteq Settled
    <3>1. acks[c] \in Seq(1..seq) /\ acks[c] # <<>>
      BY <1>0, <1>5 DEF ReadAck, TypeOK, NetType
    <3>2. 1 \in DOMAIN acks[c] /\ Head(acks[c]) = acks[c][1]
      BY <3>1, LenProperties, HeadTailProperties
    <3> QED
      BY <1>0, <3>2 DEF AckCoversSettled, Excused, NoFailures
  <2>3. /\ seq' = seq /\ evicted' = evicted /\ stranded' = stranded
        /\ stored' = stored /\ rejected' = rejected
    BY <1>5 DEF ReadAck, collectorVars
  <2> DEFINE gone == Held \ Held'
  <2>4. /\ gone \in SUBSET Held /\ Held' = Held \ gone
        /\ gone \subseteq (stored \cup rejected) \cup (evicted \cup stranded)
    BY <2>1, <2>2 DEF Settled
  <2> HIDE DEF gone
  <2>5. ALO!Release(gone)
    BY <2>3, <2>4 DEF ALO!Release
  <2> QED
    BY <2>4, <2>5 DEF ALO!Next
<1>6. ASSUME NEW c \in Conns, Receive(c) PROVE [ALO!Next]_(ALO!vars)
  <2> DEFINE h == Head(wire[c])
  <2>1. h \in 1..seq
    BY <1>0, <1>6, HeadTailProperties DEF Receive, TypeOK, NetType
  <2>2. /\ UNCHANGED <<seq, pending, stored, evicted, stranded>>
        /\ \/ h \in Invalid /\ rejected' = rejected \cup {h}
           \/ rejected' = rejected
    BY <1>6 DEF Receive, proxyVars
  <2>3. CASE h \in Invalid /\ rejected' = rejected \cup {h}
    <3>1. Held' = Held
      BY <2>2 DEF Held
    <3>2. ALO!Refuse(h) /\ h \in 1..MaxSpans
      BY <1>1, <2>1, <2>2, <2>3, <3>1 DEF ALO!Refuse
    <3> QED
      BY <3>2 DEF ALO!Next
  <2> QED
    BY <1>2, <2>2, <2>3
<1>7. ASSUME NEW c \in Conns, TransportStores(c) PROVE [ALO!Next]_(ALO!vars)
  <2>1. hand[c] \in 1..seq /\ hand[c] \notin Invalid
    BY <1>0, <1>1, <1>7 DEF TransportStores, TypeOK, CollectorType, ValidInHand, Busy
  <2>2. /\ UNCHANGED <<seq, pending, rejected, evicted, stranded>>
        /\ stored' = stored \cup {hand[c]}
    BY <1>7 DEF TransportStores, proxyVars
  <2>3. Held' = Held
    BY <2>2 DEF Held
  <2>4. ALO!Store(hand[c]) /\ hand[c] \in 1..MaxSpans
    BY <1>1, <2>1, <2>2, <2>3 DEF ALO!Store
  <2> QED
    BY <2>4 DEF ALO!Next
<1> USE DEF proxyVars, writerVars, collectorVars, netVars, boundVars
<1>8. CASE Enter \/ Dial \/ Snapshot \/ Write \/ SessionEnds \/ Hangup \/ CountStranded
  BY <1>2, <1>8 DEF Enter, Dial, CursorAtStart, Snapshot, Write, SessionEnds, Hangup, CountStranded
<1>9. ASSUME NEW c \in Conns, ReaderEnds(c) \/ Accept(c) \/ PublishFails(c) \/ HandlerEnds(c)
      PROVE  [ALO!Next]_(ALO!vars)
  BY <1>2, <1>9 DEF ReaderEnds, Accept, Published, PublishFails, Busy, HandlerEnds
<1>10. CASE Break \/ Crash \/ Restart \/ UNCHANGED vars
  BY <1>2, <1>10 DEF Break, Crash, Restart, vars
<1> QED
  BY <1>3, <1>4, <1>5, <1>6, <1>7, <1>8, <1>9, <1>10 DEF Next, HandlerStep, ReaderStep

\* If no publish ever fails, the hand-off keeps the promise of AtLeastOnce for
\* any number of breaks and crashes: a span leaves the buffer only once it is
\* stored, refused, or written off by the cap or by the stranding.
THEOREM Refinement ==
    ASSUME MaxPublishFailures = 0
    PROVE  Spec => Promise
<1>1. Init => ValidInHand /\ NoFailures
  BY DEF Init, ValidInHand, NoFailures, Busy
<1>2. HandOffInv => TypeOK
  BY DEF HandOffInv
<1>3. TypeOK /\ NoFailures /\ [Next]_vars => NoFailures'
  BY NoFailuresStep
<1>4. HandOffInv /\ ValidInHand /\ NoFailures /\ [Next]_vars => [ALO!Next]_(ALO!vars)
  BY PromiseStep
<1> QED
  BY <1>1, <1>2, <1>3, <1>4, HandOff, ValidStep, PromiseInit, PTL DEF Spec, Promise, ALO!Spec
=============================================================================
