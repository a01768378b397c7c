--------------------------- MODULE LiveEdgeProofs ---------------------------
(***************************************************************************)
(* Proofs about LiveEdge, for any traces, any number of versions of a row, *)
(* any capacity of the hub's channel, and any number of loads and failures.*)
(***************************************************************************)
EXTENDS LiveEdge, SequenceTheorems, TLAPS

USE TraceAssumption, BoundAssumption

-----------------------------------------------------------------------------
(* The queues, the loads and the steps that leave both alone.              *)

\* What a queue of events holds after one more, and after its first left.
LEMMA AppendEvents ==
    ASSUME NEW s \in Seq(Events), NEW e \in Events
    PROVE  /\ Append(s, e) \in Seq(Events) /\ Len(Append(s, e)) = Len(s) + 1
           /\ \A i \in 1..Len(s) : Append(s, e)[i] = s[i]
           /\ Append(s, e)[Len(s) + 1] = e
           /\ Len(s) \in Nat
BY AppendProperties, LenProperties

LEMMA TailEvents ==
    ASSUME NEW s \in Seq(Events), s # <<>>
    PROVE  /\ Head(s) \in Events /\ Head(s) = s[1]
           /\ Tail(s) \in Seq(Events) /\ Len(Tail(s)) = Len(s) - 1
           /\ Len(s) \in Nat \ {0}
           /\ \A i \in 1..Len(Tail(s)) : Tail(s)[i] = s[i + 1]
BY HeadTailProperties, EmptySeq

\* An element of the shortened queue was in the queue, and one of the queue is
\* its head or still there.
LEMMA TailHolds ==
    ASSUME NEW s \in Seq(Events), s # <<>>
    PROVE  /\ \A i \in 1..Len(Tail(s)) : \E j \in 1..Len(s) : Tail(s)[i] = s[j]
           /\ \A j \in 1..Len(s) :
                s[j] = Head(s) \/ \E i \in 1..Len(Tail(s)) : Tail(s)[i] = s[j]
<1>1. \A i \in 1..Len(Tail(s)) : i + 1 \in 1..Len(s) /\ Tail(s)[i] = s[i + 1]
  BY TailEvents
<1>2. \A j \in 1..Len(s) : j # 1 => j - 1 \in 1..Len(Tail(s)) /\ Tail(s)[j - 1] = s[j]
  BY TailEvents
<1> QED
  BY <1>1, <1>2, TailEvents

LEMMA AppendHolds ==
    ASSUME NEW s \in Seq(Events), NEW e \in Events
    PROVE  /\ \A i \in 1..Len(Append(s, e)) :
                Append(s, e)[i] = e \/ \E j \in 1..Len(s) : Append(s, e)[i] = s[j]
           /\ \A j \in 1..Len(s) : \E i \in 1..Len(Append(s, e)) : Append(s, e)[i] = s[j]
           /\ \E i \in 1..Len(Append(s, e)) : Append(s, e)[i] = e
<1>1. \A i \in 1..Len(Append(s, e)) : i \in 1..Len(s) \/ i = Len(s) + 1
  BY AppendEvents
<1>2. \A i \in 1..Len(s) : i \in 1..Len(Append(s, e))
  BY AppendEvents
<1>3. Len(s) + 1 \in 1..Len(Append(s, e))
  BY AppendEvents
<1> QED
  BY <1>1, <1>2, <1>3, AppendEvents

Requests == [id : 1..asked, stage : {"asked", "read"}, rows : [Traces -> 0..Final]]

\* One more load keeps the older ones, and is asked after all of them.
LEMMA AskFacts ==
    ASSUME TypeOK, Ask
    PROVE  /\ requests' = requests \cup {Load(asked + 1)}
           /\ asked' = asked + 1 /\ asked' \in 1..MaxLoads
           /\ down' = down /\ answered' = answered /\ answered' \in 0..asked'
           /\ requests' \subseteq Requests'
           /\ Load(asked + 1).id = asked + 1 /\ Load(asked + 1).stage = "asked"
           /\ Load(asked + 1).rows = NoRows
           /\ \A r \in requests : r.id < asked + 1
<1>1. /\ asked \in 1..MaxLoads /\ answered \in 0..asked
      /\ requests \subseteq Requests
  BY DEF TypeOK, Requests
<1>2. /\ asked' = asked + 1 /\ asked < MaxLoads
      /\ requests' = requests \cup {Load(asked + 1)}
      /\ down' = down /\ answered' = answered
  BY DEF Ask
<1>3. NoRows \in [Traces -> 0..Final]
  BY DEF NoRows
<1>4. Load(asked + 1) \in [id : 1..asked', stage : {"asked", "read"}, rows : [Traces -> 0..Final]]
  BY <1>1, <1>2, <1>3 DEF Load
<1>5. Requests \subseteq [id : 1..asked', stage : {"asked", "read"}, rows : [Traces -> 0..Final]]
  BY <1>1, <1>2 DEF Requests
<1>6. requests' \subseteq [id : 1..asked', stage : {"asked", "read"}, rows : [Traces -> 0..Final]]
  BY <1>1, <1>2, <1>4, <1>5
<1>7. \A r \in requests : r.id < asked + 1
  BY <1>1 DEF Requests
<1> QED
  BY <1>1, <1>2, <1>6, <1>7 DEF Load, Requests

-----------------------------------------------------------------------------
(* Types.                                                                  *)

LEMMA TypeInit == Init => TypeOK
<1> SUFFICES ASSUME Init PROVE TypeOK
  OBVIOUS
<1>1. NoRows \in [Traces -> 0..Final]
  BY DEF NoRows
<1>2. <<>> \in Seq(Events) /\ Len(<<>>) = 0
  BY EmptySeq
<1>3. Load(1) \in [id : 1..1, stage : {"asked", "read"}, rows : [Traces -> 0..Final]]
  BY <1>1 DEF Load
<1>4. chan \in Seq(Events) /\ Len(chan) <= ChannelCap /\ wire \in Seq(Events)
  BY <1>2 DEF Init
<1>5. requests \subseteq [id : 1..asked, stage : {"asked", "read"}, rows : [Traces -> 0..Final]]
  BY <1>3 DEF Init
<1>6. /\ row \in [Traces -> 0..Final] /\ due \subseteq Traces
      /\ shown \in [Traces -> 0..Final] /\ loaded \in 0..Final
      /\ missed \subseteq Traces /\ overtaken \subseteq Traces
  BY <1>1 DEF Init
<1>7. /\ asked \in 1..MaxLoads /\ answered \in 0..asked /\ failures \in 0..MaxFailures
  BY DEF Init
<1>8. /\ page \in {"home", "detail"} /\ sock = "none" /\ server = "none"
      /\ hadDrop \in BOOLEAN /\ down \in BOOLEAN
  BY DEF Init
<1> QED
  BY <1>4, <1>5, <1>6, <1>7, <1>8 DEF TypeOK

LEMMA TypeStep == TypeOK /\ NoneAhead /\ [Next]_vars => TypeOK'
<1> SUFFICES ASSUME TypeOK, NoneAhead, [Next]_vars PROVE TypeOK'
  OBVIOUS
<1> USE DEF hubVars, loadVars
<1>1. CASE \E t \in Traces : Write(t)
  BY <1>1 DEF Write, TypeOK
<1>2. CASE \E t \in Traces : Publish(t)
  <2> PICK t \in Traces : Publish(t)
    BY <1>2
  <2>1. Event(t) \in Events
    BY DEF Publish, TypeOK, NoneAhead, Event, Events
  <2>2. chan' \in Seq(Events) /\ Len(chan') <= ChannelCap
    <3>1. chan \in Seq(Events) /\ Len(chan) <= ChannelCap /\ Len(chan) \in Nat
      BY LenProperties DEF TypeOK
    <3>2. CASE server = "registered" /\ Room
      <4>1. chan' = Append(chan, Event(t)) /\ Len(chan) < ChannelCap
        BY <3>2 DEF Publish, Room
      <4>2. Append(chan, Event(t)) \in Seq(Events) /\ Len(Append(chan, Event(t))) = Len(chan) + 1
        BY <2>1, <3>1, AppendEvents
      <4> QED
        BY <3>1, <4>1, <4>2
    <3>3. CASE ~(server = "registered" /\ Room)
      BY <3>1, <3>3 DEF Publish
    <3> QED
      BY <3>2, <3>3
  <2> QED
    BY <2>2 DEF Publish, TypeOK
<1>3. CASE \E t \in Traces : EventLost(t)
  BY <1>3 DEF EventLost, Fault, TypeOK
<1>4. CASE Upgrade
  BY <1>4 DEF Upgrade, TypeOK
<1>5. CASE Register
  BY <1>5 DEF Register, TypeOK
<1>6. CASE Pump
  <2>1. Head(chan) \in Events /\ chan' \in Seq(Events) /\ Len(chan') <= ChannelCap
    BY <1>6, TailEvents DEF Pump, TypeOK
  <2>2. wire' \in Seq(Events)
    BY <1>6, <2>1, AppendEvents DEF Pump, TypeOK
  <2> QED
    BY <1>6, <2>1, <2>2 DEF Pump, TypeOK
<1>7. CASE Break
  BY <1>7, EmptySeq DEF Break, Fault, TypeOK
<1>8. CASE Connect
  BY <1>8, EmptySeq DEF Connect, TypeOK
<1>9. CASE Disconnect
  <2>1. <<>> \in Seq(Events) /\ Len(<<>>) = 0 /\ 0 <= ChannelCap
    BY EmptySeq
  <2>2. chan' \in Seq(Events) /\ Len(chan') <= ChannelCap /\ wire' \in Seq(Events)
    BY <1>9, <2>1 DEF Disconnect
  <2> QED
    BY <1>9, <2>2 DEF Disconnect, TypeOK
<1>10. CASE OnOpen
  <2>1. /\ requests' \subseteq Requests' /\ asked' \in 1..MaxLoads
        /\ down' \in BOOLEAN /\ answered' \in 0..asked'
    BY <1>10, AskFacts DEF OnOpen, TypeOK, Requests
  <2> QED
    BY <1>10, <2>1 DEF OnOpen, TypeOK, Requests
<1>11. CASE OnClose
  BY <1>11, EmptySeq DEF OnClose, TypeOK
<1>12. CASE OnMessage
  <2>1. /\ requests' \subseteq Requests' /\ asked' \in 1..MaxLoads
        /\ down' \in BOOLEAN /\ answered' \in 0..asked'
    BY <1>12, AskFacts DEF OnMessage, TypeOK, Requests
  <2>2. Head(wire) \in Events /\ wire' \in Seq(Events)
    BY <1>12, TailEvents DEF OnMessage, TypeOK
  <2>3. shown' \in [Traces -> 0..Final]
    <3>1. Head(wire).trace \in Traces /\ Head(wire).version \in 0..Final
      BY <2>2 DEF Events
    <3>2. shown' = shown \/ shown' = [shown EXCEPT ![Head(wire).trace] = Head(wire).version]
      BY <1>12 DEF OnMessage
    <3>3. shown \in [Traces -> 0..Final]
      BY DEF TypeOK
    <3> QED
      BY <3>1, <3>2, <3>3
  <2>4. overtaken' \subseteq Traces
    <3>1. Head(wire).trace \in Traces
      BY <2>2 DEF Events
    <3>2. overtaken' \subseteq overtaken \cup {Head(wire).trace}
      BY <1>12 DEF OnMessage
    <3> QED
      BY <3>1, <3>2 DEF TypeOK
  <2> QED
    BY <1>12, <2>1, <2>2, <2>3, <2>4 DEF OnMessage, TypeOK, Requests
<1>13. CASE \E r \in requests : Read(r)
  <2> PICK r \in requests : Read(r)
    BY <1>13
  <2>1. [r EXCEPT !.stage = "read", !.rows = row] \in Requests
    BY DEF TypeOK, Requests
  <2> QED
    BY <2>1 DEF Read, TypeOK, Requests
<1>14. CASE \E r \in requests : LoadArrives(r)
  <2> PICK r \in requests : LoadArrives(r)
    BY <1>14
  <2>1. r.id \in 1..asked /\ r.rows \in [Traces -> 0..Final]
    BY DEF TypeOK
  <2>2. answered' \in 0..asked'
    BY <2>1 DEF LoadArrives, MaxOf, TypeOK
  <2>3. shown' \in [Traces -> 0..Final] /\ loaded' \in 0..Final
    BY <2>1 DEF LoadArrives, TypeOK
  <2>4. overtaken' \subseteq Traces
    BY DEF LoadArrives, Hidden, TypeOK
  <2> QED
    BY <2>2, <2>3, <2>4 DEF LoadArrives, TypeOK
<1>15. CASE \E r \in requests : LoadFails(r)
  <2> PICK r \in requests : LoadFails(r)
    BY <1>15
  <2>1. r.id \in 1..asked
    BY DEF TypeOK
  <2>2. answered' \in 0..asked'
    BY <2>1 DEF LoadFails, MaxOf, TypeOK
  <2>3. failures' \in 0..MaxFailures
    BY DEF LoadFails, Fault, TypeOK
  <2> QED
    BY <2>2, <2>3 DEF LoadFails, TypeOK
<1>16. CASE Reload
  <2>1. /\ requests' \subseteq Requests' /\ asked' \in 1..MaxLoads
        /\ down' \in BOOLEAN /\ answered' \in 0..asked'
    BY <1>16, AskFacts DEF Reload, TypeOK, Requests
  <2> QED
    BY <1>16, <2>1 DEF Reload, TypeOK, Requests
<1>17. CASE UNCHANGED vars
  BY <1>17 DEF vars, TypeOK
<1> QED
  BY <1>1, <1>2, <1>3, <1>4, <1>5, <1>6, <1>7, <1>8, <1>9, <1>10, <1>11, <1>12,
     <1>13, <1>14, <1>15, <1>16, <1>17 DEF Next

-----------------------------------------------------------------------------
(* Nothing runs ahead of the store.                                        *)

\* A step that neither writes, nor shows, nor moves anything new keeps it.
LEMMA AheadFrame ==
    ASSUME NoneAhead, row' = row, shown' = shown, due' \subseteq due,
           chan' = chan \/ chan' = <<>>, wire' = wire \/ wire' = <<>>,
           requests' \subseteq requests
    PROVE  NoneAhead'
<1>1. \A i \in 1..Len(chan') : chan'[i].version <= row'[chan'[i].trace]
  <2>1. CASE chan' = chan
    BY <2>1 DEF NoneAhead
  <2>2. CASE chan' = <<>>
    BY <2>2
  <2> QED
    BY <2>1, <2>2
<1>2. \A i \in 1..Len(wire') : wire'[i].version <= row'[wire'[i].trace]
  <2>1. CASE wire' = wire
    BY <2>1 DEF NoneAhead
  <2>2. CASE wire' = <<>>
    BY <2>2
  <2> QED
    BY <2>1, <2>2
<1>3. /\ \A t \in Traces : shown'[t] <= row'[t]
      /\ \A t \in due' : row'[t] > 0
      /\ \A r \in requests', t \in Traces : r.rows[t] <= row'[t]
  BY DEF NoneAhead
<1> QED
  BY <1>1, <1>2, <1>3 DEF NoneAhead

\* The versions of the store and of what was read of it are numbers.
LEMMA Numbers ==
    ASSUME TypeOK
    PROVE  /\ \A t \in Traces : row[t] \in 0..Final /\ shown[t] \in 0..Final
           /\ \A r \in requests : /\ r.id \in 1..asked /\ r.stage \in {"asked", "read"}
                                  /\ \A t \in Traces : r.rows[t] \in 0..Final
           /\ \A i \in 1..Len(chan) : chan[i] \in Events
           /\ \A i \in 1..Len(wire) : wire[i] \in Events
BY ElementOfSeq DEF TypeOK

\* One more load asks for rows it has not read.
LEMMA AskAhead ==
    ASSUME TypeOK, NoneAhead, Ask, row' = row
    PROVE  \A r \in requests', t \in Traces : r.rows[t] <= row'[t]
<1>1. \A r \in requests' : r \in requests \/ r.rows = NoRows
  BY AskFacts
<1>2. \A t \in Traces : NoRows[t] = 0 /\ row[t] \in Nat
  BY Numbers DEF NoRows
<1> QED
  BY <1>1, <1>2 DEF NoneAhead

\* What a message changes: at most the row it is about.
LEMMA HeardFacts ==
    ASSUME TypeOK, OnMessage
    PROVE  /\ Head(wire) \in Events /\ Len(wire) \in Nat \ {0} /\ Head(wire) = wire[1]
           /\ shown' = shown \/ shown' = [shown EXCEPT ![Head(wire).trace] = Head(wire).version]
           /\ \A i \in 1..Len(wire') : \E j \in 1..Len(wire) : wire'[i] = wire[j]
           /\ \A j \in 1..Len(wire) :
                wire[j] = Head(wire) \/ \E i \in 1..Len(wire') : wire'[i] = wire[j]
           /\ overtaken \subseteq overtaken'
           /\ UNCHANGED <<page, row, due, sock, hadDrop, server, chan, loaded, missed>>
           /\ Ask \/ UNCHANGED loadVars
<1>1. wire \in Seq(Events) /\ wire # <<>> /\ wire' = Tail(wire)
  BY DEF TypeOK, OnMessage
<1>2. /\ Head(wire) \in Events /\ Len(wire) \in Nat \ {0} /\ Head(wire) = wire[1]
  BY <1>1, TailEvents
<1>3. /\ \A i \in 1..Len(wire') : \E j \in 1..Len(wire) : wire'[i] = wire[j]
      /\ \A j \in 1..Len(wire) :
            wire[j] = Head(wire) \/ \E i \in 1..Len(wire') : wire'[i] = wire[j]
  BY <1>1, TailHolds
<1>4. shown' = shown \/ shown' = [shown EXCEPT ![Head(wire).trace] = Head(wire).version]
  BY DEF OnMessage
<1>5. /\ overtaken \subseteq overtaken'
      /\ UNCHANGED <<page, row, due, sock, hadDrop, server, chan, loaded, missed>>
      /\ Ask \/ UNCHANGED loadVars
  BY DEF OnMessage
<1> QED
  BY <1>2, <1>3, <1>4, <1>5

LEMMA AheadStep == TypeOK /\ NoneAhead /\ [Next]_vars => NoneAhead'
<1> SUFFICES ASSUME TypeOK, NoneAhead, [Next]_vars PROVE NoneAhead'
  OBVIOUS
<1> USE DEF hubVars, loadVars
<1>1. CASE \E t \in Traces : Write(t)
  <2> PICK t \in Traces : Write(t)
    BY <1>1
  <2>1. /\ row' = [row EXCEPT ![t] = row[t] + 1] /\ due' = due \cup {t}
        /\ shown' = shown /\ chan' = chan /\ wire' = wire /\ requests' = requests
    BY DEF Write
  <2>2. \A u \in Traces : row[u] \in Nat /\ row'[u] \in Nat /\ row[u] <= row'[u]
    BY <2>1, Numbers, SMTT(20) DEF TypeOK
  <2>3. \A u \in Traces, n \in Nat : n <= row[u] => n <= row'[u]
    BY <2>2
  <2>4. \A i \in 1..Len(chan) : /\ chan[i].version \in Nat /\ chan[i].trace \in Traces
                                /\ chan[i].version <= row[chan[i].trace]
    BY Numbers DEF NoneAhead, Events
  <2>5. \A i \in 1..Len(wire) : /\ wire[i].version \in Nat /\ wire[i].trace \in Traces
                                /\ wire[i].version <= row[wire[i].trace]
    BY Numbers DEF NoneAhead, Events
  <2>6. \A r \in requests, u \in Traces : r.rows[u] \in Nat /\ r.rows[u] <= row[u]
    BY Numbers DEF NoneAhead
  <2>7. \A u \in Traces : shown[u] \in Nat /\ shown[u] <= row[u]
    BY Numbers DEF NoneAhead
  <2>8. \A u \in due' : row'[u] > 0
    BY <2>1, <2>2 DEF NoneAhead, TypeOK
  <2> QED
    BY <2>1, <2>3, <2>4, <2>5, <2>6, <2>7, <2>8 DEF NoneAhead
<1>2. CASE \E t \in Traces : Publish(t)
  <2> PICK t \in Traces : Publish(t)
    BY <1>2
  <2>1. /\ row' = row /\ shown' = shown /\ due' \subseteq due /\ wire' = wire
        /\ requests' = requests /\ (chan' = chan \/ chan' = Append(chan, Event(t)))
    BY DEF Publish
  <2>2. CASE chan' = chan
    BY <2>1, <2>2, AheadFrame
  <2>3. CASE chan' = Append(chan, Event(t))
    <3>1. Event(t) \in Events /\ Event(t).trace = t /\ Event(t).version = row[t]
      BY DEF Publish, TypeOK, NoneAhead, Event, Events
    <3>2. \A i \in 1..Len(chan') : chan'[i] = Event(t) \/ \E j \in 1..Len(chan) : chan'[i] = chan[j]
      <4>1. chan \in Seq(Events)
        BY DEF TypeOK
      <4>2. \A i \in 1..Len(Append(chan, Event(t))) :
              \/ Append(chan, Event(t))[i] = Event(t)
              \/ \E j \in 1..Len(chan) : Append(chan, Event(t))[i] = chan[j]
        BY <3>1, <4>1, AppendHolds
      <4> QED
        BY <2>3, <4>2, Zenon
    <3>3. row[t] <= row[t]
      BY Numbers
    <3>4. \A i \in 1..Len(chan') : chan'[i].version <= row'[chan'[i].trace]
      BY <2>1, <3>1, <3>2, <3>3 DEF NoneAhead
    <3> QED
      BY <2>1, <3>4 DEF NoneAhead
  <2> QED
    BY <2>1, <2>2, <2>3
<1>3. CASE \E t \in Traces : EventLost(t)
  BY <1>3, AheadFrame DEF EventLost
<1>4. CASE Upgrade
  BY <1>4, AheadFrame DEF Upgrade
<1>5. CASE Register
  BY <1>5, AheadFrame DEF Register
<1>6. CASE Pump
  <2>1. /\ chan \in Seq(Events) /\ chan # <<>> /\ wire \in Seq(Events)
        /\ wire' = Append(wire, Head(chan)) /\ chan' = Tail(chan)
        /\ row' = row /\ due' = due /\ shown' = shown /\ requests' = requests
    BY <1>6 DEF Pump, TypeOK
  <2>2. Head(chan) \in Events /\ Head(chan) = chan[1] /\ 1 \in 1..Len(chan)
    BY <2>1, TailEvents
  <2>3. \A i \in 1..Len(chan') : chan'[i].version <= row'[chan'[i].trace]
    <3>1. \A i \in 1..Len(chan') : \E j \in 1..Len(chan) : chan'[i] = chan[j]
      BY <2>1, TailHolds
    <3> QED
      BY <2>1, <3>1 DEF NoneAhead
  <2>4. \A i \in 1..Len(wire') : wire'[i].version <= row'[wire'[i].trace]
    <3>1. \A i \in 1..Len(wire') : wire'[i] = chan[1] \/ \E j \in 1..Len(wire) : wire'[i] = wire[j]
      <4>1. \A i \in 1..Len(Append(wire, Head(chan))) :
              \/ Append(wire, Head(chan))[i] = Head(chan)
              \/ \E j \in 1..Len(wire) : Append(wire, Head(chan))[i] = wire[j]
        BY <2>1, <2>2, AppendHolds
      <4>2. wire' = Append(wire, Head(chan)) /\ Head(chan) = chan[1]
        BY <2>1, <2>2
      <4> QED
        BY <4>1, <4>2, Zenon
    <3> QED
      BY <2>1, <2>2, <3>1 DEF NoneAhead
  <2> QED
    BY <2>1, <2>3, <2>4 DEF NoneAhead
<1>7. CASE Break
  BY <1>7, AheadFrame DEF Break
<1>8. CASE Connect
  BY <1>8, AheadFrame DEF Connect
<1>9. CASE Disconnect
  BY <1>9, AheadFrame DEF Disconnect
<1>10. CASE OnOpen
  <2>1. row' = row /\ due' = due /\ shown' = shown /\ chan' = chan /\ wire' = wire
    BY <1>10 DEF OnOpen
  <2>2. \A r \in requests', u \in Traces : r.rows[u] <= row'[u]
    BY <1>10, <2>1, AskAhead DEF OnOpen, NoneAhead
  <2> QED
    BY <2>1, <2>2 DEF NoneAhead
<1>11. CASE OnClose
  BY <1>11, AheadFrame DEF OnClose
<1>12. CASE OnMessage
  <2>1. row' = row /\ due' = due /\ chan' = chan
    BY <1>12, HeardFacts
  <2>2. \A r \in requests', u \in Traces : r.rows[u] <= row'[u]
    BY <1>12, <2>1, HeardFacts, AskAhead DEF NoneAhead
  <2>3. \A i \in 1..Len(wire') : wire'[i].version <= row'[wire'[i].trace]
    BY <1>12, <2>1, HeardFacts DEF NoneAhead
  <2>4. \A u \in Traces : shown'[u] <= row'[u]
    <3>1. Head(wire).version <= row[Head(wire).trace]
      BY <1>12, HeardFacts DEF NoneAhead
    <3> QED
      BY <1>12, <2>1, <3>1, HeardFacts DEF NoneAhead, TypeOK
  <2> QED
    BY <2>1, <2>2, <2>3, <2>4 DEF NoneAhead
<1>13. CASE \E r \in requests : Read(r)
  <2> PICK r \in requests : Read(r)
    BY <1>13
  <2>1. /\ row' = row /\ due' = due /\ shown' = shown /\ chan' = chan /\ wire' = wire
        /\ requests' = (requests \ {r}) \cup {[r EXCEPT !.stage = "read", !.rows = row]}
    BY DEF Read
  <2>2. [r EXCEPT !.stage = "read", !.rows = row].rows = row
    BY DEF TypeOK
  <2>3. \A u \in Traces : row[u] <= row'[u]
    BY <2>1, Numbers
  <2>4. \A q \in requests' : q \in requests \/ q.rows = row
    BY <2>1, <2>2
  <2>5. \A q \in requests, u \in Traces : q.rows[u] <= row'[u]
    BY <2>1 DEF NoneAhead
  <2>6. \A q \in requests', u \in Traces : q.rows[u] <= row'[u]
    BY <2>3, <2>4, <2>5
  <2> QED
    BY <2>1, <2>6 DEF NoneAhead
<1>14. CASE \E r \in requests : LoadArrives(r)
  <2> PICK r \in requests : LoadArrives(r)
    BY <1>14
  <2>1. /\ row' = row /\ due' = due /\ chan' = chan /\ wire' = wire
        /\ requests' \subseteq requests
    BY DEF LoadArrives
  <2>2. \A u \in Traces : shown'[u] <= row'[u]
    BY <2>1 DEF LoadArrives, NoneAhead, TypeOK
  <2> QED
    BY <2>1, <2>2 DEF NoneAhead
<1>15. CASE \E r \in requests : LoadFails(r)
  BY <1>15, AheadFrame DEF LoadFails
<1>16. CASE Reload
  <2>1. row' = row /\ due' = due /\ shown' = shown /\ chan' = chan /\ wire' = wire
    BY <1>16 DEF Reload
  <2>2. \A r \in requests', u \in Traces : r.rows[u] <= row'[u]
    BY <1>16, <2>1, AskAhead DEF Reload
  <2> QED
    BY <2>1, <2>2 DEF NoneAhead
<1>17. CASE UNCHANGED vars
  BY <1>17, AheadFrame DEF vars
<1> QED
  BY <1>1, <1>2, <1>3, <1>4, <1>5, <1>6, <1>7, <1>8, <1>9, <1>10, <1>11, <1>12,
     <1>13, <1>14, <1>15, <1>16, <1>17 DEF Next

-----------------------------------------------------------------------------
(* The connection, and the page that shows its trace closed.               *)

\* A connected detail page goes on showing its trace: no event and no response
\* it accepts is without a row.
LEMMA ShownStays ==
    ASSUME TypeOK, LinkInv, [Next]_vars, page = "detail", sock # "none"
    PROVE  shown'[Watched] > 0
<1> USE DEF hubVars, loadVars
<1>1. shown[Watched] > 0 /\ Watched \in Traces /\ shown \in [Traces -> 0..Final]
  BY DEF LinkInv, TypeOK
<1>2. CASE OnMessage
  <2>1. shown' = shown \/ shown' = [shown EXCEPT ![Head(wire).trace] = Head(wire).version]
    BY <1>2, HeardFacts
  <2>2. Head(wire).trace \in Traces /\ Head(wire).version \in 1..Final
    BY <1>2, HeardFacts DEF Events
  <2> QED
    BY <1>1, <2>1, <2>2
<1>3. CASE \E r \in requests : LoadArrives(r)
  <2> PICK r \in requests : LoadArrives(r)
    BY <1>3
  <2>1. r.rows[Watched] # 0 /\ r.rows[Watched] \in 0..Final
    BY Numbers DEF LoadArrives, NotFound
  <2>2. shown' = [shown EXCEPT ![Watched] = r.rows[Watched]]
    BY DEF LoadArrives
  <2> QED
    BY <1>1, <2>1, <2>2
<1>4. CASE ~OnMessage /\ ~\E r \in requests : LoadArrives(r)
  <2>1. shown' = shown
    BY <1>4 DEF Next, vars, Write, Publish, EventLost, Upgrade, Register, Pump, Break,
         Connect, Disconnect, OnOpen, OnClose, Read, LoadFails, Reload
  <2> QED
    BY <1>1, <2>1
<1> QED
  BY <1>2, <1>3, <1>4

LEMMA PageStays == [Next]_vars => page' = page /\ Shows' = Shows
<1>1. [Next]_vars => page' = page
  BY DEF Next, vars, Write, Publish, EventLost, Upgrade, Register, Pump, Break, Connect,
     Disconnect, OnOpen, OnClose, OnMessage, Read, LoadArrives, LoadFails, Reload
<1> QED
  BY <1>1 DEF Shows

LEMMA LinkStep == TypeOK /\ LinkInv /\ [Next]_vars => LinkInv'
<1> SUFFICES ASSUME TypeOK, LinkInv, [Next]_vars PROVE LinkInv'
  OBVIOUS
<1> USE DEF hubVars, loadVars
<1>1. page' = page
  BY PageStays
<1>2. page' = "detail" /\ sock' # "none" => shown'[Watched] > 0
  <2>1. CASE Connect
    BY <1>1, <2>1 DEF Connect, Enabled, Running
  <2>2. CASE ~Connect
    <3>1. sock' # "none" => sock # "none"
      BY <2>2 DEF Next, vars, Write, Publish, EventLost, Upgrade, Register, Pump, Break,
         Disconnect, OnOpen, OnClose, OnMessage, Read, LoadArrives, LoadFails, Reload
    <3> QED
      BY <1>1, <3>1, ShownStays
  <2> QED
    BY <2>1, <2>2
<1>3. /\ sock' = "none" => server' = "none" /\ ~hadDrop' /\ chan' = <<>> /\ wire' = <<>>
      /\ sock' = "waiting" => hadDrop'
      /\ sock' = "open" => ~hadDrop'
  <2>1. CASE Upgrade \/ Register \/ Pump \/ Break
    BY <2>1 DEF Upgrade, Register, Pump, Break, LinkInv
  <2>2. CASE Connect \/ Disconnect \/ OnOpen \/ OnClose \/ OnMessage
    BY <2>2 DEF Connect, Disconnect, OnOpen, OnClose, OnMessage, LinkInv
  <2>3. CASE \E t \in Traces : Write(t) \/ Publish(t) \/ EventLost(t)
    BY <2>3 DEF Write, Publish, EventLost, LinkInv
  <2>4. CASE (\E r \in requests : Read(r) \/ LoadArrives(r) \/ LoadFails(r)) \/ Reload
    <3>1. UNCHANGED <<sock, hadDrop, server, chan, wire>>
      BY <2>4 DEF Read, LoadArrives, LoadFails, Reload
    <3> QED
      BY <3>1 DEF LinkInv
  <2>5. CASE UNCHANGED vars
    BY <2>5 DEF vars, LinkInv
  <2> QED
    BY <2>1, <2>2, <2>3, <2>4, <2>5 DEF Next
<1> QED
  BY <1>2, <1>3 DEF LinkInv

LEMMA FetchedStep == TypeOK /\ NoneAhead /\ ClosedIsFetched /\ [Next]_vars => ClosedIsFetched'
<1> SUFFICES ASSUME TypeOK, NoneAhead, ClosedIsFetched, [Next]_vars,
                    page' = "detail", shown'[Watched] = Final, Watched \notin overtaken'
             PROVE  loaded' = Final \/ down' \/ requests' # {}
  BY DEF ClosedIsFetched
<1> USE DEF hubVars, loadVars
<1>1. page = "detail" /\ Watched \in Traces
  BY PageStays
<1>2. CASE \E t \in Traces : Write(t)
  <2> PICK t \in Traces : Write(t)
    BY <1>2
  <2>1. shown[Watched] = Final /\ row[Watched] = Final
    <3>1. shown[Watched] <= row[Watched] /\ row[Watched] \in 0..Final
      BY Numbers DEF NoneAhead
    <3> QED
      BY <3>1 DEF Write
  <2>2. t # Watched
    BY <2>1 DEF Write
  <2> QED
    BY <1>1, <2>1, <2>2 DEF Write, ClosedIsFetched
<1>3. CASE OnOpen \/ Reload
  <2>1. requests \subseteq requests' /\ down' = down /\ loaded' = loaded
        /\ shown' = shown /\ overtaken' = overtaken
    BY <1>3, AskFacts DEF OnOpen, Reload
  <2> QED
    BY <1>1, <2>1 DEF ClosedIsFetched
<1>4. CASE OnMessage
  <2>1. CASE Ask
    BY <2>1, AskFacts
  <2>2. CASE ~Ask
    <3>1. UNCHANGED loadVars /\ loaded' = loaded /\ overtaken \subseteq overtaken'
      BY <1>4, <2>2, HeardFacts
    <3>2. ~(Head(wire).trace = Watched /\ Head(wire).version = Final)
      BY <1>1, <1>4, <2>2 DEF OnMessage, Hears, ReloadsOn
    <3>3. shown[Watched] = Final
      BY <1>4, <3>2, HeardFacts DEF TypeOK
    <3> QED
      BY <1>1, <3>1, <3>3 DEF ClosedIsFetched
  <2> QED
    BY <2>1, <2>2
<1>5. CASE \E r \in requests : Read(r)
  BY <1>5 DEF Read
<1>6. CASE \E r \in requests : LoadArrives(r)
  BY <1>1, <1>6 DEF LoadArrives, TypeOK
<1>7. CASE \E r \in requests : LoadFails(r)
  BY <1>7 DEF LoadFails
<1>8. CASE \/ \E t \in Traces : Publish(t) \/ EventLost(t)
           \/ Upgrade \/ Register \/ Pump \/ Break \/ Connect \/ Disconnect \/ OnClose
           \/ UNCHANGED vars
  <2>1. UNCHANGED <<shown, overtaken, loaded, down, requests>>
    BY <1>8 DEF Publish, EventLost, Upgrade, Register, Pump, Break, Connect, Disconnect,
       OnClose, vars
  <2> QED
    BY <1>1, <2>1 DEF ClosedIsFetched
<1> QED
  BY <1>2, <1>3, <1>4, <1>5, <1>6, <1>7, <1>8 DEF Next

-----------------------------------------------------------------------------
(* The last version of every row is accounted for.                         *)

\* One more load, whatever is under way: it reads after all that has been read.
LEMMA AskComes ==
    ASSUME TypeOK, Ask, NEW t \in Traces, row' = row
    PROVE  Coming(t)'
<1> PICK f : f = Load(asked + 1)
  OBVIOUS
<1>1. f \in requests' /\ f.id = asked + 1 /\ f.stage = "asked"
  BY AskFacts
<1>2. \A r \in requests : r.id < asked + 1
  BY AskFacts
<1>3. \A r \in requests' : r \in requests \/ r = f
  BY AskFacts
<1>4. ~Stale(f, t)'
  BY <1>1 DEF Stale
<1>5. \A r \in requests' : Stale(r, t)' => r.id < f.id
  BY <1>1, <1>2, <1>3, <1>4
<1> QED
  BY <1>1, <1>4, <1>5 DEF Coming

\* A response that does not show the last version takes neither the load that
\* will nor the retries away without the page hiding the row.
LEMMA ArrivesComes ==
    ASSUME TypeOK, NoneAhead, NEW t \in Shows, Coming(t),
           NEW q \in requests, LoadArrives(q)
    PROVE  shown'[t] = row'[t] \/ t \in overtaken' \/ Coming(t)'
<1>1. t \in Traces /\ (page = "home" \/ t = Watched)
  BY DEF Shows
<1>2. /\ row' = row /\ requests' = requests \ {q} /\ q.stage = "read"
      /\ overtaken' = overtaken \cup Hidden(q)
  BY DEF LoadArrives
<1>3. CASE q.rows[t] = row[t]
  BY <1>1, <1>2, <1>3 DEF LoadArrives, TypeOK
<1>4. CASE q.rows[t] # row[t]
  <2>1. Stale(q, t)
    BY <1>2, <1>4 DEF Stale
  <2>2. q.rows[t] < row[t]
    BY <1>1, <1>4, Numbers DEF NoneAhead
  <2>3. CASE \A r \in requests : Stale(r, t) => r.id < answered
    BY <1>1, <1>2, <2>1, <2>2, <2>3 DEF Hidden
  <2>4. CASE \E f \in requests : /\ ~Stale(f, t)
                                 /\ \A r \in requests : Stale(r, t) => r.id < f.id
    <3> PICK f \in requests : ~Stale(f, t) /\ \A r \in requests : Stale(r, t) => r.id < f.id
      BY <2>4
    <3>1. f \in requests'
      BY <1>2, <2>1
    <3>2. \A r \in requests' : Stale(r, t)' <=> Stale(r, t)
      BY <1>2 DEF Stale
    <3> QED
      BY <1>2, <3>1, <3>2 DEF Coming
  <2> QED
    BY <2>3, <2>4 DEF Coming
<1> QED
  BY <1>3, <1>4

\* A load that fails leaves the retries, and what is stale behind it.
LEMMA FailsComes ==
    ASSUME TypeOK, NEW t \in Traces, Coming(t), NEW q \in requests, LoadFails(q)
    PROVE  Coming(t)'
<1>1. /\ row' = row /\ requests' = requests \ {q} /\ down' = TRUE
      /\ answered' = MaxOf(answered, q.id)
  BY DEF LoadFails
<1>2. /\ answered \in Nat /\ answered' \in Nat /\ answered <= answered' /\ q.id <= answered'
      /\ \A r \in requests : r.id \in Nat
  BY <1>1, Numbers, SMTT(20) DEF MaxOf, TypeOK
<1>3. \A r \in requests' : r \in requests /\ (Stale(r, t)' <=> Stale(r, t))
  BY <1>1 DEF Stale
<1>4. CASE \A r \in requests : Stale(r, t) => r.id < answered
  <2>1. \A r \in requests' : Stale(r, t)' => r.id < answered'
    BY <1>2, <1>3, <1>4
  <2> QED
    BY <1>1, <2>1 DEF Coming
<1>5. CASE \E f \in requests : ~Stale(f, t) /\ \A r \in requests : Stale(r, t) => r.id < f.id
  <2> PICK f \in requests : ~Stale(f, t) /\ \A r \in requests : Stale(r, t) => r.id < f.id
    BY <1>5
  <2>1. CASE f = q
    <3>1. \A r \in requests' : Stale(r, t)' => r.id < answered'
      BY <1>2, <1>3, <2>1
    <3> QED
      BY <1>1, <3>1 DEF Coming
  <2>2. CASE f # q
    <3>1. f \in requests' /\ ~Stale(f, t)'
      BY <1>1, <1>3, <2>2
    <3> QED
      BY <1>3, <3>1 DEF Coming
  <2> QED
    BY <2>1, <2>2
<1> QED
  BY <1>4, <1>5 DEF Coming

\* Reading the store makes no load stale, and keeps its place in the order.
LEMMA ReadComes ==
    ASSUME TypeOK, NEW t \in Traces, Coming(t), NEW q \in requests, Read(q)
    PROVE  Coming(t)'
<1> PICK q2 : q2 = [q EXCEPT !.stage = "read", !.rows = row]
  OBVIOUS
<1>1. /\ row' = row /\ down' = down /\ answered' = answered
      /\ requests' = (requests \ {q}) \cup {q2} /\ q.stage = "asked"
  BY DEF Read
<1>2. q2.id = q.id /\ q2.rows = row /\ q2.stage = "read"
  BY DEF TypeOK
<1>3. ~Stale(q2, t)' /\ ~Stale(q, t)
  BY <1>1, <1>2 DEF Stale
<1>4. \A r \in requests' : r = q2 \/ (r \in requests /\ (Stale(r, t)' <=> Stale(r, t)))
  BY <1>1 DEF Stale
<1>5. CASE down /\ \A r \in requests : Stale(r, t) => r.id < answered
  BY <1>1, <1>3, <1>4, <1>5 DEF Coming
<1>6. CASE \E f \in requests : ~Stale(f, t) /\ \A r \in requests : Stale(r, t) => r.id < f.id
  <2> PICK f \in requests : ~Stale(f, t) /\ \A r \in requests : Stale(r, t) => r.id < f.id
    BY <1>6
  <2>1. \E g \in requests' : ~Stale(g, t)' /\ g.id = f.id
    <3>1. CASE f = q
      BY <1>1, <1>2, <1>3, <3>1
    <3>2. CASE f # q
      <4>1. f \in requests' /\ ~Stale(f, t)'
        BY <1>1, <3>2 DEF Stale
      <4> QED
        BY <4>1
    <3> QED
      BY <3>1, <3>2
  <2>2. \A r \in requests' : Stale(r, t)' => r.id < f.id
    BY <1>3, <1>4
  <2> QED
    BY <2>1, <2>2 DEF Coming
<1> QED
  BY <1>5, <1>6 DEF Coming

\* A step that leaves the loads and the row alone.
LEMMA ComingStays ==
    ASSUME NEW t \in Traces, Coming(t), row'[t] = row[t], UNCHANGED loadVars
    PROVE  Coming(t)'
BY DEF Coming, Stale, loadVars

\* When an event is not sent although the page is going to read the store.
LEMMA OwedComes ==
    ASSUME NEW t \in Traces, Owed
    PROVE  CatchesUp \/ Coming(t)
<1>1. (\A r \in requests : r.stage = "asked") => \A r \in requests : ~Stale(r, t)
  BY DEF Stale
<1> QED
  BY <1>1 DEF Owed, CatchesUp, Coming

LEMMA AccountedFrame ==
    ASSUME NEW t \in Traces, Accounted(t), row'[t] = row[t], shown'[t] = shown[t],
           t \in due \cup missed \cup overtaken => t \in due' \cup missed' \cup overtaken',
           Carried(t) => Carried(t)' \/ CatchesUp',
           CatchesUp => CatchesUp', UNCHANGED loadVars
    PROVE  Accounted(t)'
BY ComingStays DEF Accounted

LEMMA CarriedStays ==
    ASSUME NEW t \in Traces, Carried(t), row'[t] = row[t], chan' = chan, wire' = wire
    PROVE  Carried(t)'
BY DEF Carried, Event

\* The step of each action, for one row the page is about.
LEMMA WriteAccounted ==
    ASSUME TypeOK, NEW t \in Traces, Accounted(t), NEW u \in Traces, Write(u)
    PROVE  Accounted(t)'
<1>1. CASE u = t
  BY <1>1 DEF Write, Accounted
<1>2. CASE u # t
  <2>1. /\ row'[t] = row[t] /\ shown' = shown /\ chan' = chan /\ wire' = wire
        /\ UNCHANGED loadVars /\ (CatchesUp => CatchesUp')
    BY <1>2 DEF Write, TypeOK, hubVars, CatchesUp
  <2>2. t \in due \cup missed \cup overtaken => t \in due' \cup missed' \cup overtaken'
    BY <1>2 DEF Write
  <2> QED
    BY <2>1, <2>2, AccountedFrame, CarriedStays
<1> QED
  BY <1>1, <1>2

LEMMA PublishAccounted ==
    ASSUME TypeOK, NoneAhead, NEW t \in Traces, Accounted(t), NEW u \in Traces, Publish(u)
    PROVE  Accounted(t)'
<1>1. /\ row' = row /\ shown' = shown /\ wire' = wire /\ server' = server
      /\ hadDrop' = hadDrop /\ UNCHANGED loadVars /\ due' = due \ {u}
      /\ overtaken' = overtaken /\ missed \subseteq missed'
  BY DEF Publish
<1>2. CatchesUp => CatchesUp'
  BY <1>1 DEF CatchesUp
<1>3. CASE server = "registered" /\ Room
  <2>1. chan' = Append(chan, Event(u)) /\ chan \in Seq(Events)
    BY <1>3 DEF Publish, TypeOK
  <2>2. Event(u) \in Events
    BY DEF Publish, TypeOK, NoneAhead, Event, Events
  <2>3. /\ \A j \in 1..Len(chan) : \E i \in 1..Len(Append(chan, Event(u))) :
                                      Append(chan, Event(u))[i] = chan[j]
        /\ \E i \in 1..Len(Append(chan, Event(u))) : Append(chan, Event(u))[i] = Event(u)
    BY <2>1, <2>2, AppendHolds
  <2>4. /\ \A j \in 1..Len(chan) : \E i \in 1..Len(chan') : chan'[i] = chan[j]
        /\ \E i \in 1..Len(chan') : chan'[i] = Event(u)
    BY <2>1, <2>3, Zenon
  <2>5. Event(t)' = Event(t)
    BY <1>1 DEF Event
  <2>6. Carried(t) => Carried(t)'
    BY <1>1, <2>4, <2>5 DEF Carried
  <2>7. CASE u = t
    BY <2>4, <2>5, <2>7 DEF Accounted, Carried
  <2>8. CASE u # t
    BY <1>1, <1>2, <2>6, <2>8, AccountedFrame
  <2> QED
    BY <2>7, <2>8
<1>4. CASE ~(server = "registered" /\ Room)
  <2>1. chan' = chan /\ missed' = IF Owed THEN missed ELSE missed \cup {u}
    BY <1>4 DEF Publish
  <2>2. CASE u = t /\ Owed
    <3>1. CatchesUp' \/ Coming(t)'
      BY <1>1, <1>2, <2>2, OwedComes, ComingStays
    <3> QED
      BY <3>1 DEF Accounted
  <2>3. CASE u # t \/ ~Owed
    <3>1. t \in due \cup missed \cup overtaken => t \in due' \cup missed' \cup overtaken'
      BY <1>1, <2>1, <2>3
    <3> QED
      BY <1>1, <1>2, <2>1, <3>1, AccountedFrame, CarriedStays
  <2> QED
    BY <2>2, <2>3
<1> QED
  BY <1>3, <1>4

LEMMA LostAccounted ==
    ASSUME NEW t \in Traces, Accounted(t), NEW u \in Traces, EventLost(u)
    PROVE  Accounted(t)'
<1>1. /\ row' = row /\ shown' = shown /\ wire' = wire /\ chan' = chan /\ server' = server
      /\ hadDrop' = hadDrop /\ UNCHANGED loadVars /\ due' = due \ {u}
      /\ overtaken' = overtaken /\ missed' = IF Owed THEN missed ELSE missed \cup {u}
  BY DEF EventLost, hubVars
<1>2. CatchesUp => CatchesUp'
  BY <1>1 DEF CatchesUp
<1>3. CASE u = t /\ Owed
  <2>1. CatchesUp' \/ Coming(t)'
    BY <1>1, <1>2, <1>3, OwedComes, ComingStays
  <2> QED
    BY <2>1 DEF Accounted
<1>4. CASE u # t \/ ~Owed
  <2>1. t \in due \cup missed \cup overtaken => t \in due' \cup missed' \cup overtaken'
    BY <1>1, <1>4
  <2> QED
    BY <1>1, <1>2, <2>1, AccountedFrame, CarriedStays
<1> QED
  BY <1>3, <1>4

LEMMA PumpAccounted ==
    ASSUME TypeOK, NEW t \in Traces, Accounted(t), Pump
    PROVE  Accounted(t)'
<1>1. /\ chan \in Seq(Events) /\ chan # <<>> /\ wire \in Seq(Events)
      /\ wire' = Append(wire, Head(chan)) /\ chan' = Tail(chan)
      /\ UNCHANGED <<row, due, hadDrop, server, shown, missed, overtaken>>
      /\ UNCHANGED loadVars
  BY DEF Pump, TypeOK
<1>2. Head(chan) \in Events
  BY <1>1, TailEvents
<1>3. \A j \in 1..Len(chan) :
        chan[j] = Head(chan) \/ \E i \in 1..Len(chan') : chan'[i] = chan[j]
  BY <1>1, TailHolds
<1>4. /\ \A j \in 1..Len(wire) : \E i \in 1..Len(Append(wire, Head(chan))) :
                                    Append(wire, Head(chan))[i] = wire[j]
      /\ \E i \in 1..Len(Append(wire, Head(chan))) : Append(wire, Head(chan))[i] = Head(chan)
  BY <1>1, <1>2, AppendHolds
<1>5. /\ \A j \in 1..Len(wire) : \E i \in 1..Len(wire') : wire'[i] = wire[j]
      /\ \E i \in 1..Len(wire') : wire'[i] = Head(chan)
  BY <1>1, <1>4, Zenon
<1>6. Event(t)' = Event(t)
  BY <1>1 DEF Event
<1>7. Carried(t) => Carried(t)'
  BY <1>3, <1>5, <1>6 DEF Carried
<1> QED
  BY <1>1, <1>7, AccountedFrame DEF CatchesUp

\* Only events can be lost with a connection, and then the page catches up.
LEMMA LinkAccounted ==
    ASSUME TypeOK, LinkInv, NEW t \in Traces, Accounted(t),
           Upgrade \/ Register \/ Break \/ Connect \/ OnClose
    PROVE  Accounted(t)'
<1>1. UNCHANGED <<row, due, shown, missed, overtaken>> /\ UNCHANGED loadVars
  BY DEF Upgrade, Register, Break, Connect, OnClose
<1>2. CASE Upgrade \/ Register
  <2>1. /\ chan' = chan /\ wire' = wire /\ hadDrop' = hadDrop
        /\ (server' = "gone" <=> server = "gone")
    BY <1>2 DEF Upgrade, Register
  <2> QED
    BY <1>1, <2>1, AccountedFrame, CarriedStays DEF CatchesUp
<1>3. CASE Break \/ OnClose
  <2>1. CatchesUp'
    BY <1>3 DEF Break, OnClose, CatchesUp
  <2> QED
    BY <2>1 DEF Accounted
<1>4. CASE Connect
  <2>1. CASE sock = "waiting"
    <3>1. CatchesUp'
      BY <1>4, <2>1 DEF Connect, CatchesUp, LinkInv
    <3> QED
      BY <3>1 DEF Accounted
  <2>2. CASE sock = "none"
    <3>1. ~CatchesUp /\ chan = <<>> /\ wire = <<>>
      BY <2>2 DEF LinkInv, CatchesUp
    <3>2. ~Carried(t)
      <4>1. Len(<<>>) = 0
        BY EmptySeq
      <4> QED
        BY <3>1, <4>1 DEF Carried
    <3> QED
      BY <1>1, <3>1, <3>2, AccountedFrame
  <2> QED
    BY <1>4, <2>1, <2>2 DEF Connect
<1> QED
  BY <1>2, <1>3, <1>4

\* A detail page lets go of its connection only when it shows the trace closed,
\* and then the row is what it shows.
LEMMA DisconnectAccounted ==
    ASSUME TypeOK, NoneAhead, LinkInv, NEW t \in Shows, Disconnect
    PROVE  Accounted(t)'
<1>1. page = "detail" /\ t = Watched /\ t \in Traces /\ shown[Watched] \notin 1..(Final - 1)
  BY DEF Disconnect, Enabled, Running, Shows, TypeOK
<1>2. shown[t] > 0 /\ shown[t] <= row[t] /\ row[t] \in 0..Final /\ shown[t] \in 0..Final
  BY <1>1, Numbers DEF Disconnect, LinkInv, NoneAhead
<1>3. shown[t] = row[t]
  BY <1>1, <1>2
<1>4. shown' = shown /\ row' = row
  BY DEF Disconnect
<1> QED
  BY <1>3, <1>4 DEF Accounted

LEMMA OpenAccounted ==
    ASSUME TypeOK, NEW t \in Traces, Accounted(t), OnOpen
    PROVE  Accounted(t)'
<1>1. /\ UNCHANGED <<row, due, shown, missed, overtaken>> /\ chan' = chan /\ wire' = wire
      /\ server' = server
  BY DEF OnOpen, hubVars
<1>2. CASE hadDrop
  <2>1. Coming(t)'
    BY <1>1, <1>2, AskComes DEF OnOpen, CatchUpDue
  <2> QED
    BY <2>1 DEF Accounted
<1>3. CASE ~hadDrop
  <2>1. UNCHANGED loadVars
    BY <1>3 DEF OnOpen, CatchUpDue
  <2>2. CatchesUp => CatchesUp'
    BY <1>1, <1>3 DEF CatchesUp
  <2> QED
    BY <1>1, <2>1, <2>2, AccountedFrame, CarriedStays
<1> QED
  BY <1>2, <1>3

LEMMA MessageAccounted ==
    ASSUME TypeOK, NoneAhead, LinkInv, NEW t \in Shows, Accounted(t), OnMessage
    PROVE  Accounted(t)'
<1>1. t \in Traces /\ (page = "home" \/ t = Watched)
  BY DEF Shows
<1>2. /\ UNCHANGED <<row, due, hadDrop, server, missed>> /\ chan' = chan
      /\ overtaken \subseteq overtaken'
  BY HeardFacts
<1>3. Head(wire) \in Events /\ Head(wire) = wire[1] /\ 1 \in 1..Len(wire)
  BY HeardFacts
<1>4. Head(wire).version <= row[Head(wire).trace] /\ Head(wire).version \in 1..Final
  BY <1>3 DEF NoneAhead, Events
<1>5. CASE shown[t] = row[t]
  <2>1. CASE Head(wire).trace = t /\ Head(wire).version # row[t]
    <3>1. Hides(t, Head(wire).version)
      BY <1>1, <1>4, <1>5, <2>1, Numbers DEF Hides
    <3>2. t \in overtaken'
      BY <2>1, <3>1 DEF OnMessage
    <3> QED
      BY <3>2 DEF Accounted
  <2>2. CASE ~(Head(wire).trace = t /\ Head(wire).version # row[t])
    <3>1. shown'[t] = row[t]
      BY <1>1, <1>3, <1>5, <2>2, HeardFacts DEF TypeOK, Events
    <3> QED
      BY <1>2, <3>1 DEF Accounted
  <2> QED
    BY <2>1, <2>2
<1>6. CASE t \in due \cup missed \cup overtaken
  BY <1>2, <1>6 DEF Accounted
<1>7. CASE Carried(t)
  <2>1. Event(t)' = Event(t)
    BY <1>2 DEF Event
  <2>2. CASE Event(t) = Head(wire)
    <3>1. Head(wire).trace = t /\ Head(wire).version = row[t]
      BY <2>2 DEF Event
    <3>2. page = "home" \/ (Hears(Head(wire)) /\ shown[Watched] # 0)
      <4>1. CASE page = "home"
        BY <4>1
      <4>2. CASE page = "detail"
        <5>1. shown[Watched] > 0
          BY <4>2 DEF OnMessage, LinkInv
        <5> QED
          BY <1>1, <3>1, <4>2, <5>1 DEF Hears
      <4> QED
        BY <4>1, <4>2 DEF TypeOK
    <3>3. shown' = [shown EXCEPT ![Head(wire).trace] = Head(wire).version]
      BY <3>2 DEF OnMessage
    <3>4. shown'[t] = row'[t]
      BY <1>1, <1>2, <3>1, <3>3 DEF TypeOK
    <3> QED
      BY <3>4 DEF Accounted
  <2>3. CASE Event(t) # Head(wire)
    <3>1. \A j \in 1..Len(wire) :
            wire[j] = Head(wire) \/ \E i \in 1..Len(wire') : wire'[i] = wire[j]
      BY HeardFacts
    <3>2. Carried(t)'
      BY <1>2, <1>7, <2>1, <2>3, <3>1 DEF Carried
    <3> QED
      BY <3>2 DEF Accounted
  <2> QED
    BY <2>2, <2>3
<1>8. CASE Coming(t)
  <2>1. CASE Ask
    BY <1>1, <1>2, <2>1, AskComes DEF Accounted
  <2>2. CASE ~Ask
    BY <1>1, <1>2, <1>8, <2>2, HeardFacts, ComingStays DEF Accounted
  <2> QED
    BY <2>1, <2>2
<1>9. CASE CatchesUp
  BY <1>2, <1>9 DEF Accounted, CatchesUp
<1> QED
  BY <1>5, <1>6, <1>7, <1>8, <1>9 DEF Accounted

LEMMA ArrivesAccounted ==
    ASSUME TypeOK, NoneAhead, NEW t \in Shows, Accounted(t),
           NEW q \in requests, LoadArrives(q)
    PROVE  Accounted(t)'
<1>1. t \in Traces /\ (page = "home" \/ t = Watched)
  BY DEF Shows
<1>2. /\ UNCHANGED <<row, due, hadDrop, missed>> /\ UNCHANGED hubVars
      /\ overtaken' = overtaken \cup Hidden(q)
  BY DEF LoadArrives
<1>3. shown'[t] = q.rows[t]
  BY <1>1 DEF LoadArrives, TypeOK
<1>4. CASE shown[t] = row[t]
  <2>1. CASE q.rows[t] = row[t]
    BY <1>2, <1>3, <2>1 DEF Accounted
  <2>2. CASE q.rows[t] # row[t]
    <3>1. q.rows[t] < row[t]
      BY <1>1, <2>2, Numbers DEF NoneAhead
    <3>2. t \in Hidden(q)
      BY <1>1, <1>4, <3>1 DEF Hidden, Hides
    <3> QED
      BY <1>2, <3>2 DEF Accounted
  <2> QED
    BY <2>1, <2>2
<1>5. CASE t \in due \cup missed \cup overtaken
  BY <1>2, <1>5 DEF Accounted
<1>6. CASE Carried(t)
  <2>1. row'[t] = row[t] /\ chan' = chan /\ wire' = wire
    BY <1>2 DEF hubVars
  <2>2. Carried(t)'
    BY <1>1, <1>6, <2>1, CarriedStays
  <2> QED
    BY <2>2 DEF Accounted
<1>7. CASE Coming(t)
  <2>1. shown'[t] = row'[t] \/ t \in overtaken' \/ Coming(t)'
    BY <1>7, ArrivesComes
  <2> QED
    BY <2>1 DEF Accounted
<1>8. CASE CatchesUp
  BY <1>2, <1>8 DEF Accounted, CatchesUp, hubVars
<1> QED
  BY <1>4, <1>5, <1>6, <1>7, <1>8 DEF Accounted

\* The other steps of the loads leave the page and the queues alone.
LEMMA LoadAccounted ==
    ASSUME TypeOK, NEW t \in Traces, Accounted(t),
           (\E q \in requests : Read(q) \/ LoadFails(q)) \/ Reload
    PROVE  Accounted(t)'
<1>1. /\ UNCHANGED <<row, due, hadDrop, shown, missed, overtaken>> /\ UNCHANGED hubVars
  BY DEF Read, LoadFails, Reload
<1>2. Carried(t) => Carried(t)'
  BY <1>1, CarriedStays DEF hubVars
<1>3. Coming(t) => Coming(t)'
  <2>1. CASE Reload
    BY <1>1, <2>1, AskComes DEF Reload
  <2>2. CASE \E q \in requests : Read(q)
    BY <2>2, ReadComes
  <2>3. CASE \E q \in requests : LoadFails(q)
    BY <2>3, FailsComes
  <2> QED
    BY <2>1, <2>2, <2>3
<1> QED
  BY <1>1, <1>2, <1>3 DEF Accounted, CatchesUp, hubVars

LEMMA AccountedStep ==
    ASSUME TypeOK, NoneAhead, LinkInv, [Next]_vars, NEW t \in Shows, Accounted(t)
    PROVE  Accounted(t)'
<1>1. t \in Traces
  BY DEF Shows
<1>2. CASE \E u \in Traces : Write(u) \/ Publish(u) \/ EventLost(u)
  BY <1>1, <1>2, WriteAccounted, PublishAccounted, LostAccounted
<1>3. CASE Upgrade \/ Register \/ Break \/ Connect \/ OnClose
  BY <1>1, <1>3, LinkAccounted
<1>4. CASE Pump
  BY <1>1, <1>4, PumpAccounted
<1>5. CASE Disconnect
  BY <1>5, DisconnectAccounted
<1>6. CASE OnOpen
  BY <1>1, <1>6, OpenAccounted
<1>7. CASE OnMessage
  BY <1>7, MessageAccounted
<1>8. CASE \E q \in requests : LoadArrives(q)
  BY <1>8, ArrivesAccounted
<1>9. CASE (\E q \in requests : Read(q) \/ LoadFails(q)) \/ Reload
  BY <1>1, <1>9, LoadAccounted
<1>10. CASE UNCHANGED vars
  BY <1>1, <1>10, AccountedFrame, CarriedStays DEF vars, hubVars, CatchesUp
<1> QED
  BY <1>2, <1>3, <1>4, <1>5, <1>6, <1>7, <1>8, <1>9, <1>10 DEF Next

-----------------------------------------------------------------------------
(* The theorems.                                                           *)

LEMMA EdgeInit == Init => EdgeInv
<1> SUFFICES ASSUME Init PROVE EdgeInv
  OBVIOUS
<1>1. Len(<<>>) = 0
  BY EmptySeq
<1>2. \A t \in Traces : row[t] = 0 /\ shown[t] = 0
  BY DEF Init, NoRows
<1>3. \A r \in requests, t \in Traces : r.rows[t] = 0
  BY DEF Init, Load, NoRows
<1>4. NoneAhead
  <2>1. due = {} /\ chan = <<>> /\ wire = <<>>
    BY DEF Init
  <2> QED
    BY <1>1, <1>2, <1>3, <2>1 DEF NoneAhead
<1>5. LinkInv
  BY DEF Init, LinkInv
<1>6. ClosedIsFetched
  BY DEF Init, ClosedIsFetched
<1>7. \A t \in Shows : Accounted(t)
  BY <1>2 DEF Shows, Accounted
<1> QED
  BY <1>4, <1>5, <1>6, <1>7, TypeInit DEF EdgeInv

LEMMA EdgeStep == EdgeInv /\ [Next]_vars => EdgeInv'
<1> SUFFICES ASSUME EdgeInv, [Next]_vars PROVE EdgeInv'
  OBVIOUS
<1>1. TypeOK' /\ NoneAhead' /\ LinkInv' /\ ClosedIsFetched'
  BY TypeStep, AheadStep, LinkStep, FetchedStep DEF EdgeInv
<1>2. \A t \in Shows : Accounted(t)'
  BY AccountedStep DEF EdgeInv
<1>3. Shows' = Shows
  BY PageStays
<1> QED
  BY <1>1, <1>2, <1>3 DEF EdgeInv

\* At every moment the last version of every row the page is about is shown,
\* on its way by an event or a load, or named as missed or overtaken
\* (HomeClient.tsx, TraceDetailClient.tsx, live.ts and the hub of cmd/api).
THEOREM LastVersionAccounted == Spec => []EdgeInv
<1>1. Init => EdgeInv
  BY EdgeInit
<1>2. EdgeInv /\ [Next]_vars => EdgeInv'
  BY EdgeStep
<1> QED
  BY <1>1, <1>2, PTL DEF Spec

LEMMA RestAccounts == EdgeInv => StaleOnlyIfMissed
<1> SUFFICES ASSUME EdgeInv, Rest, NEW t \in Shows
             PROVE  shown[t] = row[t] \/ t \in missed \cup overtaken
  BY DEF StaleOnlyIfMissed
<1>1. Accounted(t) /\ due = {}
  BY DEF EdgeInv, Rest
<1>2. ~Carried(t)
  <2>1. Len(<<>>) = 0
    BY EmptySeq
  <2> QED
    BY <2>1 DEF Rest, Carried
<1>3. ~Coming(t)
  BY DEF Rest, Coming
<1>4. ~CatchesUp
  BY DEF Rest, CatchesUp, EdgeInv, LinkInv
<1> QED
  BY <1>1, <1>2, <1>3, <1>4 DEF Accounted

\* A page at rest shows the store, unless the hub did not send it the last event
\* of the row with no load to come, or something older hid it: whatever breaks,
\* fails or is answered late.
THEOREM RestingPageIsCurrent == Spec => []StaleOnlyIfMissed
BY LastVersionAccounted, RestAccounts, PTL

\* A detail page at rest that shows its trace closed has loaded it closed, with
\* labels and tree (TraceDetailClient.tsx reloads on the closing event).
THEOREM ClosedPageLoads == Spec => []ClosedPageIsLoaded
<1>1. EdgeInv => ClosedPageIsLoaded
  BY DEF EdgeInv, ClosedIsFetched, ClosedPageIsLoaded, Rest
<1> QED
  BY <1>1, LastVersionAccounted, PTL
=============================================================================
