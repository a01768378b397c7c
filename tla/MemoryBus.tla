------------------------------ MODULE MemoryBus ------------------------------
(***************************************************************************)
(* The in-memory transport of internal/transport: a channel per            *)
(* subscription, filled by Publish without waiting and emptied by the      *)
(* subscriber's goroutine.  Publish copies the list of channels under the  *)
(* lock and offers the message to one after the other without it, so other *)
(* publishers, subscribers and new subscriptions come between.             *)
(***************************************************************************)
EXTENDS Integers, Sequences, FiniteSets, Sums

CONSTANTS
    BufSize,          \* bufSize, 4096 unless set
    Publishers,
    MaxPublished,     \* bound: messages per publisher
    MaxSubscribers    \* bound

ASSUME BufSizeAssumption == BufSize \in Nat \ {0}
ASSUME PublishersAssumption == IsFiniteSet(Publishers)

VARIABLES
    subs,         \* per subscription, what its channel holds
    taken,        \* per subscription, what its handler was called with
    stopped,      \* the subscriptions whose context is done
    dropped,      \* m.dropped
    publishing,   \* per publisher, the channel it offers to next and its last one
    reach         \* history: per publisher, the channels of each of its messages
busVars == <<subs, taken, stopped, dropped, publishing, reach>>

BusInit ==
    /\ subs = <<>> /\ taken = <<>> /\ stopped = {} /\ dropped = 0
    /\ publishing = [p \in Publishers |-> [next |-> 1, last |-> 0]]
    /\ reach = [p \in Publishers |-> <<>>]

Offering(p) == publishing[p].next <= publishing[p].last

\* The queue group is ignored: every subscription has every message.
Subscribe ==
    /\ Len(subs) < MaxSubscribers
    /\ subs' = Append(subs, <<>>) /\ taken' = Append(taken, <<>>)
    /\ UNCHANGED <<stopped, dropped, publishing, reach>>

BeginPublish(p) ==
    /\ ~Offering(p) /\ Len(reach[p]) < MaxPublished
    /\ publishing' = [publishing EXCEPT ![p] = [next |-> 1, last |-> Len(subs)]]
    /\ reach' = [reach EXCEPT ![p] = Append(@, Len(subs))]
    /\ UNCHANGED <<subs, taken, stopped, dropped>>

Message(p) == [by |-> p, nr |-> Len(reach[p])]

\* Publish reports no error, whatever was dropped.
Continue(p, channel) == publishing' = [publishing EXCEPT ![p].next = channel]
OfferUntilFull(p) ==
    /\ Offering(p)
    /\ LET s == publishing[p].next
       IN IF Len(subs[s]) < BufSize
          THEN /\ subs' = [subs EXCEPT ![s] = Append(@, Message(p))]
               /\ Continue(p, s + 1) /\ UNCHANGED dropped
          ELSE /\ dropped' = dropped + 1
               /\ Continue(p, publishing[p].last + 1) /\ UNCHANGED subs
    /\ UNCHANGED <<taken, stopped, reach>>
Offer(p) ==
    /\ Offering(p)
    /\ LET s == publishing[p].next
       IN IF Len(subs[s]) < BufSize
          THEN subs' = [subs EXCEPT ![s] = Append(@, Message(p))] /\ UNCHANGED dropped
          ELSE dropped' = dropped + 1 /\ UNCHANGED subs
    /\ Continue(p, publishing[p].next + 1)
    /\ UNCHANGED <<taken, stopped, reach>>

\* The handler's error is ignored: a message it failed on is gone.
Handle(s) ==
    /\ s \notin stopped /\ subs[s] # <<>>
    /\ taken' = [taken EXCEPT ![s] = Append(@, Head(subs[s]))]
    /\ subs' = [subs EXCEPT ![s] = Tail(@)]
    /\ UNCHANGED <<stopped, dropped, publishing, reach>>

\* The goroutine ends; its channel stays and fills up.
EndSubscription(s) ==
    /\ s \notin stopped
    /\ stopped' = stopped \cup {s}
    /\ UNCHANGED <<subs, taken, dropped, publishing, reach>>

BusNext ==
    \/ Subscribe
    \/ \E p \in Publishers : BeginPublish(p) \/ Offer(p)
    \/ \E s \in DOMAIN subs : Handle(s) \/ EndSubscription(s)

BusSpec == BusInit /\ [][BusNext]_busVars

-----------------------------------------------------------------------------
(* Properties.                                                             *)

\* What a subscription has had or will have.
Got(s) == taken[s] \o subs[s]

\* No channel gets a copy twice, or one of a message published before its
\* subscription, or a publisher's messages out of order.
InOrder(s) ==
    /\ \A i, j \in DOMAIN Got(s) :
          i < j /\ Got(s)[i].by = Got(s)[j].by => Got(s)[i].nr < Got(s)[j].nr
    /\ \A i \in DOMAIN Got(s) : reach[Got(s)[i].by][Got(s)[i].nr] >= s
CopiesInOrder == \A s \in DOMAIN subs : InOrder(s)

\* For each channel there was when its publication began a copy of a message
\* was handled, is queued, was counted as dropped, or is still to be offered.
ToReach == [p \in Publishers |-> SumOf(reach[p], DOMAIN reach[p])]
Received == [s \in DOMAIN subs |-> Len(Got(s))]
ToOffer == [p \in Publishers |->
               IF Offering(p) THEN publishing[p].last - publishing[p].next + 1 ELSE 0]
CopiesCounted ==
    SumOf(ToReach, Publishers)
        = SumOf(Received, DOMAIN subs) + dropped + SumOf(ToOffer, Publishers)

\* Every copy of a message is accounted for, and none comes twice, too early
\* or out of order.
CopiesAccounted == CopiesInOrder /\ CopiesCounted

\* What is kept for it: a publisher that is offering has the channels before
\* the next one behind it, and only those have its last message.
Messages == [by : Publishers, nr : Nat \ {0}]

BusType ==
    /\ subs \in Seq(Seq(Messages)) /\ taken \in Seq(Seq(Messages))
    /\ Len(taken) = Len(subs)
    /\ dropped \in Nat
    /\ publishing \in [Publishers -> [next : Nat \ {0}, last : Nat]]
    /\ reach \in [Publishers -> Seq(Nat)]

PublishersInv ==
    \A p \in Publishers :
        /\ publishing[p].next <= publishing[p].last + 1
        /\ publishing[p].last <= Len(subs)
        /\ Offering(p) => /\ reach[p] # <<>>
                          /\ reach[p][Len(reach[p])] = publishing[p].last

NotBeyond(s) ==
    \A i \in DOMAIN Got(s) :
        /\ Got(s)[i].nr <= Len(reach[Got(s)[i].by])
        /\ s >= publishing[Got(s)[i].by].next => Got(s)[i].nr < Len(reach[Got(s)[i].by])

BusInv ==
    /\ BusType /\ PublishersInv
    /\ \A s \in DOMAIN subs : NotBeyond(s)
    /\ CopiesAccounted
=============================================================================
