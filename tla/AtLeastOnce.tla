----------------------------- MODULE AtLeastOnce -----------------------------
(***************************************************************************)
(* What the span hand-off between a capture proxy and the collector        *)
(* promises, whatever connections, buffers and acknowledgements it uses:   *)
(*                                                                         *)
(*   a span the proxy has taken stays held by the proxy until the          *)
(*   transport has stored it or the collector has refused it for good; the *)
(*   only other way out is to be written off openly (the buffer's cap, or  *)
(*   the stranding of the original-bug mode).                              *)
(*                                                                         *)
(* A span may be stored any number of times (at-least-once), so stored is  *)
(* a set and Store may repeat.                                             *)
(***************************************************************************)
CONSTANTS Spans,        \* the spans the proxy may be offered
          Refusable     \* those the collector's validation refuses

VARIABLES taken,        \* spans the proxy has taken charge of
          held,         \* spans the proxy still keeps for resending
          stored,       \* spans the transport has accepted
          refused,      \* spans the collector has refused for good
          writtenOff    \* spans given up openly

vars == <<taken, held, stored, refused, writtenOff>>

Init == /\ taken = {}
        /\ held = {}
        /\ stored = {}
        /\ refused = {}
        /\ writtenOff = {}

Take(s) ==
    /\ s \notin taken
    /\ taken' = taken \cup {s}
    /\ \E lost \in SUBSET (held \cup {s}) :      \* a full buffer makes room
          /\ held' = (held \cup {s}) \ lost
          /\ writtenOff' = writtenOff \cup lost
    /\ UNCHANGED <<stored, refused>>

Store(s) ==
    /\ s \in taken \ Refusable
    /\ stored' = stored \cup {s}
    /\ UNCHANGED <<taken, held, refused, writtenOff>>

Refuse(s) ==
    /\ s \in taken \cap Refusable
    /\ refused' = refused \cup {s}
    /\ UNCHANGED <<taken, held, stored, writtenOff>>

Release(settled) ==
    /\ settled \subseteq stored \cup refused \cup writtenOff
    /\ held' = held \ settled
    /\ UNCHANGED <<taken, stored, refused, writtenOff>>

WriteOff(lost) ==
    /\ held' = held \ lost
    /\ writtenOff' = writtenOff \cup lost
    /\ UNCHANGED <<taken, stored, refused>>

Next == \/ \E s \in Spans : Take(s) \/ Store(s) \/ Refuse(s)
        \/ \E S \in SUBSET held : Release(S) \/ WriteOff(S)

Spec == Init /\ [][Next]_vars
=============================================================================
