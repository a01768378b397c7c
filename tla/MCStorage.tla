----------------------------- MODULE MCStorage -----------------------------
(* A small instance of Storage: one agent, a request and the terminal      *)
(* output.  Times are in units of the idle gap, and the retention window   *)
(* is one: a span that waited in a proxy makes a trace that is old at once. *)
EXTENDS Storage

MCAgents == {"a"}
MCSpans == 1..2
MCAgentOf == [s \in MCSpans |-> "a"]
MCStartOf == <<0, 0>>
MCEndOf == <<0, 0>>
MCTerminal == {2}
MCWatched == {1, 2}

\* Bound: one fault, a store call that fails or a crash.
OneFault == storeFailures' + crashes' <= 1
=============================================================================
