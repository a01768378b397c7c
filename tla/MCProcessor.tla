---------------------------- MODULE MCProcessor ----------------------------
(* Small instances of Processor: times are in units of the idle gap.       *)
EXTENDS Processor

\* One agent, three requests: the second starts before the first one ended and
\* ends first; the third is the terminal output.
MCAgents == {"a"}
MCSpans == 1..3
MCAgentOf == [s \in MCSpans |-> "a"]
MCStartOf == <<0, 0, 2>>
MCEndOf == <<1, 0, 2>>
MCTerminal == {3}

\* The second request takes longer than the idle gap to be answered.
SlowSpans == 1..2
SlowAgentOf == [s \in SlowSpans |-> "a"]
SlowStartOf == <<0, 1>>
SlowEndOf == <<0, 3>>
=============================================================================
