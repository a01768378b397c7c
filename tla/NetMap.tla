------------------------------- MODULE NetMap -------------------------------
(***************************************************************************)
(* The network map: QueryTopology, which groups the stored calls in SQL by *)
(* agent, destination and type, and merges the groups into one edge per    *)
(* agent and backend.  A stored call is a record of the details the query  *)
(* joins; calls says how many there are of each kind.  Agents are numbered *)
(* in the order of their names.                                            *)
(***************************************************************************)
EXTENDS Integers, FiniteSets, Sums

\* backendNode: a destination is a host and the last part of a path.
BackendNode(type, dest) ==
    CASE type = "llm_call" -> <<"llm">>
      [] type = "db_call" -> <<"db">>
      [] type = "output" -> <<"user">>
      [] type = "tool_call" -> <<"tool", dest.last>>
      [] OTHER -> <<"ext", dest.host>>

\* The rows of the query: the calls of traces in the window, per agent,
\* destination and type.
Asked(calls) == {k \in DOMAIN calls : calls[k] > 0 /\ k.inWindow}
GroupOf(k) == [agent |-> k.agent, dest |-> k.dest, type |-> k.type]
Row(calls, g) ==
    LET mine == {k \in Asked(calls) : GroupOf(k) = g}
    IN [group |-> g,
        calls |-> SumOf(calls, mine),
        errors |-> SumOf(calls, {k \in mine : k.error}),
        warnings |-> SumOf(calls, {k \in mine : k.warned})]
Groups(calls) == {Row(calls, GroupOf(k)) : k \in Asked(calls)}

EdgeOf(group) == <<group.agent, BackendNode(group.type, group.dest)>>
Calls(rows) == SumOf([row \in rows |-> row.calls], rows)
Errors(rows) == SumOf([row \in rows |-> row.errors], rows)
Warnings(rows) == SumOf([row \in rows |-> row.warnings], rows)

\* One edge for all the groups of an agent and a backend.
EdgeOfOneGroup(rows, e) ==
    LET mine == CHOOSE row \in rows : EdgeOf(row.group) = e
    IN [agent |-> e[1], backend |-> e[2], calls |-> mine.calls,
        errors |-> mine.errors, warnings |-> mine.warnings]
Edge(rows, e) ==
    LET mine == {row \in rows : EdgeOf(row.group) = e}
    IN [agent |-> e[1], backend |-> e[2], calls |-> Calls(mine),
        errors |-> Errors(mine), warnings |-> Warnings(mine)]
Edges(rows) == {Edge(rows, e) : e \in {EdgeOf(row.group) : row \in rows}}

\* The busiest agents, the first by name of two that are equally busy; 0 and
\* less keep them all.
AgentCalls(rows) ==
    [a \in {row.group.agent : row \in rows} |-> Calls({row \in rows : row.group.agent = a})]
Before(agentCalls, a) ==
    {b \in DOMAIN agentCalls : \/ agentCalls[b] > agentCalls[a]
                               \/ agentCalls[b] = agentCalls[a] /\ b < a}
Kept(agentCalls, limit) ==
    {a \in DOMAIN agentCalls : limit <= 0 \/ Cardinality(Before(agentCalls, a)) < limit}

QueryTopology(calls, limit) ==
    LET rows == Groups(calls)
        agentCalls == AgentCalls(rows)
        kept == Kept(agentCalls, limit)
        edges == {e \in Edges(rows) : e.agent \in kept}
    IN [agents |-> [a \in kept |-> agentCalls[a]],
        edges |-> edges,
        backends |-> {e.backend : e \in edges}]

\* The map counts every stored call of the window once: each edge has the calls
\* of its agent to its backend, no call of an agent on the map is on no edge,
\* and no agent that was left out called more than one that is shown.
CallsOf(calls, a) == {k \in Asked(calls) : k.agent = a}
EdgeCountsItsCalls(calls, e) ==
    LET mine == {k \in Asked(calls) : EdgeOf(GroupOf(k)) = <<e.agent, e.backend>>}
    IN /\ e.calls = SumOf(calls, mine)
       /\ e.errors = SumOf(calls, {k \in mine : k.error})
       /\ e.warnings = SumOf(calls, {k \in mine : k.warned})
CountsEveryCall(calls, limit) ==
    LET map == QueryTopology(calls, limit)
        shown == DOMAIN map.agents
        gone == {k.agent : k \in Asked(calls)} \ shown
    IN /\ \A e \in map.edges : EdgeCountsItsCalls(calls, e)
       /\ \A a \in shown : /\ map.agents[a] = SumOf(calls, CallsOf(calls, a))
                           /\ map.agents[a] = Calls({e \in map.edges : e.agent = a})
       /\ \A a \in gone, b \in shown : SumOf(calls, CallsOf(calls, a)) <= map.agents[b]
       /\ gone # {} => limit > 0 /\ Cardinality(shown) = limit
       /\ map.backends = {EdgeOf(GroupOf(k))[2] : k \in {c \in Asked(calls) : c.agent \in shown}}
=============================================================================
