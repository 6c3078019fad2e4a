---------------------------- MODULE StagePlanner ----------------------------
(***************************************************************************)
(* engine/registry.py and engine/planner.py: what a StageRegistry accepts,  *)
(* the order DAGPlanner gives the Stages and the plans it selects.          *)
(*                                                                          *)
(* A registry is a record of functions over the Stage names: deps (names),  *)
(* requires and outputs (logical keys), and the set external of keys.       *)
(* Stages are named by naturals, ordered as their names are sorted.         *)
(***************************************************************************)
EXTENDS Naturals, Sequences, FiniteSets

None == 0            \* no name: Stage names are positive
Names(reg) == DOMAIN reg.deps
Least(S) == CHOOSE x \in S : \A y \in S : x <= y
Members(seq) == {seq[i] : i \in DOMAIN seq}

\* StageRegistry.__init__: a dependency that is not registered, an output with
\* two owners or an output that is also an external input.
RegistryRefuses(reg) ==
  \/ \E s \in Names(reg) : ~ reg.deps[s] \subseteq Names(reg)
  \/ \E s, t \in Names(reg) : s # t /\ reg.outputs[s] \cap reg.outputs[t] # {}
  \/ \E s \in Names(reg) : reg.outputs[s] \cap reg.external # {}

\* _dependents: the edges of deps turned round
Dependents(deps) == [s \in DOMAIN deps |-> {t \in DOMAIN deps : s \in deps[t]}]

\* The visited set of _ancestors and _descendants: what s reaches in graph.
Reachable(graph, s) ==
  LET seen[n \in 0..Cardinality(DOMAIN graph)] ==
        IF n = 0 THEN graph[s]
        ELSE LET before == seen[n - 1]
             IN before \cup UNION {graph[t] : t \in before}
  IN seen[Cardinality(DOMAIN graph)]

Ancestors(deps, s) == Reachable(deps, s)
Descendants(deps, s) == Reachable(Dependents(deps), s)

\* _topological_order: Kahn's algorithm, the smallest ready name first.  It
\* stops short when a cycle is left.
Ordered(deps) ==
  LET prefix[n \in 0..Cardinality(DOMAIN deps)] ==
        IF n = 0 THEN <<>>
        ELSE LET before == prefix[n - 1]
                 done == Members(before)
                 ready == {s \in DOMAIN deps \ done : deps[s] \subseteq done}
             IN IF ready = {} THEN before ELSE Append(before, Least(ready))
  IN prefix[Cardinality(DOMAIN deps)]

HasCycle(deps) == Len(Ordered(deps)) # Cardinality(DOMAIN deps)

\* _validate_required_inputs: an input that is not external has a producer, and
\* the producer is an ancestor of its reader.
InputsRefused(reg) ==
  \E s \in Names(reg) : \E key \in reg.requires[s] \ reg.external :
     ~ \E owner \in Ancestors(reg.deps, s) : key \in reg.outputs[owner]

PlannerRefuses(reg) ==
  RegistryRefuses(reg) \/ HasCycle(reg.deps) \/ InputsRefused(reg)

\* DAGPlanner.plan.  sel = [stage, from, to], each a name or None.
Selected(reg, sel) ==
  IF sel.stage # None THEN {sel.stage}
  ELSE {s \in Names(reg) :
          /\ sel.from # None => s \in Descendants(reg.deps, sel.from) \cup {sel.from}
          /\ sel.to # None => s \in Ancestors(reg.deps, sel.to) \cup {sel.to}}

\* Two ways to select at once, an unknown name, or no Stage between two names.
SelectionRefused(reg, sel) ==
  \/ sel.stage # None /\ (sel.from # None \/ sel.to # None)
  \/ \E x \in {sel.stage, sel.from, sel.to} : x # None /\ x \notin Names(reg)
  \/ Selected(reg, sel) = {}

\* The planned Stages in the planner's order.
PlanOf(reg, sel) ==
  LET order == Ordered(reg.deps)
      selected == Selected(reg, sel)
      kept[n \in 0..Len(order)] ==
        IF n = 0 THEN <<>>
        ELSE IF order[n] \in selected THEN Append(kept[n - 1], order[n])
        ELSE kept[n - 1]
  IN kept[Len(order)]

\* The required inputs that no planned Stage produces.
BoundaryOf(reg, planned) ==
  (UNION {reg.requires[s] : s \in planned})
    \ (UNION {reg.outputs[s] : s \in planned})
=============================================================================
