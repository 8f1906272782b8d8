----------------------------- MODULE CausalGraph -----------------------------
(***************************************************************************)
(* observex/processing/causal_builder.py and observex/models/causal.py:    *)
(* the causal graph of an incident.  Nodes are numbered in the order they  *)
(* are added: the clusters, then the changes.  Edge confidences are in     *)
(* hundredths of a percent.                                                *)
(***************************************************************************)
EXTENDS Integers, Sequences, FiniteSets, FiniteSetsExt

CONSTANTS
  MaxGap,       \* max_time_gap_s of temporal edges, in ticks
  ImpactWindow  \* time_window_s of change impact edges, in ticks

ASSUME GraphAssumption == MaxGap \in Nat \ {0} /\ ImpactWindow \in Nat

\* A host, service or severity that is not given.
Unset == ""

\* What a change's type puts into its node's label.
TypeWords(type) ==
  CASE type = "kernel_update" -> {"kernel"}
    [] type \in {"config_change", "capacity_change"} -> {"change"}
    [] type = "infra_change" -> {"infra", "change"}
    [] OTHER -> {}

EventNode(c) ==
  [kind |-> "event", source |-> c.template.source, text |-> c.template.text,
   label |-> {c.template.source} \union c.template.text,
   time |-> c.first, hosts |-> c.hosts, service |-> Unset, severity |-> c.severity]

ChangeNode(ch) ==
  [kind |-> "change", source |-> ch.source, text |-> ch.description,
   label |-> TypeWords(ch.type) \union ({ch.service} \ {Unset}),
   time |-> ch.time, hosts |-> {ch.host}, service |-> ch.service, severity |-> Unset]

Nodes(cs, chs) ==
  [i \in 1..(Len(cs) + Len(chs)) |->
     IF i <= Len(cs) THEN EventNode(cs[i]) ELSE ChangeNode(chs[i - Len(cs)])]

Scaled(confidence, condition, tenths) ==
  IF condition THEN (confidence * tenths) \div 10 ELSE confidence

TemporalConfidence(a, b) ==
  LET near    == Max({1000, 10000 - (10000 * (b.time - a.time)) \div MaxGap})
      host    == Scaled(near, a.hosts = b.hosts /\ a.hosts # {Unset}, 13)
      service == Scaled(host, a.service = b.service /\ a.service # Unset, 12)
  IN  Min({10000, Scaled(service, a.kind = "change", 14)})

Precedes_OrTies(a, b) == b.time >= a.time /\ b.time - a.time <= MaxGap
Precedes(a, b) == b.time > a.time /\ b.time - a.time <= MaxGap

Linked(a, b) == Precedes(a, b) /\ TemporalConfidence(a, b) >= 3000

\* In nodes_by_time; nodes of one instant keep the order they were added in.
SortedBefore(nodes, i, j) ==
  nodes[i].time < nodes[j].time \/ (nodes[i].time = nodes[j].time /\ i < j)

TemporalEdges(nodes) ==
  {e \in (DOMAIN nodes) \X (DOMAIN nodes) :
     SortedBefore(nodes, e[1], e[2]) /\ Linked(nodes[e[1]], nodes[e[2]])}

\* The first change whose description contains this one's.  A description is the
\* set of its words.
FindChangeNode(nodes, ch) ==
  Min({i \in DOMAIN nodes : nodes[i].kind = "change" /\ ch.description \subseteq nodes[i].text})

Impacts(ch, c) ==
  /\ c.first >= ch.time
  /\ c.first - ch.time <= ImpactWindow
  /\ ch.host # Unset /\ ch.host \in c.hosts

\* Clusters are the first nodes, in their order.
ChangeEdges(nodes, cs, chs) ==
  UNION {{<<FindChangeNode(nodes, chs[k]), i>> : i \in {i \in DOMAIN cs : Impacts(chs[k], cs[i])}} :
           k \in DOMAIN chs}

Edges(nodes, cs, chs) == TemporalEdges(nodes) \union ChangeEdges(nodes, cs, chs)

Incoming(edges, i) == {e \in edges : e[2] = i}

\* The latest node that nothing leads to (time stamps are positive).
Key(nodes, edges, i) == IF Incoming(edges, i) = {} THEN nodes[i].time ELSE 0
RootCause(nodes, edges) ==
  CHOOSE i \in DOMAIN nodes : \A j \in DOMAIN nodes :
    Key(nodes, edges, i) > Key(nodes, edges, j) \/ (Key(nodes, edges, i) = Key(nodes, edges, j) /\ i <= j)

Marked_EventsOnly(nodes, edges) ==
  [i \in DOMAIN nodes |->
     IF i = RootCause(nodes, edges) /\ nodes[i].kind = "event" THEN [nodes[i] EXCEPT !.kind = "root_cause"]
     ELSE nodes[i]]

\* mark_root_cause turns the node into a root cause, also if it was a change.
Marked(nodes, edges) ==
  IF nodes = <<>> THEN nodes ELSE [nodes EXCEPT ![RootCause(nodes, edges)].kind = "root_cause"]

\* topological_order: the nodes it reaches by taking away those without edges
\* from nodes that are left.
Ordered(nodes, edges) ==
  LET reached[n \in 0..Len(nodes)] ==
        IF n = 0 THEN {}
        ELSE {i \in DOMAIN nodes : \A e \in Incoming(edges, i) : e[1] \in reached[n - 1]}
  IN  reached[Len(nodes)]

=============================================================================
