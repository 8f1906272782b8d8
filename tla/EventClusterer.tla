--------------------------- MODULE EventClusterer ---------------------------
(***************************************************************************)
(* observex/processing/clustering.py: EventClusterer keeps one cluster per *)
(* template across calls.  A template is the source, service and           *)
(* normalized message; here a record of the source and of the set of       *)
(* keywords that the message contains, which is all that later stages look *)
(* for.                                                                    *)
(***************************************************************************)
EXTENDS Integers, Sequences, FiniteSets, SequencesExt

CONSTANTS
  MaxClusters,  \* max_clusters
  ActiveSpan    \* five times window_seconds, in ticks

ASSUME ClustererAssumption == MaxClusters \in Nat \ {0} /\ ActiveSpan \in Nat

VARIABLES
  clusters,  \* _clusters, in insertion order
  evicted    \* history: events in clusters that have been evicted

\* Severities are compared by their names.
ByName == <<"critical", "debug", "error", "fatal", "info", "warning">>
SeverityAfter(a, b) ==
  \E i, j \in DOMAIN ByName : ByName[i] = a /\ ByName[j] = b /\ i > j

IndexOf(template) == SelectInSeq(clusters, LAMBDA c : c.template = template)

NewCluster(e) ==
  [template |-> e.template, count |-> 1, first |-> e.time, last |-> e.time,
   hosts |-> {e.host}, severity |-> e.severity]

Joined(c, e) ==
  [c EXCEPT !.count = @ + 1, !.last = e.time, !.hosts = @ \union {e.host},
            !.severity = IF SeverityAfter(e.severity, @) THEN e.severity ELSE @]

\* The cluster seen least recently; of several the one inserted first.
Stalest(cs) ==
  CHOOSE i \in DOMAIN cs :
    \A j \in DOMAIN cs : cs[i].last < cs[j].last \/ (cs[i].last = cs[j].last /\ i <= j)

EvictOld_AfterFull(cs) == IF Len(cs) <= MaxClusters + 1 THEN cs ELSE RemoveAt(cs, Stalest(cs))
EvictOld(cs) == IF Len(cs) <= MaxClusters THEN cs ELSE RemoveAt(cs, Stalest(cs))

\* An event joins its template's cluster, or opens one, and then the stalest
\* cluster goes if there are too many: with an old time stamp, the new one.
Ingest(e) ==
  LET i == IndexOf(e.template)
      all == Append(clusters, NewCluster(e))
  IN  IF i # 0
      THEN clusters' = [clusters EXCEPT ![i] = Joined(@, e)] /\ UNCHANGED evicted
      ELSE /\ clusters' = EvictOld(all)
           /\ evicted' = evicted + IF Len(EvictOld(all)) < Len(all) THEN all[Stalest(all)].count ELSE 0

\* get_active_clusters: the largest first, equals in insertion order.
Active(now) ==
  LET live == {i \in DOMAIN clusters : now - clusters[i].last <= ActiveSpan}
      ahead(i) == {j \in live : \/ clusters[j].count > clusters[i].count
                                \/ (clusters[j].count = clusters[i].count /\ j < i)}
  IN  [k \in 1..Cardinality(live) |-> clusters[CHOOSE i \in live : Cardinality(ahead(i)) = k - 1]]

=============================================================================
