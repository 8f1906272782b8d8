-------------------------- MODULE IncidentPipeline --------------------------
(***************************************************************************)
(* observex/pipeline.py: process_events takes a batch of events and the    *)
(* known changes through clustering, the causal graph, the debate, a       *)
(* remediation plan and the knowledge base; observex/remediation/engine.py *)
(* is then driven by the caller to verify the plan.  Clusters and          *)
(* knowledge stay from one incident to the next; only the knowledge is on  *)
(* disk, and the process may die at any time.                              *)
(*                                                                         *)
(* Correlations, hypothesis and matched patterns are left out: the code    *)
(* reports them and no decision reads them.                                *)
(***************************************************************************)
EXTENDS EventClusterer, CausalGraph, ObservexDebate, KnowledgeBase

CONSTANTS
  Events,             \* [template, host, severity, lag], lag the age on arrival
  ChangeLists,        \* the values of `changes`
  RoundChoices,       \* debate_rounds
  MinConfidence,      \* min_confidence, in hundredths of a percent
  EnableRemediation,  \* enable_remediation
  MaxIterations,      \* RemediationPlan.max_iterations
  MaxClock,           \* bound: the clock stops here
  MaxIngested,        \* bound: events handed to one process
  MaxCalls            \* bound: calls of process_events in one process

ASSUME PipelineAssumption ==
  /\ MaxIterations \in Nat /\ MinConfidence \in 0..10000 /\ EnableRemediation \in BOOLEAN
  /\ RoundChoices \subseteq Nat

\* Time stamps are positive.
ASSUME InputAssumption ==
  /\ \A e \in Events : e.lag \in Nat
  /\ \A chs \in ChangeLists :
       chs \in Seq(Range(chs)) /\ \A i \in DOMAIN chs : chs[i].time \in Nat \ {0}

VARIABLES
  clock,     \* time.time()
  rounds,    \* the debate engine's rounds
  pc,        \* where process_events is, or what the caller is doing
  calls,     \* history: calls of process_events
  ingested,  \* history: events handed in
  changes,   \* the `changes` of this call
  nodes,     \* the causal graph
  edges,
  arguments, \* the agents' initial arguments
  rebuttals, \* their rebuttals, round by round
  plan       \* the remediation plan, NoPlan without one

graph    == <<nodes, edges>>
debate   == <<arguments, rebuttals>>
incident == <<changes, graph, debate, plan>>
vars     == <<clusters, evicted, kb, clock, rounds, pc, calls, ingested, incident>>

NoPlan == [steps |-> <<>>, results |-> <<>>, status |-> "none"]

Init ==
  /\ clusters = <<>> /\ evicted = 0
  /\ KBInit
  /\ clock = 1
  /\ rounds \in RoundChoices
  /\ pc = "idle"
  /\ calls = 0 /\ ingested = 0
  /\ changes = <<>> /\ nodes = <<>> /\ edges = {}
  /\ arguments = <<>> /\ rebuttals = <<>>
  /\ plan = NoPlan

At(here, there) == pc = here /\ pc' = there

-----------------------------------------------------------------------------
(* process_events *)

Call ==
  /\ At("idle", "ingest")
  /\ calls < MaxCalls /\ calls' = calls + 1
  /\ \E chs \in ChangeLists :
       /\ \A i \in DOMAIN chs : chs[i].time <= clock
       /\ changes' = chs
  /\ UNCHANGED <<clusters, evicted, kb, clock, rounds, ingested, graph, debate, plan>>

IngestEvent ==
  /\ pc = "ingest" /\ ingested < MaxIngested
  /\ \E e \in Events :
       /\ e.lag < clock
       /\ Ingest([template |-> e.template, host |-> e.host, severity |-> e.severity, time |-> clock - e.lag])
  /\ ingested' = ingested + 1
  /\ UNCHANGED <<kb, clock, rounds, pc, calls, incident>>

\* The loop over the events is done: the graph is built of the active clusters.
BuildGraph ==
  /\ At("ingest", "debate")
  /\ LET cs   == Active(clock)
         raw  == Nodes(cs, changes)
         es   == Edges(raw, cs, changes)
     IN  nodes' = Marked(raw, es) /\ edges' = es
  /\ UNCHANGED <<clusters, evicted, kb, clock, rounds, calls, ingested, changes, debate, plan>>

InitialArguments ==
  /\ At("debate", IF rounds >= 2 THEN "rebut" ELSE "verdict")
  /\ arguments' = Initial(nodes)
  /\ UNCHANGED <<clusters, evicted, kb, clock, rounds, calls, ingested, changes, graph, rebuttals, plan>>

RebuttalRound ==
  /\ pc = "rebut"
  /\ rebuttals' = NextRebuttals(arguments, rebuttals, nodes)
  /\ pc' = IF Len(rebuttals') = 4 * (rounds - 1) THEN "verdict" ELSE "rebut"
  /\ UNCHANGED <<clusters, evicted, kb, clock, rounds, calls, ingested, changes, graph, arguments, plan>>

CurrentVerdict == Verdict(arguments, rebuttals)

Steps_ParametersFirst(claim) ==
  (IF claim \intersect {"timeout", "connection"} # {} THEN <<"param", "param">> ELSE <<>>)
  \o (IF "fault" \in claim THEN <<"ebpf">> ELSE <<>>)
  \o (IF "oom" \in claim THEN <<"param">> ELSE <<>>)
  \o (IF "link down" \in claim THEN <<"ticket">> ELSE <<>>)

\* The steps that the words of the verdict call for, in the engine's order.
Steps(claim) ==
  (IF "fault" \in claim THEN <<"ebpf">> ELSE <<>>)
  \o (IF claim \intersect {"timeout", "connection"} # {} THEN <<"param", "param">> ELSE <<>>)
  \o (IF "oom" \in claim THEN <<"param">> ELSE <<>>)
  \o (IF "link down" \in claim THEN <<"ticket">> ELSE <<>>)

\* A ticket for manual investigation when no word matches.
NewPlan(claim) ==
  [steps |-> IF Steps(claim) = <<>> THEN <<"ticket">> ELSE Steps(claim),
   results |-> <<>>, status |-> "generated"]

Learns == CurrentVerdict.confidence >= 7000 /\ nodes # <<>>

MakePlan ==
  /\ pc = "verdict"
  /\ plan' = IF EnableRemediation /\ CurrentVerdict.confidence >= MinConfidence
             THEN NewPlan(CurrentVerdict.claim) ELSE NoPlan
  /\ pc' = IF Learns THEN "learn_pattern" ELSE "done"
  /\ UNCHANGED <<clusters, evicted, kb, clock, rounds, calls, ingested, changes, graph, debate>>

-----------------------------------------------------------------------------
(* learn_from_incident: add_pattern and add_entry, each with a save. *)

Signature == [i \in 1..Min({10, Len(nodes)}) |-> nodes[i].label]

LearnPattern ==
  /\ At("learn_pattern", "learn_entry")
  /\ AddPattern(Signature)
  /\ UNCHANGED <<clusters, evicted, clock, rounds, calls, ingested, incident>>

\* The entry's content is the verdict and the first step that follows from it.
LearnEntry ==
  /\ At("learn_entry", "done") /\ saving = "saved"
  /\ AddEntry([claim |-> CurrentVerdict.claim, incident |-> Signature])
  /\ UNCHANGED <<clusters, evicted, clock, rounds, calls, ingested, incident>>

Save ==
  /\ pc \in {"learn_entry", "done"}
  /\ SaveStep
  /\ UNCHANGED <<clusters, evicted, clock, rounds, pc, calls, ingested, incident>>

\* Graph, debate and plan are local to the call.
Forget ==
  /\ changes' = <<>> /\ nodes' = <<>> /\ edges' = {}
  /\ arguments' = <<>> /\ rebuttals' = <<>> /\ plan' = NoPlan

Return ==
  /\ At("done", "idle") /\ saving = "saved"
  /\ Forget
  /\ UNCHANGED <<clusters, evicted, kb, clock, rounds, calls, ingested>>

-----------------------------------------------------------------------------
(* RemediationEngine.iteratively_fix: the pipeline hands out its plan only *)
(* as a dictionary, so a caller who wants it verified generates it again   *)
(* from the verdict, and may call more than once.                          *)

BeginFix ==
  /\ plan # NoPlan /\ saving = "saved"
  /\ At("done", "fix")
  /\ UNCHANGED <<clusters, evicted, kb, clock, rounds, calls, ingested, incident>>

CanRetry == Len(plan.results) < MaxIterations
IsVerified == plan.results # <<>> /\ plan.results[Len(plan.results)] = "passed"

\* What verifying the first step may give: clang passes or fails a patch.
Outcomes ==
  CASE plan.steps[1] = "ebpf"   -> {"passed", "failed"}
    [] plan.steps[1] = "param"  -> {"passed"}
    [] plan.steps[1] = "ticket" -> {"skipped"}

Attempt ==
  /\ pc = "fix" /\ CanRetry /\ ~IsVerified
  /\ \E outcome \in Outcomes :
       plan' = [plan EXCEPT !.results = Append(@, outcome),
                            !.status = IF outcome = "passed" THEN "verified" ELSE @]
  /\ UNCHANGED <<clusters, evicted, kb, clock, rounds, pc, calls, ingested, changes, graph, debate>>

EndFix ==
  /\ At("fix", "done")
  /\ ~CanRetry \/ IsVerified
  /\ plan' = IF IsVerified THEN plan ELSE [plan EXCEPT !.status = "failed_verification"]
  /\ UNCHANGED <<clusters, evicted, kb, clock, rounds, calls, ingested, changes, graph, debate>>

\* clang does not answer in its 30 s: TimeoutExpired leaves iteratively_fix.
ClangTimesOut ==
  /\ At("fix", "done")
  /\ CanRetry /\ ~IsVerified /\ plan.steps[1] = "ebpf"
  /\ UNCHANGED <<clusters, evicted, kb, clock, rounds, calls, ingested, incident>>

-----------------------------------------------------------------------------
(* Crash and restart *)

Crash ==
  /\ pc \notin {"down", "load_failed"}
  /\ pc' = "down"
  /\ clusters' = <<>> /\ evicted' = 0 /\ calls' = 0 /\ ingested' = 0
  /\ KBLost /\ Forget
  /\ UNCHANGED <<clock, rounds>>

Restart ==
  /\ At("down", "idle")
  /\ Load
  /\ UNCHANGED <<clusters, evicted, clock, rounds, calls, ingested, incident>>

\* The constructor raises, and would again.
RestartFails ==
  /\ At("down", "load_failed")
  /\ ~CanLoad
  /\ UNCHANGED <<clusters, evicted, kb, clock, rounds, calls, ingested, incident>>

\* Time passes between calls; within one it is neglected.
Tick ==
  /\ pc = "idle" /\ clock < MaxClock
  /\ clock' = clock + 1
  /\ UNCHANGED <<clusters, evicted, kb, rounds, pc, calls, ingested, incident>>

Process ==
  \/ Call \/ IngestEvent \/ BuildGraph \/ InitialArguments \/ RebuttalRound \/ MakePlan
  \/ LearnPattern \/ LearnEntry \/ Save \/ Return

Fix == BeginFix \/ Attempt \/ EndFix \/ ClangTimesOut

Next == Process \/ Fix \/ Crash \/ Restart \/ RestartFails \/ Tick

Spec == Init /\ [][Next]_vars

-----------------------------------------------------------------------------
(* The type invariant; a severity is a name, a file one of three states. *)
TypeOK ==
  /\ \A i \in DOMAIN clusters : clusters[i].severity \in Range(ByName)
  /\ clock \in 1..MaxClock /\ calls \in 0..MaxCalls /\ ingested \in 0..MaxIngested /\ rounds \in RoundChoices
  /\ pc \in {"idle", "ingest", "debate", "rebut", "verdict", "learn_pattern", "learn_entry", "done",
            "fix", "down", "load_failed"}
  /\ edges \subseteq (DOMAIN nodes) \X (DOMAIN nodes)
  /\ Len(arguments) \in {0, 4} /\ Len(rebuttals) % 4 = 0
  /\ plan.status \in {"none", "generated", "verified", "failed_verification"}
  /\ Len(plan.results) <= MaxIterations
  /\ saving \in {"saved", "open_patterns", "write_patterns", "open_entries", "write_entries"}
  /\ patternsFile.state \in {"absent", "torn", "written"}
  /\ entriesFile.state \in {"absent", "torn", "written"}

(* Clustering and eviction lose count of no event, keep one cluster per    *)
(* template and stay within max_clusters, whatever the order of the time   *)
(* stamps (EventClusterer.ingest and _evict_old).                          *)
ClustersAccounted ==
  /\ Len(clusters) <= MaxClusters
  /\ \A i, j \in DOMAIN clusters : clusters[i].template = clusters[j].template => i = j
  /\ Cardinality(UNION {{i} \X (1..clusters[i].count) : i \in DOMAIN clusters}) + evicted = ingested

Distinguished(chs) ==
  \A i, j \in DOMAIN chs : chs[i].description \subseteq chs[j].description => i = j

(* As long as no change describes itself with words of another, the causal *)
(* graph is acyclic, the topological order misses no node, and the node    *)
(* marked as the root cause has nothing leading to it, also with events    *)
(* and changes at the same instant and events that arrive late             *)
(* (build_from_correlations and topological_order).                        *)
OrderComplete ==
  Distinguished(changes) =>
    /\ Ordered(nodes, edges) = DOMAIN nodes
    /\ \A i \in DOMAIN nodes : nodes[i].kind = "root_cause" => Incoming(edges, i) = {}

(* The graph and the debate contradict each other about a single change:   *)
(* once the graph has named it, its last node, the root cause, no verdict, *)
(* in no round, is the change agent's, who looks for nodes that still are  *)
(* changes (CausalGraph.mark_root_cause and ChangeAgent.analyze, rebut).   *)
RootCauseUnblamed ==
  (pc = "verdict" /\ Len(changes) = 1 /\ RootCause(nodes, edges) = Len(nodes))
    => LET args == Last4(arguments, rebuttals) IN args[Best(args)].role # "change"

(* The README's sample result, which it shows for the default of two       *)
(* rounds (8 arguments), with "Every resolved incident feeds back into the *)
(* pattern knowledge base": an incident that the agents open with the      *)
(* kernel agent's consensus on a fault at 0.85 ends with that confidence,  *)
(* an eBPF patch, and a pattern of the incident.                           *)
DocumentedResult ==
  /\ pc = "done" /\ saving = "saved"
  /\ Len(arguments \o rebuttals) = 8
  /\ Best(arguments) = 1 /\ IsConsensus(arguments)
  /\ arguments[1].confidence = 8500 /\ "fault" \in arguments[1].claim
  =>
  /\ CurrentVerdict.confidence = 8500
  /\ "ebpf" \in Range(plan.steps)
  /\ Signature \in patterns

(* A plan that is verified and has an eBPF patch had that patch compiled,  *)
(* by its last attempt and by no earlier one; one that failed has used up  *)
(* its attempts.  Only the first step is ever verified, so this rests on   *)
(* generate_plan putting the patch first (iteratively_fix).  A plan that a *)
(* clang without an answer left behind has passed nothing, and can still   *)
(* be tried: an attempt that times out is not counted.                     *)
VerifiedCoversEbpf ==
  /\ plan.status = "verified" =>
       /\ \A i \in DOMAIN plan.steps : plan.steps[i] = "ebpf" => plan.steps[1] = "ebpf"
       /\ plan.results # <<>>
       /\ \A i \in DOMAIN plan.results : plan.results[i] = "passed" <=> i = Len(plan.results)
  /\ plan.status = "failed_verification" =>
       /\ Len(plan.results) = MaxIterations
       /\ \A i \in DOMAIN plan.results : plan.results[i] # "passed"
  /\ plan.status = "generated" /\ pc # "fix" =>
       /\ plan.results = <<>> \/ CanRetry
       /\ \A i \in DOMAIN plan.results : plan.results[i] # "passed"

(* README: "JSON-based persistence in .observex_kb/": a process that comes *)
(* back after files were written completely has what they hold.            *)
KnowledgeSurvives ==
  pc = "load_failed" => Torn \in {patternsFile, entriesFile}

=============================================================================
