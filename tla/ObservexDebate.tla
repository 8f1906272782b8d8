--------------------------- MODULE ObservexDebate ---------------------------
(***************************************************************************)
(* observex/agents/*.py and observex/debate/engine.py: four agents argue   *)
(* over the causal graph.  A claim is the set of the words in it that      *)
(* another agent or the remediation engine looks for; confidences are in   *)
(* hundredths of a percent.  The context of a debate never holds the       *)
(* confidences the rebuttals ask it for, so their defaults are used.       *)
(***************************************************************************)
EXTENDS Integers, Sequences, FiniteSets, SequencesExt, FiniteSetsExt

Roles == <<"kernel", "application", "infra", "change">>

Argument(role, claim, confidence) == [role |-> role, claim |-> claim, confidence |-> confidence]

\* The nodes from these sources that mention one of these words, in order.
Mentioning(nodes, sources, words) ==
  SelectSeq(nodes, LAMBDA n : n.source \in sources /\ n.text \intersect words # {})
From(nodes, sources) == SelectSeq(nodes, LAMBDA n : n.source \in sources)
ChangeNodes(nodes) == {i \in DOMAIN nodes : nodes[i].kind = "change"}

KernelInitial(nodes) ==
  LET panic  == Mentioning(nodes, {"kernel"}, {"panic", "fault"})
      lockup == Mentioning(nodes, {"kernel"}, {"lockup"})
      oom    == Mentioning(nodes, {"kernel"}, {"oom"})
      arg(claim, confidence) == Argument("kernel", claim, confidence)
  IN  CASE panic # <<>>                    -> arg({"kernel", "panic"} \union panic[1].label, 8500)
        [] panic = <<>> /\ lockup # <<>>   -> arg({"lockup"} \union lockup[1].label, 7500)
        [] panic \o lockup = <<>> /\ oom # <<>> -> arg({"kernel", "oom"} \union oom[1].label, 8000)
        [] OTHER ->
             IF From(nodes, {"ebpf"}) # <<>> THEN arg({}, 6000)
             ELSE IF From(nodes, {"kernel"}) # <<>> THEN arg({"kernel"}, 4000)
             ELSE arg({"kernel"}, 1000)

ApplicationInitial(nodes) ==
  LET apps    == {"application", "container"}
      heap    == Mentioning(nodes, apps, {"heap"})
      timeout == Mentioning(nodes, apps, {"timeout"})
      pool    == Mentioning(nodes, apps, {"connection"})
      errors  == SelectSeq(From(nodes, apps), LAMBDA n : n.severity \in {"error", "critical", "fatal"})
      arg(claim, confidence) == Argument("application", claim, confidence)
  IN  CASE heap # <<>>                     -> arg({"application", "oom"} \union heap[1].label, 8000)
        [] heap = <<>> /\ timeout # <<>>   -> arg({"application", "timeout"}, 7000)
        [] heap \o timeout = <<>> /\ pool # <<>> -> arg({"connection"} \union pool[1].label, 7500)
        [] OTHER -> arg({"application"}, IF errors # <<>> THEN 5000
                                         ELSE IF From(nodes, apps) # <<>> THEN 3000 ELSE 1000)

InfraInitial(nodes) ==
  LET infra == {"infra", "network", "storage"}
      link  == Mentioning(nodes, infra, {"link down"})
      disk  == Mentioning(nodes, infra, {"disk"})
      power == Mentioning(nodes, infra, {"power"})
      arg(claim, confidence) == Argument("infra", claim, confidence)
  IN  CASE link # <<>>                     -> arg({"infra"} \union link[1].label, 8500)
        [] link = <<>> /\ disk # <<>>      -> arg(disk[1].label, 8000)
        [] link \o disk = <<>> /\ power # <<>> -> arg(power[1].label, 7000)
        [] OTHER -> arg({"infra"}, IF From(nodes, infra) # <<>> THEN 3000 ELSE 1000)

\* The label quoted is that of the latest change.  In floating point 0.7 + 0.1
\* stays below 0.8, and with 0.15 more it is 0.95 again.
ChangeInitial(nodes) ==
  LET changes == ChangeNodes(nodes)
      says(words) == \E i \in changes : words \intersect nodes[i].text # {}
      kernel == says({"kernel", "driver"})
      rollback == says({"rollback"})
      top == nodes[CHOOSE i \in changes : \A j \in changes :
               nodes[i].time > nodes[j].time \/ (nodes[i].time = nodes[j].time /\ i <= j)]
  IN  IF changes = {} THEN Argument("change", {"change"}, 1000)
      ELSE Argument("change",
             {"change"} \union top.label \union (IF kernel THEN {"kernel"} ELSE {}),
             CASE kernel /\ rollback   -> 9500
               [] kernel /\ ~rollback  -> 8500
               [] ~kernel /\ rollback  -> 7999
               [] ~kernel /\ ~rollback -> 7000)

Initial(nodes) ==
  <<KernelInitial(nodes), ApplicationInitial(nodes), InfraInitial(nodes), ChangeInitial(nodes)>>

-----------------------------------------------------------------------------
Says(heard, word) == \E i \in DOMAIN heard : word \in heard[i].claim

KernelRebut(heard, nodes) ==
  IF Says(heard, "application") /\ From(nodes, {"kernel"}) # <<>>
  THEN Argument("kernel", {"kernel"}, 6600)
  ELSE Argument("kernel", {"kernel"}, 2700)

ApplicationRebut(heard, nodes) ==
  IF Says(heard, "kernel") /\ Mentioning(nodes, {"application"}, {"timeout"}) # <<>>
  THEN Argument("application", {"application", "kernel"}, 6300)
  ELSE Argument("application", {"application"}, 3400)

InfraRebut(heard, nodes) ==
  IF Says(heard, "change") /\ From(nodes, {"infra"}) # <<>>
  THEN Argument("infra", {"change", "infra", "fault"}, 5500)
  ELSE Argument("infra", {"infra"}, 2700)

ChangeRebut(heard, nodes) ==
  Argument("change", {"change"},
    IF ChangeNodes(nodes) = {} THEN 1500
    ELSE IF \E i \in DOMAIN heard : heard[i].confidence > 7000 THEN 6500 ELSE 5000)

Rebut(role, heard, nodes) ==
  CASE role = "kernel" -> KernelRebut(heard, nodes)
    [] role = "application" -> ApplicationRebut(heard, nodes)
    [] role = "infra" -> InfraRebut(heard, nodes)
    [] role = "change" -> ChangeRebut(heard, nodes)

Others(args, role) == SelectSeq(args, LAMBDA a : a.role # role)

\* Round 2 answers the initial arguments.
FirstRebuttals(initial, nodes) ==
  [i \in DOMAIN Roles |-> Rebut(Roles[i], Others(initial, Roles[i]), nodes)]

\* Every later round answers all rebuttals so far, those of the same round too.
LaterRebuttals(rebuttals, nodes) ==
  LET then(r, i) == Append(r, Rebut(Roles[i], Others(r, Roles[i]), nodes))
  IN  then(then(then(then(rebuttals, 1), 2), 3), 4)

NextRebuttals(initial, rebuttals, nodes) ==
  IF rebuttals = <<>> THEN FirstRebuttals(initial, nodes) ELSE LaterRebuttals(rebuttals, nodes)

-----------------------------------------------------------------------------
(* _resolve_verdict: the agents' last arguments decide. *)

Last4(initial, rebuttals) ==
  IF rebuttals = <<>> THEN initial ELSE SubSeq(rebuttals, Len(rebuttals) - 3, Len(rebuttals))

\* The agent with the highest confidence, the first of several.
Best(args) ==
  CHOOSE i \in DOMAIN args : \A j \in DOMAIN args :
    args[i].confidence > args[j].confidence \/ (args[i].confidence = args[j].confidence /\ i <= j)

IsConsensus(args) ==
  LET top == args[Best(args)].confidence
  IN  /\ Cardinality({i \in DOMAIN args : args[i].confidence = top}) = 1
      /\ 40 * top > 13 * FoldSeq(LAMBDA a, sum : sum + a.confidence, 0, args)

Verdict(initial, rebuttals) ==
  LET args == Last4(initial, rebuttals)
      best == args[Best(args)]
  IN  [claim |-> best.claim,
       confidence |-> IF IsConsensus(args) THEN best.confidence ELSE (best.confidence * 85) \div 100]

=============================================================================
