-------------------------- MODULE MCAnalysisPipeline --------------------------
(***************************************************************************)
(* Two crashes with one fingerprint, though one's stack is deeper and its  *)
(* hardware worse.  Commands that cover the two patch types, a threshold   *)
(* of zero, no round at all and --no-cache.                                *)
(* The LLM's objects: a sure and an unsure diagnosis, words that touch the *)
(* other agents' tests, a missing and an out-of-range confidence.          *)
(***************************************************************************)
EXTENDS AnalysisPipeline

CONSTANTS c1, c2

Frame(function, module) == [function |-> function, offset |-> 16, module |-> module]

TopFive == [i \in 1..5 |-> Frame("recurse", "nvme")]

MCDumpOf ==
  (c1 :> [frames |-> TopFive \o [i \in 1..6 |-> Frame("recurse", "nvme")], dmesg |-> {"BUG", "RIP:"},
          criticalErrors |-> 1, siblings |-> 0])
  @@ (c2 :> [frames |-> TopFive, dmesg |-> {"BUG"}, criticalErrors |-> 0, siblings |-> 7])

Command(crash, noCache, enablePatch, patchType, rounds, minConfidence) ==
  [crash |-> crash, noCache |-> noCache, enablePatch |-> enablePatch,
   patchType |-> patchType, rounds |-> rounds, minConfidence |-> Percent(minConfidence)]

MCCommands ==
  {Command(c1, FALSE, TRUE, "ebpf", 2, 60),
   Command(c2, FALSE, TRUE, "kpatch", 1, 60),
   Command(c1, TRUE, FALSE, "ebpf", 3, 60),
   Command(c2, FALSE, TRUE, "ebpf", 0, 0),
   Command(c2, FALSE, TRUE, "ebpf", 3, 50)}

MCPhase1Objects ==
  {[kind |-> "object", confidence |-> c, words |-> w] :
     <<c, w>> \in {<<Percent(90), {}>>, <<Percent(40), {"hardware", "change"}>>,
                   <<Unstated, {"change"}>>, <<Percent(150), {}>>}}

MCPhase2Objects ==
  {[kind |-> "object", top |-> t, words |-> w] :
     <<t, w>> \in {<<Percent(80), {}>>, <<Percent(20), {"hardware"}>>,
                   <<Unstated, {}>>, <<NoneFound, {}>>}}

===============================================================================
