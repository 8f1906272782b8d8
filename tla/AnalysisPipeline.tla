--------------------------- MODULE AnalysisPipeline ---------------------------
(***************************************************************************)
(* kcrash/core/pipeline.py: one analysis after the other over a shared     *)
(* cache, as the commands of kcrash/main.py and the handlers of            *)
(* kcrash/api/server.py run it.  A run goes through its stages in order;   *)
(* stages 3 to 7 catch every exception and leave a failed StageResult, so  *)
(* a run without an LLM still ends, and its report is cached like any      *)
(* other.                                                                  *)
(*                                                                         *)
(* The LLM answers a JSON object, another JSON value, or text, or every    *)
(* attempt fails because the service is down.  The cache (module           *)
(* AnalysisCache) shows here as entries that expire or are forgotten       *)
(* between runs and lookups and saves that may raise.                      *)
(***************************************************************************)
EXTENDS KernelDebate, Severity, PatchGeneration

CONSTANTS
  Crashes,        \* vmcore files
  DumpOf,         \* what each of them holds, see DumpType
  Commands,       \* options of a run, see CommandType
  Phase1Objects,  \* objects phase 1 may be answered with: confidence and words
  Phase2Objects,  \* objects phase 2 may be answered with: top candidate and words
  NoEntry         \* nothing cached under a key

\* The hardware errors and sibling crashes come with dumps that are JSON files.
DumpType ==
  [frames : Seq(FrameType), dmesg : SUBSET STRING, criticalErrors : Nat, siblings : Nat]

ASSUME DumpsAssumption == DumpOf \in [Crashes -> DumpType]

FingerprintOf(crash) == GenerateFingerprint(DumpOf[crash].frames, DumpOf[crash].dmesg)

Fingerprints == {FingerprintOf(c).hash : c \in Crashes}

\* The arguments of AnalysisPipeline.__init__ and run that steer a run.
CommandType ==
  [crash : Crashes, noCache : BOOLEAN, enablePatch : BOOLEAN,
   patchType : {"ebpf", "kpatch"}, rounds : Nat, minConfidence : 0..One]

ASSUME CommandsAssumption == Commands \subseteq CommandType
ASSUME AnswersAssumption ==
  /\ Phase1Objects \subseteq [kind : {"object"}, confidence : Nat \union {Unstated},
                              words : SUBSET {"hardware", "change"}]
  /\ Phase2Objects \subseteq [kind : {"object"}, top : Nat \union {Unstated, NoneFound},
                              words : SUBSET {"hardware", "change"}]

VARIABLES
  at,       \* the stage to run next; "done" between runs
  command,  \* the options of this run
  report,   \* the AnalysisReport
  stages,   \* self._stages: which stages ran, and which of them failed
  memory,   \* DebateMemory: the rounds of this run's debate
  store,    \* store[f]: what the cache answers for fingerprint f
  llmUp     \* environment: the LLM service answers

vars == <<at, command, report, stages, memory, store, llmUp>>

NoPhase == [kind |-> "none"]
NoAgent == ""

\* AnalysisReport's defaults.  severity is a level, 0 without one; rootCause is the agent whose claim it is; outage
\* is a history: an LLM phase of this analysis failed because of the service.
NewReport ==
  [status |-> "completed", severity |-> 0, phase1 |-> NoPhase, phase2 |-> NoPhase,
   hw |-> "none", rootCause |-> NoAgent, confidence |-> 0, verdictAgent |-> NoAgent,
   patch |-> "none", patchValid |-> FALSE, outage |-> FALSE]

Init ==
  /\ at = "done"
  /\ command \in Commands
  /\ report = NewReport
  /\ stages = <<>>
  /\ memory = <<>>
  /\ store = [f \in Fingerprints |-> NoEntry]
  /\ llmUp = TRUE

Fingerprint == FingerprintOf(command.crash).hash

\* self._stages.append(StageResult(name, ...)) and the stage that follows.
Stage(name, ok, next) ==
  /\ stages' = Append(stages, [name |-> name, ok |-> ok])
  /\ at' = next

-------------------------------------------------------------------------------
(* A run *)

Start ==
  /\ at = "done"
  /\ at' = "collect"
  /\ command' \in Commands
  /\ report' = NewReport
  /\ stages' = <<>>
  /\ memory' = <<>>
  /\ UNCHANGED <<store, llmUp>>

Collect ==
  /\ at = "collect"
  /\ Stage("collect", TRUE, "lookup")
  /\ UNCHANGED <<command, report, memory, store, llmUp>>

\* An unreadable vmcore: set_failed, and the run returns without caching.
CollectFails ==
  /\ at = "collect"
  /\ Stage("collect", FALSE, "done")
  /\ report' = [report EXCEPT !.status = "failed"]
  /\ UNCHANGED <<command, memory, store, llmUp>>

Usable_NeverExpires(f) == store[f] # NoEntry
Usable(f) == store[f] # NoEntry /\ ~store[f].expired

\* merge_cached: root cause, confidence and transcript.  The patch is looked
\* for under "patch_code", where to_dict never puts one.
LookupHit ==
  /\ at = "lookup"
  /\ Usable(Fingerprint)
  /\ report' = [report EXCEPT !.rootCause = store[Fingerprint].rootCause,
                              !.confidence = store[Fingerprint].confidence,
                              !.outage = store[Fingerprint].outage,
                              !.status = "cached"]
  /\ at' = "done"
  /\ UNCHANGED <<command, stages, memory, store, llmUp>>

LookupMiss ==
  /\ at = "lookup"
  /\ ~Usable(Fingerprint)
  /\ store' = [store EXCEPT ![Fingerprint] = NoEntry]
  /\ at' = "severity"
  /\ UNCHANGED <<command, report, stages, memory, llmUp>>

\* A torn file: the exception of json.load leaves run.
LookupRaises ==
  /\ at = "lookup"
  /\ Usable(Fingerprint)
  /\ report' = [report EXCEPT !.status = "raised"]
  /\ at' = "done"
  /\ UNCHANGED <<command, stages, memory, store, llmUp>>

\* Malformed hardware records in the dump make the assessment raise.
AssessSeverity ==
  /\ at = "severity"
  /\ \E ok \in BOOLEAN :
       /\ Stage("severity", ok, "phase1")
       /\ report' = [report EXCEPT !.severity =
            IF ok THEN AssessedLevel(FingerprintOf(command.crash), DumpOf[command.crash].criticalErrors,
                                     DumpOf[command.crash].siblings)
            ELSE 0]
  /\ UNCHANGED <<command, memory, store, llmUp>>

\* phase1_semantic_analysis: text that is no JSON becomes a parse-failure
\* result of confidence 0.1.  Any other JSON value is stored in the report
\* before `.get` raises on it.
Phase1Fallback == [kind |-> "fallback", confidence |-> Percent(10), words |-> {}]
Phase1Array    == [kind |-> "array"]

Phase1 ==
  /\ at = "phase1"
  /\ llmUp
  /\ \E answer \in Phase1Objects \union {Phase1Fallback, Phase1Array} :
       /\ report' = [report EXCEPT !.phase1 = answer]
       /\ Stage("phase1_semantic", answer # Phase1Array, "phase2")
  /\ UNCHANGED <<command, memory, store, llmUp>>

Phase1Fails ==
  /\ at = "phase1"
  /\ ~llmUp
  /\ report' = [report EXCEPT !.outage = TRUE]
  /\ Stage("phase1_semantic", FALSE, "phase2")
  /\ UNCHANGED <<command, memory, store, llmUp>>

\* phase2_history_correlation: text that is no JSON becomes one candidate of
\* probability 0.0; the collected hardware errors are added to the result.
Phase2Fallback == [kind |-> "fallback", top |-> 0, words |-> {}]

Phase2 ==
  /\ at = "phase2"
  /\ llmUp
  /\ \E answer \in Phase2Objects \union {Phase2Fallback}, hw \in {"none", "warning", "critical"} :
       report' = [report EXCEPT !.phase2 = answer, !.hw = hw]
  /\ Stage("phase2_correlation", TRUE, "debate")
  /\ UNCHANGED <<command, memory, store, llmUp>>

\* The LLM is down, or answers a JSON value that is no object: nothing of
\* phase 2 is kept, the hardware errors it had collected neither.
Phase2Fails ==
  /\ at = "phase2"
  /\ \E outage \in {~llmUp, FALSE} :
       /\ outage \/ llmUp
       /\ report' = [report EXCEPT !.outage = @ \/ outage]
  /\ Stage("phase2_correlation", FALSE, "debate")
  /\ UNCHANGED <<command, memory, store, llmUp>>

-------------------------------------------------------------------------------
(* Debate, patch and the end of a run *)

\* {**phase1_result, **phase2_result}
Context ==
  LET one == report.phase1
      two == report.phase2
  IN  [confidence  |-> IF one.kind = "none" THEN Unstated ELSE one.confidence,
       symbolWords |-> IF one.kind = "none" THEN {} ELSE one.words,
       top         |-> IF two.kind = "none" THEN NoneFound ELSE two.top,
       changeWords |-> IF two.kind = "none" THEN {} ELSE two.words,
       hw          |-> report.hw]

PatchWanted_AnyConfidence(confidence) == command.enablePatch
PatchWanted(confidence) == command.enablePatch /\ confidence >= command.minConfidence

\* A round of DebateModerator.conduct.
DebateRound ==
  /\ at = "debate"
  /\ Len(memory) < command.rounds
  /\ report.phase1.kind # "array"
  /\ LET round == NextRound(memory, Context)
     IN  /\ \A i \in DOMAIN round : Valid(round[i])
         /\ memory' = Append(memory, round)
  /\ UNCHANGED <<at, command, report, stages, store, llmUp>>

Resolve ==
  /\ at = "debate"
  /\ Len(memory) = command.rounds /\ memory # <<>>
  /\ LET verdict == Verdict(memory)
     IN  /\ report' = [report EXCEPT !.rootCause = verdict.agent,
                                     !.verdictAgent = verdict.agent,
                                     !.confidence = verdict.confidence]
         /\ Stage("debate", TRUE, IF PatchWanted(verdict.confidence) THEN "patch" ELSE "save")
  /\ UNCHANGED <<command, memory, store, llmUp>>

\* {**phase1_result, ...} of a list, an argument that is not valid, or no round
\* to take a maximum of: the stage fails, the report keeps its defaults.
DebateFails ==
  /\ at = "debate"
  /\ \/ report.phase1.kind = "array"
     \/ command.rounds = 0
     \/ /\ report.phase1.kind # "array" /\ Len(memory) < command.rounds
        /\ \E i \in 1..3 : ~Valid(NextRound(memory, Context)[i])
  /\ Stage("debate", FALSE, IF PatchWanted(0) THEN "patch" ELSE "save")
  /\ UNCHANGED <<command, report, memory, store, llmUp>>

\* The generator of the patch type, and the one syntax check for both.
Patch ==
  /\ at = "patch"
  /\ report.verdictAgent # NoAgent
  /\ \E code \in IF command.patchType = "kpatch" THEN KpatchGenerate(llmUp) ELSE EbpfGenerate(llmUp) :
       report' = [report EXCEPT !.patch = code.from, !.patchValid = SyntaxOk(code)]
  /\ Stage("patch_generation", TRUE, "save")
  /\ UNCHANGED <<command, memory, store, llmUp>>

\* A debate that failed left no verdict.  And looking for the function raises
\* over evidences that are no texts, or a claim that ends in "at ": both as the
\* LLM gave them.
PatchFails ==
  /\ at = "patch"
  /\ report.verdictAgent = NoAgent \/ "object" \in {report.phase1.kind, report.phase2.kind}
  /\ Stage("patch_generation", FALSE, "save")
  /\ UNCHANGED <<command, report, memory, store, llmUp>>

\* to_dict and cache.set.  Without a cache (--no-cache, the batch worker) the
\* pipeline makes one of its own, with ttl_seconds=0, over the same directory.
Save ==
  /\ at = "save"
  /\ store' = [store EXCEPT ![Fingerprint] =
       [rootCause |-> report.rootCause, confidence |-> report.confidence,
        outage |-> report.outage, expired |-> command.noCache]]
  /\ at' = "done"
  /\ UNCHANGED <<command, report, stages, memory, llmUp>>

\* The disk is full or the directory gone: run raises, the analysis is lost.
SaveRaises ==
  /\ at = "save"
  /\ report' = [report EXCEPT !.status = "raised"]
  /\ at' = "done"
  /\ UNCHANGED <<command, stages, memory, store, llmUp>>

-------------------------------------------------------------------------------
(* The environment *)

\* ttl_seconds have passed since the entry was made.
Expire(f) ==
  /\ store[f] # NoEntry
  /\ ~store[f].expired
  /\ store' = [store EXCEPT ![f].expired = TRUE]
  /\ UNCHANGED <<at, command, report, stages, memory, llmUp>>

\* The entry is evicted, or the cache is cleared.
Forget(f) ==
  /\ store[f] # NoEntry
  /\ store' = [store EXCEPT ![f] = NoEntry]
  /\ UNCHANGED <<at, command, report, stages, memory, llmUp>>

LLMChanges ==
  /\ llmUp' = ~llmUp
  /\ UNCHANGED <<at, command, report, stages, memory, store>>

Step ==
  \/ Collect \/ CollectFails
  \/ LookupHit \/ LookupMiss \/ LookupRaises
  \/ AssessSeverity \/ Phase1 \/ Phase1Fails \/ Phase2 \/ Phase2Fails
  \/ DebateRound \/ Resolve \/ DebateFails
  \/ Patch \/ PatchFails \/ Save \/ SaveRaises

Next ==
  \/ Start
  \/ Step
  \/ \E f \in Fingerprints : Expire(f) \/ Forget(f)
  \/ LLMChanges

\* Time passes, so entries expire; a started run goes on.
Fairness == WF_vars(Step) /\ \A f \in Fingerprints : WF_vars(Expire(f))

Spec == Init /\ [][Next]_vars /\ Fairness

-------------------------------------------------------------------------------
StageNames == {"collect", "severity", "phase1_semantic", "phase2_correlation",
               "debate", "patch_generation"}

Entry == [rootCause : AgentNames \union {NoAgent}, confidence : 0..One,
          outage : BOOLEAN, expired : BOOLEAN]

\* Type invariant: the report keeps the types its dataclass declares, and no
\* confidence outside 0.0 .. 1.0 of an LLM answer reaches it or the cache.
TypeOK ==
  /\ at \in {"done", "collect", "lookup", "severity", "phase1", "phase2", "debate",
             "patch", "save"}
  /\ command \in Commands
  /\ report.status \in {"completed", "failed", "cached", "raised"}
  /\ report.rootCause \in AgentNames \union {NoAgent}
  /\ report.confidence \in 0..One
  /\ report.patch \in {"none", "llm", "template"}
  /\ report.patchValid \in BOOLEAN /\ report.severity \in 0..CRITICAL
  /\ \A i \in DOMAIN stages : stages[i].name \in StageNames /\ stages[i].ok \in BOOLEAN
  /\ store \in [Fingerprints -> Entry \union {NoEntry}]
  /\ llmUp \in BOOLEAN

\* Under a threshold of 0.6 or more, the default, a patch is only ever generated
\* for a diagnosis with grounds: a phase the LLM answered with an object, or a
\* critical hardware error.  Verdicts over missing or unparsed phases stay below.
NoPatchWithoutGrounds ==
  (report.patch # "none" /\ command.minConfidence >= Percent(60)) =>
    \/ "object" \in {report.phase1.kind, report.phase2.kind}
    \/ report.hw = "critical"

\* An outage of the LLM during both phases does not fail the run: the debate
\* still ends in a verdict, the symbol agent's, with a confidence that no
\* default threshold accepts.
OutageVerdict ==
  (/\ at \in {"patch", "save"}
   /\ report.phase1.kind = "none" /\ report.phase2.kind = "none" /\ command.rounds > 0)
    => report.verdictAgent = "SymbolAgent" /\ report.confidence \in 1..Percent(59)

\* One round of rebuttals settles the debate: the agents say in round three what
\* they said in round two, and so in every later round.  More rounds than two
\* (--debate-rounds, up to 5 in the API) change neither verdict nor confidence.
RoundsSettle == Len(memory) >= 3 => memory[3] = memory[2]

\* A transient outage is not served for ever: once the LLM stays up, there is a
\* time after which no run answers from an analysis that the outage damaged.
HitDamaged == report.status # "cached" /\ report'.status = "cached" /\ report'.outage
OutageForgotten == <>[]llmUp => <>[][~HitDamaged]_vars

\* main.py:53: --no-cache is to "Disable analysis cache": such a run is never
\* answered from the cache.
NoCacheAnalyses == command.noCache => report.status # "cached"

===============================================================================
