----------------------- MODULE IncidentPipelineProofs -----------------------
(***************************************************************************)
(* Proofs about IncidentPipeline, for any events and changes, any number   *)
(* of rounds, calls and attempts, and crashes at any step: the knowledge   *)
(* base's files, the remediation plan, the debate, the causal graph and    *)
(* the clusters.                                                           *)
(***************************************************************************)
EXTENDS IncidentPipeline, FiniteSetTheorems, SequenceTheorems, WellFoundedInduction, TLAPS

-----------------------------------------------------------------------------
(* Facts about numbers, sequences and sets that the proofs below need. *)

\* A function on 1..n is a sequence of that length.
LEMMA FunctionIsSeq ==
  ASSUME NEW S, NEW n \in Nat, NEW f \in [1..n -> S]
  PROVE  f \in Seq(S) /\ Len(f) = n /\ DOMAIN f = 1..n
  <1>1. f \in Seq(S)
    BY SeqDef
  <1>2. Len(f) \in Nat /\ DOMAIN f = 1..Len(f)
    BY <1>1, LenProperties
  <1>3. QED
    BY <1>1, <1>2

-----------------------------------------------------------------------------
(***************************************************************************)
(* The knowledge base.                                                     *)
(*                                                                         *)
(* DiskKeepsUp looks at the files only.  What keeps the files in step with *)
(* each other is the memory they are written from: every entry's incident  *)
(* has its pattern there, also while only one of the files is written, and *)
(* a process starts from files that say nothing or does not start.         *)
(***************************************************************************)

\* Every entry of the set has its pattern among these.
Covered(es, ps) == \A e \in es : e.incident \in ps

\* The memory covers itself and, in a process that has files, the entries file.
MemoryCovers ==
  /\ Covered(entries, patterns)
  /\ pc \notin {"down", "load_failed"} => Covered(entriesFile.content, patterns)
  /\ pc = "learn_entry" => Signature \in patterns

\* A save that has written the patterns has not changed them since.
SaveInStep ==
  /\ saving \in {"saved", "open_patterns", "write_patterns", "open_entries", "write_entries"}
  /\ saving # "saved" => pc \in {"learn_entry", "done"}
  /\ saving \in {"open_entries", "write_entries"} => patternsFile = Written(patterns)
  /\ pc \in {"down", "load_failed"} => patterns = {}

KInv == MemoryCovers /\ SaveInStep /\ DiskKeepsUp

-----------------------------------------------------------------------------
\* A new knowledge base satisfies the inductive invariant.
LEMMA InitKInv == Init => KInv
  BY DEF Init, KBInit, KInv, MemoryCovers, SaveInStep, DiskKeepsUp, Covered, Absent, Torn, Written

\* Steps that leave the knowledge base and the graph alone preserve it, unless
\* they enter or leave a save, or take the process down.
LEMMA QuietKInv ==
  ASSUME KInv, UNCHANGED kb,
         pc' = pc \/ (saving = "saved" /\ pc' # "learn_entry" /\ pc \notin {"down", "load_failed"}
                      /\ pc' \notin {"down", "load_failed"}),
         pc' = "learn_entry" => nodes' = nodes
  PROVE  KInv'
  BY DEF kb, KInv, MemoryCovers, SaveInStep, DiskKeepsUp, Covered, Signature, Absent, Torn, Written

\* The steps of process_events that do not touch the knowledge base.
LEMMA PipelineKInv ==
  ASSUME KInv,
         Call \/ IngestEvent \/ BuildGraph \/ InitialArguments \/ RebuttalRound \/ MakePlan \/ Return
  PROVE  KInv'
  <1>1. UNCHANGED kb
    BY DEF Call, IngestEvent, BuildGraph, InitialArguments, RebuttalRound, MakePlan, Return
  <1>2. saving # "saved" => pc \in {"learn_entry", "done"}
    BY DEF KInv, SaveInStep
  <1>3. CASE IngestEvent
    <2>1. pc' = pc /\ pc = "ingest"
      BY <1>3 DEF IngestEvent
    <2>2. QED
      BY <1>1, <2>1, QuietKInv
  <1>4. CASE Call \/ BuildGraph \/ InitialArguments \/ RebuttalRound \/ MakePlan \/ Return
    <2>1. /\ pc \in {"idle", "ingest", "debate", "rebut", "verdict", "done"}
          /\ pc' \in {"ingest", "debate", "rebut", "verdict", "learn_pattern", "done", "idle"}
          /\ pc = "done" => saving = "saved"
      BY <1>4 DEF Call, BuildGraph, InitialArguments, RebuttalRound, MakePlan, Return, At
    <2>2. QED
      BY <1>1, <1>2, <2>1, QuietKInv
  <1>5. QED
    BY <1>3, <1>4

\* Verifying a plan and the clock.
LEMMA FixKInv ==
  ASSUME KInv, Fix \/ Tick
  PROVE  KInv'
  <1>1. UNCHANGED kb /\ pc \in {"done", "fix", "idle"} /\ pc' \in {"done", "fix", "idle"}
    BY DEF Fix, BeginFix, Attempt, EndFix, ClangTimesOut, Tick, At
  <1>2. pc = "done" => saving = "saved"
    BY DEF Fix, BeginFix, Attempt, EndFix, ClangTimesOut, Tick, At
  <1>3. saving = "saved"
    BY <1>1, <1>2 DEF KInv, SaveInStep
  <1>4. QED
    BY <1>1, <1>3, QuietKInv

-----------------------------------------------------------------------------
(* Learning *)

\* The incident's pattern is in memory before its entry is.
LEMMA LearnPatternKInv == KInv /\ LearnPattern => KInv'
  <1> SUFFICES ASSUME KInv, LearnPattern PROVE KInv'
    OBVIOUS
  <1>1. /\ pc' = "learn_entry" /\ patterns' = patterns \union {Signature} /\ saving' = "open_patterns"
        /\ UNCHANGED <<entries, patternsFile, entriesFile, nodes>> /\ pc = "learn_pattern"
    BY DEF LearnPattern, AddPattern, At, incident, graph
  <1>2. Signature' = Signature
    BY <1>1 DEF Signature
  <1>3. QED
    BY <1>1, <1>2 DEF KInv, MemoryCovers, SaveInStep, DiskKeepsUp, Covered

\* The entry that is added, or replaces one, is the incident's.
LEMMA LearnEntryKInv == KInv /\ LearnEntry => KInv'
  <1> SUFFICES ASSUME KInv, LearnEntry PROVE KInv'
    OBVIOUS
  <1>1. /\ pc = "learn_entry" /\ pc' = "done" /\ saving' = "open_patterns"
        /\ UNCHANGED <<patterns, patternsFile, entriesFile>>
        /\ \A e \in entries' : e \in entries \/ e.incident = Signature
    BY DEF LearnEntry, AddEntry, At
  <1>2. QED
    BY <1>1 DEF KInv, MemoryCovers, SaveInStep, DiskKeepsUp, Covered

\* Each file is written from the memory that covers the other one.
LEMMA SaveKInv == KInv /\ Save => KInv'
  <1> SUFFICES ASSUME KInv, Save PROVE KInv'
    OBVIOUS
  <1>1. /\ UNCHANGED <<patterns, entries, pc, nodes>> /\ pc \in {"learn_entry", "done"}
    BY DEF Save, SaveStep, incident, graph
  <1>2. Signature' = Signature
    BY <1>1 DEF Signature
  <1>3. CASE saving \in {"open_patterns", "open_entries"}
    BY <1>1, <1>2, <1>3 DEF Save, SaveStep, KInv, MemoryCovers, SaveInStep, DiskKeepsUp, Covered, Torn
  <1>4. CASE saving \in {"write_patterns", "write_entries"}
    BY <1>1, <1>2, <1>4 DEF Save, SaveStep, KInv, MemoryCovers, SaveInStep, DiskKeepsUp, Covered, Torn, Written
  <1>5. QED
    BY <1>3, <1>4 DEF Save, SaveStep

-----------------------------------------------------------------------------
(* Crash and restart *)

\* A crash leaves the files as they were, torn or in step with each other.
LEMMA CrashKInv == KInv /\ Crash => KInv'
  BY DEF Crash, KBLost, KInv, MemoryCovers, SaveInStep, DiskKeepsUp, Covered

\* What can be loaded has no pattern and therefore no entry either.
LEMMA RestartKInv == KInv /\ Restart => KInv'
  <1> SUFFICES ASSUME KInv, Restart PROVE KInv'
    OBVIOUS
  <1>1. Torn \notin {patternsFile, entriesFile} /\ patternsFile.content = {}
    BY DEF Restart, Load, CanLoad, Absent, Torn, Written
  <1>2. Covered(entriesFile.content, {})
    BY <1>1 DEF KInv, DiskKeepsUp, Covered
  <1>3. QED
    BY <1>2 DEF Restart, Load, At, KInv, MemoryCovers, SaveInStep, DiskKeepsUp, Covered

\* A process that does not start changes nothing.
LEMMA RestartFailsKInv == KInv /\ RestartFails => KInv'
  BY DEF RestartFails, At, kb, KInv, MemoryCovers, SaveInStep, DiskKeepsUp, Covered

\* Every step of the pipeline preserves the inductive invariant.
LEMMA NextKInv == KInv /\ [Next]_vars => KInv'
  <1> SUFFICES ASSUME KInv, [Next]_vars PROVE KInv'
    OBVIOUS
  <1>1. CASE Process
    BY <1>1, PipelineKInv, LearnPatternKInv, LearnEntryKInv, SaveKInv DEF Process
  <1>2. CASE Fix \/ Tick
    BY <1>2, FixKInv
  <1>3. CASE Crash \/ Restart \/ RestartFails
    BY <1>3, CrashKInv, RestartKInv, RestartFailsKInv
  <1>4. CASE UNCHANGED vars
    BY <1>4, QuietKInv DEF vars, incident, graph
  <1>5. QED
    BY <1>1, <1>2, <1>3, <1>4 DEF Next

-----------------------------------------------------------------------------
\* While no save runs the files hold what the memory holds, and whatever a
\* crash interrupts, an entry in an intact pair of files has its pattern there.
THEOREM DiskKeptUp == Spec => []DiskKeepsUp
  <1>1. KInv => DiskKeepsUp
    BY DEF KInv
  <1>2. QED
    BY <1>1, InitKInv, NextKInv, PTL DEF Spec

-----------------------------------------------------------------------------
(***************************************************************************)
(* The remediation plan, for any verdict and any outcomes of the sandbox.  *)
(*                                                                         *)
(* VerifiedCoversEbpf speaks of plans that are through or left behind.     *)
(* While a plan is being verified no attempt has passed yet, and its       *)
(* patch, if there is one, is its first step from the moment it is         *)
(* generated.                                                              *)
(***************************************************************************)

Plans ==
  [steps : Seq({"ebpf", "param", "ticket"}), results : Seq({"passed", "failed", "skipped"}),
   status : {"none", "generated", "verified", "failed_verification"}]

PatchFirst(steps) == \A i \in DOMAIN steps : steps[i] = "ebpf" => steps[1] = "ebpf"

NonePassed == \A i \in DOMAIN plan.results : plan.results[i] # "passed"

LastPassed ==
  /\ plan.results # <<>>
  /\ \A i \in DOMAIN plan.results : plan.results[i] = "passed" <=> i = Len(plan.results)

PInv ==
  /\ plan \in Plans
  /\ PatchFirst(plan.steps)
  /\ plan.status = "none" => plan = NoPlan
  /\ plan.status # "none" => plan.steps # <<>>
  /\ Len(plan.results) <= MaxIterations
  /\ plan.status \in {"none", "generated"} => NonePassed
  /\ plan.status = "verified" => LastPassed
  /\ plan.status = "failed_verification" => NonePassed /\ Len(plan.results) = MaxIterations
  /\ pc = "fix" => plan.status # "none"
  /\ plan.status = "generated" /\ pc # "fix" => plan.results = <<>> \/ CanRetry

-----------------------------------------------------------------------------
\* A sequence that starts with the patch still does with more steps behind it.
LEMMA FirstStays ==
  ASSUME NEW S, NEW s \in Seq(S), NEW t \in Seq(S), s # <<>>
  PROVE  s \o t \in Seq(S) /\ s \o t # <<>> /\ (s \o t)[1] = s[1]
  OBVIOUS

\* The steps for a verdict have the eBPF patch in front, or none.
LEMMA StepsPatchFirst ==
  ASSUME NEW claim
  PROVE  Steps(claim) \in Seq({"ebpf", "param", "ticket"}) /\ PatchFirst(Steps(claim))
  <1> DEFINE S == {"ebpf", "param", "ticket"}
             R == {"param", "ticket"}
             ebpf   == IF "fault" \in claim THEN <<"ebpf">> ELSE <<>>
             tuning == IF claim \intersect {"timeout", "connection"} # {} THEN <<"param", "param">> ELSE <<>>
             memory == IF "oom" \in claim THEN <<"param">> ELSE <<>>
             ticket == IF "link down" \in claim THEN <<"ticket">> ELSE <<>>
  <1>seq. /\ <<>> \in Seq(R) /\ <<>> \in Seq(S)
        /\ <<"param">> \in Seq(R) /\ <<"param">> \in Seq(S)
        /\ <<"ticket">> \in Seq(R) /\ <<"ticket">> \in Seq(S)
    OBVIOUS
  <1>pair. <<"param", "param">> \in Seq(R) /\ <<"param", "param">> \in Seq(S)
    OBVIOUS
  <1> HIDE DEF R, S
  <1>1. tuning \in Seq(R) /\ memory \in Seq(R) /\ ticket \in Seq(R)
    BY <1>seq, <1>pair
  <1>2. tuning \in Seq(S) /\ memory \in Seq(S) /\ ticket \in Seq(S)
    BY <1>seq, <1>pair
  <1>3. Steps(claim) = ((ebpf \o tuning) \o memory) \o ticket
    BY DEF Steps
  <1> HIDE DEF tuning, memory, ticket
  <1>4. CASE "fault" \in claim
    <2>1. ebpf \in Seq(S) /\ ebpf # <<>> /\ ebpf[1] = "ebpf"
      BY <1>4 DEF S
    <2>2. ebpf \o tuning \in Seq(S) /\ ebpf \o tuning # <<>> /\ (ebpf \o tuning)[1] = "ebpf"
      BY <2>1, <1>2, FirstStays
    <2> HIDE DEF ebpf
    <2>3. /\ (ebpf \o tuning) \o memory \in Seq(S)
          /\ (ebpf \o tuning) \o memory # <<>>
          /\ ((ebpf \o tuning) \o memory)[1] = "ebpf"
      BY <2>2, <1>2, FirstStays
    <2>4. Steps(claim) \in Seq(S) /\ Steps(claim)[1] = "ebpf"
      BY <2>3, <1>2, <1>3, FirstStays
    <2>5. QED
      BY <2>4 DEF PatchFirst, S
  <1>5. CASE "fault" \notin claim
    <2>1. ebpf \in Seq(R)
      BY <1>5
    <2>2. Steps(claim) \in Seq(R)
      BY <2>1, <1>1, <1>3
    <2>3. Steps(claim) \in Seq({"ebpf", "param", "ticket"}) /\ \A i \in DOMAIN Steps(claim) : Steps(claim)[i] # "ebpf"
      BY <2>2 DEF R
    <2>4. QED
      BY <2>3 DEF PatchFirst
  <1>6. QED
    BY <1>4, <1>5

-----------------------------------------------------------------------------
(* The invariant holds at the start and through every step. *)

\* Before the first call there is no plan.
LEMMA InitPInv == Init => PInv
  <1> SUFFICES ASSUME Init PROVE PInv
    OBVIOUS
  <1>1. /\ plan \in Plans
        /\ plan.steps = <<>> /\ plan.results = <<>> /\ plan.status = "none"
    BY DEF Init, NoPlan, Plans
  <1>2. QED
    BY <1>1, PipelineAssumption DEF Init, PInv, PatchFirst, NonePassed

\* A step that leaves the plan alone, and starts or ends no fix, preserves it.
LEMMA QuietPInv == PInv /\ UNCHANGED plan /\ (pc' = "fix" <=> pc = "fix") => PInv'
  BY DEF PInv, PatchFirst, NonePassed, LastPassed, CanRetry

\* Return and Crash drop the plan.
LEMMA ForgetPInv == PInv /\ plan' = NoPlan /\ pc' # "fix" => PInv'
  <1> SUFFICES ASSUME PInv, plan' = NoPlan, pc' # "fix" PROVE PInv'
    OBVIOUS
  <1>1. /\ plan' \in Plans
        /\ plan'.steps = <<>> /\ plan'.results = <<>> /\ plan'.status = "none"
    BY DEF NoPlan, Plans
  <1>2. QED
    BY <1>1, PipelineAssumption DEF PInv, PatchFirst, NonePassed

\* generate_plan puts the patch first, and begins with no results.
LEMMA MakePlanPInv == PInv /\ MakePlan => PInv'
  <1> SUFFICES ASSUME PInv, MakePlan PROVE PInv'
    OBVIOUS
  <1> DEFINE claim == CurrentVerdict.claim
  <1>1. pc' # "fix" /\ (plan' = NoPlan \/ plan' = NewPlan(claim))
    BY DEF MakePlan
  <1> HIDE DEF claim
  <1>2. CASE plan' = NoPlan
    BY <1>1, <1>2, ForgetPInv
  <1>3. CASE plan' = NewPlan(claim)
    <2>1. Steps(claim) \in Seq({"ebpf", "param", "ticket"}) /\ PatchFirst(Steps(claim))
      BY StepsPatchFirst
    <2> DEFINE steps == IF Steps(claim) = <<>> THEN <<"ticket">> ELSE Steps(claim)
    <2>0. <<"ticket">> \in Seq({"ebpf", "param", "ticket"}) /\ PatchFirst(<<"ticket">>)
      BY DEF PatchFirst
    <2>2. steps \in Seq({"ebpf", "param", "ticket"}) /\ steps # <<>> /\ PatchFirst(steps)
      BY <2>0, <2>1
    <2>3. plan' = [steps |-> steps, results |-> <<>>, status |-> "generated"]
      BY <1>3, Zenon DEF NewPlan
    <2> HIDE DEF steps
    <2>4. /\ plan'.steps = steps /\ plan'.results = <<>> /\ plan'.status = "generated"
          /\ plan' \in Plans
      BY <2>2, <2>3 DEF Plans
    <2>5. QED
      BY <1>1, <2>2, <2>3, <2>4, PipelineAssumption DEF PInv, NonePassed
  <1>4. QED
    BY <1>1, <1>2, <1>3

\* A plan that is still tried has no passed attempt yet: a verified one is
\* not tried again, a failed one has no attempts left.
LEMMA TriedIsUnverified ==
  ASSUME PInv, pc = "fix", CanRetry, ~IsVerified
  PROVE  plan.status = "generated" /\ NonePassed /\ plan.steps # <<>>
  <1>1. plan.status # "verified"
    BY DEF PInv, Plans, LastPassed, IsVerified
  <1>2. plan.status # "failed_verification"
    BY PipelineAssumption DEF PInv, Plans, CanRetry
  <1>3. QED
    BY <1>1, <1>2 DEF PInv, Plans

\* One more attempt, which may be the one that passes.
LEMMA AttemptPInv == PInv /\ Attempt => PInv'
  <1> SUFFICES ASSUME PInv, Attempt PROVE PInv'
    OBVIOUS
  <1>1. pc = "fix" /\ pc' = pc /\ CanRetry /\ ~IsVerified
    BY DEF Attempt
  <1>2. plan.status = "generated" /\ NonePassed /\ plan.steps # <<>>
    BY <1>1, TriedIsUnverified
  <1>3. PICK outcome \in Outcomes :
          plan' = [plan EXCEPT !.results = Append(plan.results, outcome),
                               !.status = IF outcome = "passed" THEN "verified" ELSE plan.status]
    BY Zenon DEF Attempt
  <1> DEFINE results == Append(plan.results, outcome)
             status  == IF outcome = "passed" THEN "verified" ELSE plan.status
  <1>4. outcome \in {"passed", "failed", "skipped"}
    <2>1. plan.steps[1] \in {"ebpf", "param", "ticket"}
      BY <1>2 DEF PInv, Plans
    <2>2. QED
      BY <1>3, <2>1 DEF Outcomes
  <1>5. /\ plan'.steps = plan.steps
        /\ plan'.results = Append(plan.results, outcome)
        /\ plan'.status = IF outcome = "passed" THEN "verified" ELSE "generated"
        /\ plan' \in Plans
    <2>1. results \in Seq({"passed", "failed", "skipped"})
      BY <1>4 DEF PInv, Plans
    <2>2. status = IF outcome = "passed" THEN "verified" ELSE "generated"
      BY <1>2
    <2>3. plan' = [plan EXCEPT !.results = results, !.status = status]
      BY <1>3
    <2> HIDE DEF results, status
    <2>4. plan' = [steps |-> plan.steps, results |-> results, status |-> status]
      BY <2>3 DEF PInv, Plans
    <2>5. plan'.steps = plan.steps /\ plan'.results = results /\ plan'.status = status
      BY <2>4
    <2>6. plan' \in Plans
      BY <2>1, <2>2, <2>4 DEF PInv, Plans
    <2>7. QED
      BY <2>2, <2>5, <2>6 DEF results
  <1>6. Len(plan'.results) = Len(plan.results) + 1 /\ Len(plan'.results) <= MaxIterations
    BY <1>1, <1>4, <1>5, PipelineAssumption DEF PInv, Plans, CanRetry
  <1>7. \A i \in DOMAIN plan'.results : plan'.results[i] = "passed" <=> i = Len(plan'.results) /\ outcome = "passed"
    BY <1>2, <1>4, <1>5 DEF PInv, Plans, NonePassed
  <1>8. CASE outcome = "passed"
    BY <1>1, <1>2, <1>5, <1>6, <1>7, <1>8 DEF PInv, PatchFirst, LastPassed, Plans
  <1>9. CASE outcome # "passed"
    BY <1>1, <1>2, <1>5, <1>6, <1>7, <1>9 DEF PInv, PatchFirst, NonePassed
  <1>10. QED
    BY <1>8, <1>9

\* The loop is left with a plan that passed or one that is out of attempts.
LEMMA EndFixPInv == PInv /\ EndFix => PInv'
  <1> SUFFICES ASSUME PInv, EndFix PROVE PInv'
    OBVIOUS
  <1>1. pc = "fix" /\ pc' = "done" /\ (~CanRetry \/ IsVerified)
    BY DEF EndFix, At
  <1>2. CASE IsVerified
    <2>1. plan' = plan
      BY <1>2 DEF EndFix
    <2>2. ~NonePassed
      BY <1>2 DEF IsVerified, NonePassed, PInv, Plans
    <2>3. QED
      BY <1>1, <2>1, <2>2 DEF PInv, PatchFirst, NonePassed, LastPassed
  <1>3. CASE ~IsVerified
    <2>1. plan' = [plan EXCEPT !.status = "failed_verification"]
      BY <1>3 DEF EndFix
    <2>2. /\ plan'.steps = plan.steps /\ plan'.results = plan.results
          /\ plan'.status = "failed_verification" /\ plan' \in Plans
      BY <2>1 DEF PInv, Plans
    <2>3. plan.status # "verified"
      BY <1>3 DEF PInv, Plans, LastPassed, IsVerified
    <2>4. NonePassed /\ plan.steps # <<>>
      BY <1>1, <2>3 DEF PInv, Plans
    <2>5. Len(plan.results) = MaxIterations
      BY <1>1, <1>3, PipelineAssumption DEF PInv, Plans, CanRetry
    <2>6. QED
      BY <1>1, <2>2, <2>4, <2>5 DEF PInv, PatchFirst, NonePassed
  <1>4. QED
    BY <1>2, <1>3

\* A caller who verifies has a plan, and a time-out leaves it as it was.
LEMMA FixPInv == PInv /\ Fix => PInv'
  <1> SUFFICES ASSUME PInv, Fix PROVE PInv'
    OBVIOUS
  <1>1. CASE BeginFix
    <2>1. plan' = plan /\ plan # NoPlan /\ pc' = "fix"
      BY <1>1 DEF BeginFix, At, incident
    <2>2. plan.status # "none"
      BY <2>1 DEF PInv
    <2>3. QED
      BY <2>1, <2>2 DEF PInv, PatchFirst, NonePassed, LastPassed
  <1>2. CASE ClangTimesOut
    <2>1. plan' = plan /\ CanRetry /\ pc' = "done"
      BY <1>2 DEF ClangTimesOut, At, incident
    <2>2. CanRetry'
      BY <2>1 DEF CanRetry
    <2>3. QED
      BY <2>1, <2>2 DEF PInv, PatchFirst, NonePassed, LastPassed
  <1>3. QED
    BY <1>1, <1>2, AttemptPInv, EndFixPInv DEF Fix

\* Every step of the pipeline preserves the inductive invariant.
LEMMA NextPInv == PInv /\ [Next]_vars => PInv'
  <1> SUFFICES ASSUME PInv, [Next]_vars PROVE PInv'
    OBVIOUS
  <1>1. CASE Call \/ IngestEvent \/ BuildGraph
    BY <1>1, QuietPInv DEF Call, IngestEvent, BuildGraph, At, incident
  <1>2. CASE InitialArguments \/ RebuttalRound
    BY <1>2, QuietPInv DEF InitialArguments, RebuttalRound, At
  <1>3. CASE LearnPattern \/ LearnEntry \/ Save \/ Tick
    BY <1>3, QuietPInv DEF LearnPattern, LearnEntry, Save, Tick, At, incident
  <1>4. CASE Return \/ Crash
    BY <1>4, ForgetPInv DEF Return, Crash, Forget, At
  <1>5. CASE Restart \/ RestartFails
    BY <1>5, QuietPInv DEF Restart, RestartFails, At, incident
  <1>6. CASE UNCHANGED vars
    BY <1>6, QuietPInv DEF vars, incident
  <1>7. QED
    BY <1>1, <1>2, <1>3, <1>4, <1>5, <1>6, MakePlanPInv, FixPInv DEF Next, Process

-----------------------------------------------------------------------------
\* A verified plan had its eBPF patch, if it has one, compiled by its last
\* attempt and by no earlier one; a failed one has used up its attempts, and one
\* that a time-out left behind can still be tried.
THEOREM VerifiedCovers == Spec => []VerifiedCoversEbpf
  <1>1. PInv => VerifiedCoversEbpf
    BY DEF PInv, PatchFirst, LastPassed, NonePassed, VerifiedCoversEbpf
  <1>2. QED
    BY <1>1, InitPInv, NextPInv, PTL DEF Spec

-----------------------------------------------------------------------------
(***************************************************************************)
(* The debate, for any graph and any number of rounds.                     *)
(*                                                                         *)
(* What a verdict may be follows from the last four arguments: one of each *)
(* agent, in the order of Roles.  A rebuttal is Mild whatever it answers.  *)
(***************************************************************************)
RoleNames == {"kernel", "application", "infra", "change"}

\* What a rebuttal can be: never surer than 0.66, and below that where it
\* mentions the word that calls for a patch.
Mild ==
  {a \in [role : RoleNames, claim : SUBSET (RoleNames \union {"fault"}), confidence : 0..6600] :
     "fault" \in a.claim => a.confidence <= 5500}

\* Four arguments with their turns in order.
InTurn(args) ==
  /\ DOMAIN args = 1..4
  /\ args[1].role = "kernel" /\ args[2].role = "application"
  /\ args[3].role = "infra" /\ args[4].role = "change"
  /\ \A i \in 1..4 : args[i].confidence \in Nat

\* Without a change to blame, the change agent is no surer than the others.
Blameless(args, ns) ==
  ChangeNodes(ns) = {} => \A i \in 1..3 : args[4].confidence <= args[i].confidence

LEMMA RolesInOrder ==
  DOMAIN Roles = 1..4 /\ Roles[1] = "kernel" /\ Roles[2] = "application" /\ Roles[3] = "infra" /\ Roles[4] = "change"
  BY DEF Roles

LEMMA MildNumbers ==
  ASSUME NEW a \in Mild
  PROVE  /\ a.confidence \in Nat /\ a.confidence <= 6600
         /\ a.claim \subseteq RoleNames \union {"fault"}
         /\ "fault" \in a.claim => a.confidence <= 5500
  <1>1. a \in [role : RoleNames, claim : SUBSET (RoleNames \union {"fault"}), confidence : 0..6600]
        /\ ("fault" \in a.claim => a.confidence <= 5500)
    BY DEF Mild
  <1>2. a.claim \in SUBSET (RoleNames \union {"fault"})
    BY <1>1
  <1> DEFINE c == a.confidence
  <1>0. c \in 0..6600
    BY <1>1
  <1> HIDE DEF c
  <1>3. a.claim \subseteq RoleNames \union {"fault"}
    BY <1>2
  <1>4. c \in Nat /\ c <= 6600
    BY <1>0
  <1>5. "fault" \in a.claim => a.confidence <= 5500
    BY <1>1
  <1>6. QED
    BY <1>3, <1>4, <1>5 DEF c

\* The agents' rebuttals, whatever they have heard.
LEMMA Rebuttals ==
  ASSUME NEW heard, NEW ns
  PROVE  /\ Rebut("kernel", heard, ns) \in Mild /\ Rebut("kernel", heard, ns).role = "kernel"
         /\ Rebut("application", heard, ns) \in Mild /\ Rebut("application", heard, ns).role = "application"
         /\ Rebut("infra", heard, ns) \in Mild /\ Rebut("infra", heard, ns).role = "infra"
         /\ Rebut("change", heard, ns) \in Mild /\ Rebut("change", heard, ns).role = "change"
         /\ \A role \in {"kernel", "application", "infra"} : Rebut(role, heard, ns).confidence >= 1500
         /\ ChangeNodes(ns) = {} => Rebut("change", heard, ns).confidence = 1500
  <1>1. /\ Rebut("kernel", heard, ns) = KernelRebut(heard, ns)
        /\ Rebut("application", heard, ns) = ApplicationRebut(heard, ns)
        /\ Rebut("infra", heard, ns) = InfraRebut(heard, ns)
        /\ Rebut("change", heard, ns) = ChangeRebut(heard, ns)
    BY DEF Rebut
  <1>2. /\ KernelRebut(heard, ns) \in Mild /\ KernelRebut(heard, ns).role = "kernel"
        /\ KernelRebut(heard, ns).confidence >= 1500
    BY DEF KernelRebut, Argument, Mild, RoleNames
  <1>3. /\ ApplicationRebut(heard, ns) \in Mild /\ ApplicationRebut(heard, ns).role = "application"
        /\ ApplicationRebut(heard, ns).confidence >= 1500
    BY DEF ApplicationRebut, Argument, Mild, RoleNames
  <1>4. /\ InfraRebut(heard, ns) \in Mild /\ InfraRebut(heard, ns).role = "infra"
        /\ InfraRebut(heard, ns).confidence >= 1500
    BY DEF InfraRebut, Argument, Mild, RoleNames
  <1>5. /\ ChangeRebut(heard, ns) \in Mild /\ ChangeRebut(heard, ns).role = "change"
        /\ ChangeNodes(ns) = {} => ChangeRebut(heard, ns).confidence = 1500
    BY DEF ChangeRebut, Argument, Mild, RoleNames
  <1>6. QED
    BY <1>1, <1>2, <1>3, <1>4, <1>5

\* A round adds four mild arguments, in turn.
LEMMA RoundInTurn ==
  ASSUME NEW initial, NEW rs \in Seq(Mild), NEW ns
  PROVE  LET next == NextRebuttals(initial, rs, ns)
             last == [i \in 1..4 |-> next[Len(rs) + i]]
         IN  /\ next \in Seq(Mild) /\ Len(next) = Len(rs) + 4
             /\ InTurn(last) /\ Blameless(last, ns)
  <1> DEFINE next == NextRebuttals(initial, rs, ns)
             last == [i \in 1..4 |-> next[Len(rs) + i]]
  <1> SUFFICES ASSUME NEW a1, NEW a2, NEW a3, NEW a4,
                      a1 \in Mild, a2 \in Mild, a3 \in Mild, a4 \in Mild,
                      a1.role = "kernel", a2.role = "application", a3.role = "infra", a4.role = "change",
                      a1.confidence >= 1500, a2.confidence >= 1500, a3.confidence >= 1500,
                      ChangeNodes(ns) = {} => a4.confidence = 1500,
                      next \in Seq(Mild), Len(next) = Len(rs) + 4,
                      next[Len(rs) + 1] = a1, next[Len(rs) + 2] = a2,
                      next[Len(rs) + 3] = a3, next[Len(rs) + 4] = a4
               PROVE  InTurn(last) /\ Blameless(last, ns)
    <2> DEFINE turn(i, heard) == Rebut(Roles[i], Others(heard, Roles[i]), ns)
    <2>1. \A heard : /\ turn(1, heard) \in Mild /\ turn(1, heard).role = "kernel" /\ turn(1, heard).confidence >= 1500
                     /\ turn(2, heard) \in Mild /\ turn(2, heard).role = "application" /\ turn(2, heard).confidence >= 1500
                     /\ turn(3, heard) \in Mild /\ turn(3, heard).role = "infra" /\ turn(3, heard).confidence >= 1500
                     /\ turn(4, heard) \in Mild /\ turn(4, heard).role = "change"
                     /\ ChangeNodes(ns) = {} => turn(4, heard).confidence = 1500
      BY Rebuttals, RolesInOrder
    <2>2. CASE rs = <<>>
      <3>1. next = [i \in 1..4 |-> turn(i, initial)]
        BY <2>2, RolesInOrder DEF NextRebuttals, FirstRebuttals
      <3> HIDE DEF turn
      <3>2. next \in Seq(Mild) /\ Len(next) = 4
        <4>1. \A i \in 1..4 : turn(i, initial) \in Mild
          <5>1. \A i \in 1..4 : i = 1 \/ i = 2 \/ i = 3 \/ i = 4
            OBVIOUS
          <5>2. QED
            BY <2>1, <5>1
        <4>2. next \in [1..4 -> Mild]
          BY <3>1, <4>1
        <4>3. QED
          BY <4>2, FunctionIsSeq
      <3>3. Len(rs) = 0
        BY <2>2
      <3>4. QED
        BY <2>1, <3>1, <3>2, <3>3
    <2>3. CASE rs # <<>>
      <3> DEFINE r1 == Append(rs, turn(1, rs))
                 r2 == Append(r1, turn(2, r1))
                 r3 == Append(r2, turn(3, r2))
                 r4 == Append(r3, turn(4, r3))
      <3>1. next = r4
        BY <2>3 DEF NextRebuttals, LaterRebuttals
      <3> HIDE DEF turn
      <3>2. r1 \in Seq(Mild) /\ Len(r1) = Len(rs) + 1 /\ r1[Len(rs) + 1] = turn(1, rs)
        BY <2>1, AppendProperties
      <3> HIDE DEF r1
      <3>3. /\ r2 \in Seq(Mild) /\ Len(r2) = Len(rs) + 2
            /\ r2[Len(rs) + 1] = turn(1, rs) /\ r2[Len(rs) + 2] = turn(2, r1)
        BY <2>1, <3>2, AppendProperties
      <3> HIDE DEF r2
      <3>4. /\ r3 \in Seq(Mild) /\ Len(r3) = Len(rs) + 3
            /\ r3[Len(rs) + 1] = turn(1, rs) /\ r3[Len(rs) + 2] = turn(2, r1) /\ r3[Len(rs) + 3] = turn(3, r2)
        BY <2>1, <3>3, AppendProperties
      <3> HIDE DEF r3
      <3>5. /\ r4 \in Seq(Mild) /\ Len(r4) = Len(rs) + 4
            /\ r4[Len(rs) + 1] = turn(1, rs) /\ r4[Len(rs) + 2] = turn(2, r1)
            /\ r4[Len(rs) + 3] = turn(3, r2) /\ r4[Len(rs) + 4] = turn(4, r3)
        BY <2>1, <3>4, AppendProperties
      <3> HIDE DEF r4
      <3>6. QED
        BY <2>1, <3>1, <3>5
    <2>4. QED
      BY <2>2, <2>3
  <1> HIDE DEF next
  <1>1. last[1] = a1 /\ last[2] = a2 /\ last[3] = a3 /\ last[4] = a4 /\ DOMAIN last = 1..4
    OBVIOUS
  <1> HIDE DEF last
  <1>2. InTurn(last)
    <2>1. \A i \in 1..4 : last[i] \in Mild
      <3>1. \A i \in 1..4 : i = 1 \/ i = 2 \/ i = 3 \/ i = 4
        OBVIOUS
      <3>2. QED
        BY <1>1, <3>1
    <2>2. \A i \in 1..4 : last[i].confidence \in Nat
      BY <2>1, MildNumbers
    <2>3. QED
      BY <1>1, <2>2 DEF InTurn
  <1>3. Blameless(last, ns)
    BY <1>1 DEF Blameless
  <1>4. QED
    BY <1>2, <1>3

\* The agents' initial arguments: without a change, the change agent has no
\* more than the least of the others.
LEMMA InitialInTurn ==
  ASSUME NEW ns
  PROVE  InTurn(Initial(ns)) /\ Blameless(Initial(ns), ns)
  <1> DEFINE k == KernelInitial(ns)
             a == ApplicationInitial(ns)
             f == InfraInitial(ns)
             c == ChangeInitial(ns)
  <1>1. k.role = "kernel" /\ k.confidence \in Nat /\ k.confidence >= 1000
    BY DEF KernelInitial, Argument
  <1>2. a.role = "application" /\ a.confidence \in Nat /\ a.confidence >= 1000
    BY DEF ApplicationInitial, Argument
  <1>3. f.role = "infra" /\ f.confidence \in Nat /\ f.confidence >= 1000
    BY DEF InfraInitial, Argument
  <1>4. /\ c.role = "change" /\ c.confidence \in Nat
        /\ ChangeNodes(ns) = {} => c.confidence = 1000
    BY DEF ChangeInitial, Argument
  <1>5. Initial(ns) = <<k, a, f, c>>
    BY DEF Initial
  <1> HIDE DEF k, a, f, c
  <1>6. /\ DOMAIN Initial(ns) = 1..4
        /\ Initial(ns)[1] = k /\ Initial(ns)[2] = a /\ Initial(ns)[3] = f /\ Initial(ns)[4] = c
    BY <1>5
  <1>7. \A i \in 1..4 : i = 1 \/ i = 2 \/ i = 3 \/ i = 4
    OBVIOUS
  <1>8. InTurn(Initial(ns))
    BY <1>1, <1>2, <1>3, <1>4, <1>6, <1>7 DEF InTurn
  <1>9. Blameless(Initial(ns), ns)
    BY <1>1, <1>2, <1>3, <1>4, <1>6 DEF Blameless
  <1>10. QED
    BY <1>8, <1>9

-----------------------------------------------------------------------------
(* The verdict *)

\* The best of four arguments is one of them, and none before it is as sure.
LEMMA BestOfFour ==
  ASSUME NEW args, InTurn(args)
  PROVE  /\ Best(args) \in 1..4
         /\ \A j \in 1..4 : \/ args[Best(args)].confidence > args[j].confidence
                            \/ (args[Best(args)].confidence = args[j].confidence /\ Best(args) <= j)
  <1> DEFINE better(i, j) == \/ args[i].confidence > args[j].confidence
                             \/ (args[i].confidence = args[j].confidence /\ i <= j)
  <1>1. \E i \in 1..4 : \A j \in 1..4 : better(i, j)
    <2>1. \A i \in 1..4 : i = 1 \/ i = 2 \/ i = 3 \/ i = 4
      OBVIOUS
    <2> DEFINE a == args[1].confidence
               b == args[2].confidence
               c == args[3].confidence
               d == args[4].confidence
    <2>2. a \in Nat /\ b \in Nat /\ c \in Nat /\ d \in Nat
      BY DEF InTurn
    <2>3. CASE a >= b /\ a >= c /\ a >= d
      <3>1. \A j \in 1..4 : better(1, j)
        BY <2>1, <2>2, <2>3
      <3>2. QED
        BY <3>1
    <2>4. CASE b > a /\ b >= c /\ b >= d
      <3>1. \A j \in 1..4 : better(2, j)
        BY <2>1, <2>2, <2>4
      <3>2. QED
        BY <3>1
    <2>5. CASE c > a /\ c > b /\ c >= d
      <3>1. \A j \in 1..4 : better(3, j)
        BY <2>1, <2>2, <2>5
      <3>2. QED
        BY <3>1
    <2>6. CASE d > a /\ d > b /\ d > c
      <3>1. \A j \in 1..4 : better(4, j)
        BY <2>1, <2>2, <2>6
      <3>2. QED
        BY <3>1
    <2> HIDE DEF a, b, c, d, better
    <2>7. QED
      BY <2>2, <2>3, <2>4, <2>5, <2>6
  <1>2. Best(args) = CHOOSE i \in 1..4 : \A j \in 1..4 : better(i, j)
    BY DEF Best, InTurn
  <1>3. Best(args) \in 1..4 /\ \A j \in 1..4 : better(Best(args), j)
    BY <1>1, <1>2
  <1>4. QED
    BY <1>3

\* Without a change to blame the verdict is not the change agent's.
LEMMA BlamelessVerdict ==
  ASSUME NEW args, NEW ns, InTurn(args), Blameless(args, ns), ChangeNodes(ns) = {}
  PROVE  args[Best(args)].role # "change"
  <1>1. Best(args) \in 1..4
    BY BestOfFour
  <1>2. Best(args) # 4
    <2>1. 3 \in 1..4 /\ args[3].confidence \in Nat /\ args[4].confidence \in Nat
          /\ args[4].confidence <= args[3].confidence
      BY DEF InTurn, Blameless
    <2>2. QED
      BY <2>1, BestOfFour
  <1>3. Best(args) = 1 \/ Best(args) = 2 \/ Best(args) = 3
    BY <1>1, <1>2
  <1>4. QED
    BY <1>3 DEF InTurn

\* The verdict has the best argument's words, and is at most as sure.
LEMMA VerdictOf ==
  ASSUME NEW initial, NEW rs, InTurn(Last4(initial, rs))
  PROVE  LET best == Last4(initial, rs)[Best(Last4(initial, rs))]
         IN  /\ Verdict(initial, rs).claim = best.claim
             /\ Verdict(initial, rs).confidence \in Nat
             /\ Verdict(initial, rs).confidence <= best.confidence
  <1> DEFINE args == Last4(initial, rs)
             best == args[Best(args)]
             c == best.confidence
  <1>1. c \in Nat
    BY BestOfFour DEF InTurn
  <1>2. /\ Verdict(initial, rs).claim = best.claim
        /\ Verdict(initial, rs).confidence = IF IsConsensus(args) THEN c ELSE (c * 85) \div 100
    BY DEF Verdict
  <1> HIDE DEF c
  <1>3. (c * 85) \div 100 \in Nat /\ (c * 85) \div 100 <= c
    BY <1>1
  <1>4. QED
    BY <1>1, <1>2, <1>3 DEF c

-----------------------------------------------------------------------------
(***************************************************************************)
(* The invariant of the debate.  Debating says what arguments there are at *)
(* each point; Modest what follows from them: with two rounds the process  *)
(* never comes to learn anything, so that it never saves, and its files    *)
(* never say anything that a restart could load.                           *)
(***************************************************************************)
Debating ==
  /\ rounds \in Nat
  /\ rebuttals \in Seq(Mild) /\ (rebuttals = <<>> \/ Len(rebuttals) >= 4)
  /\ pc \in {"idle", "ingest", "debate", "down", "load_failed"} => rebuttals = <<>>
  /\ pc = "verdict" /\ rounds >= 2 => rebuttals # <<>>
  /\ pc \in {"rebut", "verdict"} =>
       /\ InTurn(Last4(arguments, rebuttals))
       /\ Blameless(Last4(arguments, rebuttals), nodes)

Modest ==
  rounds >= 2 =>
    /\ patterns = {} /\ entries = {} /\ entriesFile = Absent /\ saving = "saved"
    /\ pc \notin {"learn_pattern", "learn_entry"}
    /\ MinConfidence > 5500 => plan.steps \in {<<>>, <<"ticket">>}

\* The last four of a longer sequence.
LEMMA LastFour ==
  ASSUME NEW rs \in Seq(Mild), Len(rs) >= 4, NEW initial
  PROVE  /\ Last4(initial, rs) = [i \in 1..4 |-> rs[Len(rs) - 4 + i]]
         /\ \A i \in 1..4 : Last4(initial, rs)[i] \in Mild
  <1> DEFINE n == Len(rs)
             last == SubSeq(rs, n - 3, n)
  <1>1. n \in Nat /\ n >= 4 /\ rs # <<>>
    BY LenProperties, EmptySeq
  <1>2. Last4(initial, rs) = last
    BY <1>1 DEF Last4
  <1>3. \A i \in (n - 3)..n : rs[i] \in Mild
    BY <1>1, ElementOfSeq
  <1> HIDE DEF n
  <1>4. /\ last \in Seq(Mild) /\ Len(last) = 4
        /\ \A i \in 1..4 : last[i] = rs[n - 4 + i]
    <2>1. n - 3 \in Int /\ n \in Int /\ n - 3 <= n /\ n - (n - 3) + 1 = 4
      BY <1>1
    <2>2. /\ last \in Seq(Mild) /\ Len(last) = n - (n - 3) + 1
          /\ \A i \in 1..(n - (n - 3) + 1) : last[i] = rs[(n - 3) + i - 1]
      BY <2>1, <1>3, SubSeqProperties
    <2>3. \A i \in 1..4 : (n - 3) + i - 1 = n - 4 + i
      BY <1>1
    <2>4. QED
      BY <2>1, <2>2, <2>3
  <1> HIDE DEF last
  <1>5. DOMAIN last = 1..4 /\ last = [i \in 1..4 |-> last[i]]
    BY <1>4, LenProperties
  <1>6. \A i \in 1..4 : last[i] \in Mild
    BY <1>4, ElementOfSeq
  <1>7. last = [i \in 1..4 |-> rs[n - 4 + i]]
    BY <1>4, <1>5
  <1>8. QED
    BY <1>2, <1>6, <1>7 DEF n

\* A round of rebuttals leaves the debate with four mild arguments in turn.
LEMMA RebuttalRoundDebates ==
  ASSUME Debating, RebuttalRound
  PROVE  Debating'
  <1> DEFINE next == NextRebuttals(arguments, rebuttals, nodes)
             n == Len(rebuttals)
  <1>1. /\ next \in Seq(Mild) /\ Len(next) = n + 4 /\ n \in Nat
        /\ InTurn([i \in 1..4 |-> next[n + i]])
        /\ Blameless([i \in 1..4 |-> next[n + i]], nodes)
    BY RoundInTurn, LenProperties DEF Debating
  <1>2. /\ rebuttals' = next /\ pc' \in {"rebut", "verdict"}
        /\ UNCHANGED <<rounds, arguments, nodes>>
    BY DEF RebuttalRound, graph
  <1> HIDE DEF next, n
  <1>3. Last4(arguments, next) = [i \in 1..4 |-> next[n + i]]
    <2>1. Last4(arguments, next) = [i \in 1..4 |-> next[Len(next) - 4 + i]]
      BY <1>1, LastFour
    <2>2. \A i \in 1..4 : Len(next) - 4 + i = n + i
      BY <1>1
    <2>3. QED
      BY <2>1, <2>2
  <1>4. next # <<>>
    BY <1>1, EmptySeq
  <1>5. Last4(arguments, rebuttals)' = Last4(arguments, next)
    BY <1>2
  <1>6. Blameless(Last4(arguments, rebuttals), nodes)' = Blameless(Last4(arguments, next), nodes)
    BY <1>2
  <1>7. QED
    BY <1>1, <1>2, <1>3, <1>4, <1>5, <1>6 DEF Debating

\* What is left of the debate in a step that takes no part in it.
LEMMA QuietDebating ==
  ASSUME Debating, UNCHANGED <<rounds, arguments, rebuttals, nodes>>,
         pc' \in {"rebut", "verdict"} => pc' = pc,
         pc' \in {"idle", "ingest", "debate", "down", "load_failed"} =>
           pc \in {"idle", "ingest", "debate", "down", "load_failed"}
  PROVE  Debating'
  BY DEF Debating, Blameless, ChangeNodes

\* Every step keeps the debate in order.
LEMMA NextDebating ==
  ASSUME Debating, [Next]_vars
  PROVE  Debating'
  <1>1. CASE InitialArguments
    <2>1. /\ arguments' = Initial(nodes) /\ UNCHANGED <<rounds, rebuttals, nodes>> /\ rebuttals = <<>>
          /\ pc' = IF rounds >= 2 THEN "rebut" ELSE "verdict"
      BY <1>1 DEF InitialArguments, At, graph, Debating
    <2>2. Last4(arguments, rebuttals)' = Initial(nodes)
      BY <2>1 DEF Last4
    <2>3. InTurn(Initial(nodes)) /\ Blameless(Initial(nodes), nodes)
      BY InitialInTurn
    <2>4. InTurn(Last4(arguments, rebuttals))' /\ Blameless(Last4(arguments, rebuttals), nodes)'
      BY <2>1, <2>2, <2>3
    <2>5. QED
      BY <2>1, <2>4 DEF Debating
  <1>2. CASE RebuttalRound
    BY <1>2, RebuttalRoundDebates
  <1>3. CASE Return \/ Crash
    <2>1. rebuttals' = <<>> /\ pc' \in {"idle", "down"} /\ rounds' = rounds
      BY <1>3 DEF Return, Crash, At, Forget
    <2>2. <<>> \in Seq(Mild)
      OBVIOUS
    <2>3. QED
      BY <2>1, <2>2 DEF Debating
  <1>4. CASE BuildGraph
    BY <1>4 DEF BuildGraph, At, Debating, debate
  <1>5. CASE Call \/ IngestEvent \/ MakePlan
    BY <1>5, QuietDebating DEF Call, IngestEvent, MakePlan, At, incident, graph, debate
  <1>6. CASE LearnPattern \/ LearnEntry \/ Save
    BY <1>6, QuietDebating DEF LearnPattern, LearnEntry, Save, At, incident, graph, debate
  <1>7. CASE Fix
    BY <1>7, QuietDebating DEF Fix, BeginFix, Attempt, EndFix, ClangTimesOut, At, incident, graph, debate
  <1>8. CASE Restart \/ RestartFails \/ Tick \/ UNCHANGED vars
    BY <1>8, QuietDebating DEF Restart, RestartFails, Tick, At, vars, incident, graph, debate
  <1>9. QED
    BY <1>1, <1>2, <1>3, <1>4, <1>5, <1>6, <1>7, <1>8 DEF Next, Process

\* A verdict over rebuttals teaches nothing, and calls for a patch only with a
\* confidence of 0.55 or less.
LEMMA MildVerdict ==
  ASSUME Debating, pc = "verdict", rounds >= 2
  PROVE  /\ ~Learns
         /\ MinConfidence > 5500 /\ CurrentVerdict.confidence >= MinConfidence =>
              Steps(CurrentVerdict.claim) = <<>>
  <1> DEFINE args == Last4(arguments, rebuttals)
             best == args[Best(args)]
  <1>1. rebuttals \in Seq(Mild) /\ Len(rebuttals) >= 4 /\ InTurn(args)
    BY DEF Debating
  <1>2. best \in Mild
    BY <1>1, LastFour, BestOfFour
  <1>3. /\ CurrentVerdict.claim = best.claim
        /\ CurrentVerdict.confidence \in Nat /\ CurrentVerdict.confidence <= best.confidence
    BY <1>1, VerdictOf DEF CurrentVerdict
  <1> HIDE DEF best
  <1>4. /\ best.confidence \in Nat /\ best.confidence <= 6600
        /\ best.claim \subseteq RoleNames \union {"fault"}
        /\ "fault" \in best.claim => best.confidence <= 5500
    BY <1>2, MildNumbers
  <1>words. best.claim \subseteq RoleNames \union {"fault"}
    BY <1>4
  <1>5. ~Learns
    BY <1>3, <1>4 DEF Learns
  <1>6. ASSUME MinConfidence > 5500, CurrentVerdict.confidence >= MinConfidence
        PROVE  Steps(CurrentVerdict.claim) = <<>>
    <2>1. "fault" \notin best.claim
      BY <1>3, <1>4, <1>6, PipelineAssumption
    <2>2. /\ best.claim \intersect {"timeout", "connection"} = {}
          /\ "oom" \notin best.claim /\ "link down" \notin best.claim
      <3>1. {"timeout", "connection", "oom", "link down"} \intersect (RoleNames \union {"fault"}) = {}
        BY DEF RoleNames
      <3>2. {"timeout", "connection", "oom", "link down"} \intersect best.claim = {}
        BY <1>words, <3>1, Zenon
      <3>3. QED
        BY <3>2
    <2>3. Steps(best.claim) = <<>> \o <<>> \o <<>> \o <<>>
      BY <2>1, <2>2 DEF Steps
    <2>4. <<>> \o <<>> = <<>>
      OBVIOUS
    <2>5. QED
      BY <1>3, <2>3, <2>4
  <1>7. QED
    BY <1>5, <1>6

\* With two rounds or more every step leaves it at that.
LEMMA NextModest ==
  ASSUME Modest, Debating, PInv, [Next]_vars
  PROVE  Modest'
  <1> SUFFICES ASSUME rounds >= 2 PROVE Modest'
    <2>1. rounds' = rounds
      BY DEF Next, Process, Fix, Call, IngestEvent, BuildGraph, InitialArguments, RebuttalRound, MakePlan,
             LearnPattern, LearnEntry, Save, Return, BeginFix, Attempt, EndFix, ClangTimesOut,
             Crash, Restart, RestartFails, Tick, vars
    <2>2. QED
      BY <2>1 DEF Modest
  <1>0. /\ patterns = {} /\ entries = {} /\ entriesFile = Absent /\ saving = "saved"
        /\ pc \notin {"learn_pattern", "learn_entry"}
        /\ MinConfidence > 5500 => plan.steps \in {<<>>, <<"ticket">>}
    BY DEF Modest
  <1>1. CASE MakePlan
    <2>1. ~Learns /\ (MinConfidence > 5500 /\ CurrentVerdict.confidence >= MinConfidence =>
                        Steps(CurrentVerdict.claim) = <<>>)
      BY <1>1, MildVerdict DEF MakePlan
    <2>2. pc' = "done" /\ UNCHANGED kb
      BY <1>1, <2>1 DEF MakePlan
    <2>3. MinConfidence > 5500 => plan'.steps \in {<<>>, <<"ticket">>}
      BY <1>1, <2>1 DEF MakePlan, NewPlan, NoPlan
    <2>4. QED
      BY <1>0, <2>2, <2>3 DEF Modest, kb
  <1>2. CASE Return \/ Crash
    BY <1>0, <1>2 DEF Return, Crash, At, Forget, NoPlan, KBLost, kb, Modest
  <1>3. CASE Restart
    BY <1>0, <1>3 DEF Restart, At, Load, Modest, incident, Absent
  <1>4. CASE LearnPattern \/ LearnEntry \/ Save
    BY <1>0, <1>4 DEF LearnPattern, LearnEntry, Save, SaveStep, At
  <1>5. CASE Attempt \/ EndFix
    <2>1. plan'.steps = plan.steps
      BY <1>5 DEF Attempt, EndFix, PInv, Plans
    <2>2. pc' \in {"fix", "done"} /\ UNCHANGED kb
      BY <1>5 DEF Attempt, EndFix, At
    <2>3. QED
      BY <1>0, <2>1, <2>2 DEF Modest, kb
  <1>6. CASE Call \/ IngestEvent \/ BuildGraph \/ InitialArguments \/ RebuttalRound
    BY <1>0, <1>6 DEF Call, IngestEvent, BuildGraph, InitialArguments, RebuttalRound, At, incident, kb, Modest
  <1>7. CASE BeginFix \/ ClangTimesOut \/ RestartFails \/ Tick \/ UNCHANGED vars
    BY <1>0, <1>7 DEF BeginFix, ClangTimesOut, RestartFails, Tick, vars, At, incident, kb, Modest
  <1>8. QED
    BY <1>1, <1>2, <1>3, <1>4, <1>5, <1>6, <1>7 DEF Next, Process, Fix

(* After a rebuttal the verdict is an agent's rebuttal: its confidence is  *)
(* below what learning takes, and its words call for no remedy unless the  *)
(* pipeline is told to act on the infrastructure agent's 0.55 or less      *)
(* (_resolve_verdict with the agents' rebut, and process_events).          *)
RebuttalsLeaveManualWork ==
  rounds >= 2 =>
    /\ MinConfidence > 5500 => plan.steps \in {<<>>, <<"ticket">>}
    /\ patterns = {} /\ entries = {}

\* That is why DocumentedResult fails, and it is no accident of small instances:
\* with two rounds or more, whatever the events and the changes, nothing is
\* learned and a plan holds no more than a ticket for manual investigation.
THEOREM RebuttalsOnlyOpenTickets == Spec => []RebuttalsLeaveManualWork
  <1>1. Init => Debating /\ Modest
    <2>1. <<>> \in Seq(Mild)
      OBVIOUS
    <2>2. QED
      BY <2>1, PipelineAssumption DEF Init, KBInit, Debating, Modest, NoPlan
  <1>2. (PInv /\ Debating /\ Modest) /\ [Next]_vars => (PInv /\ Debating /\ Modest)'
    BY NextPInv, NextDebating, NextModest
  <1>3. Modest => RebuttalsLeaveManualWork
    BY DEF Modest, RebuttalsLeaveManualWork
  <1>4. QED
    BY <1>1, <1>2, <1>3, InitPInv, PTL DEF Spec

-----------------------------------------------------------------------------
(***************************************************************************)
(* The causal graph.                                                       *)
(*                                                                         *)
(* Induction over numbers is used with sets in the place of predicates:    *)
(* the library's least-element theorem takes a set.                        *)
(***************************************************************************)
Below == {p \in Nat \X Nat : p[1] < p[2]}

LEMMA BelowWellFounded == IsWellFoundedOn(Below, Nat)
  <1>1. Below = OpToRel(<, Nat)
    BY Zenon DEF Below, OpToRel
  <1>2. QED
    BY <1>1, NatLessThanWellFounded, Zenon

\* A set of numbers has a least one.
LEMMA Least ==
  ASSUME NEW T, T \subseteq Nat, T # {}
  PROVE  \E m \in T : \A k \in T : m <= k
  <1>1. PICK m \in T : \A k \in T : ~(<<k, m>> \in Below)
    BY BelowWellFounded, WFMin, Zenon
  <1>2. \A k \in T : <<k, m>> \in Nat \X Nat
    OBVIOUS
  <1>3. \A k \in T : ~(k < m)
    BY <1>1, <1>2 DEF Below
  <1>4. QED
    BY <1>3

\* A set with 0, and with k + 1 for every k in it, has every number up to n.
LEMMA SetInduction ==
  ASSUME NEW T, NEW n \in Nat, 0 \in T, \A k \in 0..(n - 1) : k \in T => k + 1 \in T
  PROVE  0..n \subseteq T
  <1> DEFINE missing == {k \in 0..n : k \notin T}
  <1>1. SUFFICES ASSUME missing # {} PROVE FALSE
    OBVIOUS
  <1>0. missing \subseteq Nat
    OBVIOUS
  <1> HIDE DEF missing
  <1>2. PICK m \in missing : \A k \in missing : m <= k
    BY <1>0, <1>1, Least
  <1> USE DEF missing
  <1>3. m # 0 /\ m \in 0..n /\ m \notin T
    OBVIOUS
  <1>4. m - 1 \in 0..(n - 1) /\ (m - 1) + 1 = m /\ m - 1 \in 0..n
    BY <1>3
  <1>5. m - 1 \in T
    BY <1>2, <1>4
  <1>6. QED
    BY <1>3, <1>4, <1>5

\* Of finitely many numbers one is the greatest, the first of several.
LEMMA GreatestFirst ==
  ASSUME NEW n \in Nat \ {0}, NEW f \in [1..n -> Int]
  PROVE  \E i \in 1..n : \A j \in 1..n : f[i] > f[j] \/ (f[i] = f[j] /\ i <= j)
  <1> DEFINE better(i, j) == f[i] > f[j] \/ (f[i] = f[j] /\ i <= j)
             T == {k \in 0..n : k = 0 \/ \E i \in 1..k : \A j \in 1..k : better(i, j)}
  <1>1. 0 \in T
    OBVIOUS
  <1>2. ASSUME NEW k \in 0..(n - 1), k \in T PROVE k + 1 \in T
    <2>1. k + 1 \in 1..n /\ k + 1 \in 0..n
      OBVIOUS
    <2>2. CASE k = 0
      <3>1. \A j \in 1..1 : better(1, j)
        OBVIOUS
      <3>2. QED
        BY <2>1, <2>2, <3>1
    <2>3. CASE k # 0
      <3>1. PICK i \in 1..k : \A j \in 1..k : better(i, j)
        BY <1>2, <2>3
      <3>2. i \in 1..n /\ f[i] \in Int /\ f[k + 1] \in Int /\ i <= k + 1
        BY <2>1
      <3>3. \A j \in 1..(k + 1) : j \in 1..k \/ j = k + 1
        OBVIOUS
      <3>4. CASE f[i] >= f[k + 1]
        <4>1. better(i, k + 1)
          BY <3>2, <3>4
        <4>2. i \in 1..(k + 1) /\ \A j \in 1..(k + 1) : better(i, j)
          BY <3>1, <3>3, <4>1
        <4>3. QED
          BY <2>1, <4>2
      <3>5. CASE f[k + 1] > f[i]
        <4>1. \A j \in 1..k : f[j] \in Int
          BY <2>1
        <4>2. \A j \in 1..k : f[k + 1] > f[j]
          BY <3>1, <3>2, <3>5, <4>1
        <4>3. k + 1 \in 1..(k + 1) /\ \A j \in 1..(k + 1) : better(k + 1, j)
          BY <3>3, <4>2
        <4>4. QED
          BY <2>1, <4>3
      <3>6. QED
        BY <3>2, <3>4, <3>5
    <2>4. QED
      BY <2>2, <2>3
  <1> HIDE DEF T
  <1>3. 0..n \subseteq T
    BY <1>1, <1>2, SetInduction
  <1>4. n \in T
    BY <1>3
  <1>5. QED
    BY <1>4 DEF T

\* Whatever is left, something of it has nothing of lower rank left.
LEMMA LowestLeft ==
  ASSUME NEW n \in Nat, NEW rank \in [1..n -> Nat], NEW done, ~(1..n \subseteq done)
  PROVE  \E i \in (1..n) \ done : \A j \in 1..n : rank[j] < rank[i] => j \in done
  <1> DEFINE left == (1..n) \ done
             ranks == {rank[i] : i \in left}
  <1>0. ranks \subseteq Nat /\ ranks # {}
    OBVIOUS
  <1> HIDE DEF ranks
  <1>1. PICK r \in ranks : \A k \in ranks : r <= k
    BY <1>0, Least
  <1> USE DEF ranks
  <1>2. PICK i \in left : rank[i] = r
    OBVIOUS
  <1>3. \A j \in left : rank[i] <= rank[j] /\ rank[j] \in Nat /\ rank[i] \in Nat
    BY <1>1, <1>2
  <1>4. QED
    BY <1>3

-----------------------------------------------------------------------------
(* topological_order *)

\* Where every edge leads to a higher rank, the order misses no node.
LEMMA OrderMissesNone ==
  ASSUME NEW n \in Nat, NEW ns, DOMAIN ns = 1..n, Len(ns) = n, NEW es,
         NEW rank \in [1..n -> Nat],
         \A e \in es : e[1] \in 1..n /\ e[2] \in 1..n /\ rank[e[1]] < rank[e[2]]
  PROVE  Ordered(ns, es) = DOMAIN ns
  <1> DEFINE next(s) == {i \in 1..n : \A e \in Incoming(es, i) : e[1] \in s}
             step(g) == [k \in 0..n |-> IF k = 0 THEN {} ELSE next(g[k - 1])]
             reached == CHOOSE g : g = step(g)
  <1>1. Ordered(ns, es) = reached[n]
    BY DEF Ordered
  <1>2. \E g : g = step(g)
    <2> DEFINE upto(k, g) == g \in [0..k -> SUBSET (1..n)] /\ g[0] = {} /\ \A m \in 1..k : g[m] = next(g[m - 1])
               T == {k \in 0..n : \E g : upto(k, g)}
    <2>1. 0 \in T
      <3>1. upto(0, [k \in 0..0 |-> {}])
        OBVIOUS
      <3> HIDE DEF upto
      <3>2. QED
        BY <3>1
    <2>2. ASSUME NEW k \in 0..(n - 1), k \in T PROVE k + 1 \in T
      <3>1. PICK g : upto(k, g)
        BY <2>2
      <3> DEFINE h == [m \in 0..(k + 1) |-> IF m = k + 1 THEN next(g[k]) ELSE g[m]]
      <3>2. next(g[k]) \in SUBSET (1..n)
        OBVIOUS
      <3> HIDE DEF next
      <3>3. h \in [0..(k + 1) -> SUBSET (1..n)]
        BY <3>1, <3>2
      <3>4. h[0] = {}
        BY <3>1
      <3>5. \A m \in 1..(k + 1) : h[m] = next(h[m - 1])
        BY <3>1
      <3> HIDE DEF h
      <3>6. upto(k + 1, h) /\ k + 1 \in 0..n
        BY <3>3, <3>4, <3>5
      <3> HIDE DEF upto
      <3>7. QED
        BY <3>6
    <2> HIDE DEF T
    <2>3. 0..n \subseteq T
      BY <2>1, <2>2, SetInduction
    <2>4. PICK g : upto(n, g)
      <3>1. n \in T
        BY <2>3
      <3> HIDE DEF upto
      <3>2. QED
        BY <3>1 DEF T
    <2> HIDE DEF next
    <2>5. g = step(g)
      BY <2>4
    <2>6. QED
      BY <2>5
  <1>3. reached = step(reached)
    BY <1>2, Zenon
  <1> HIDE DEF reached, next
  <1>4. reached[0] = {} /\ \A k \in 0..(n - 1) : reached[k + 1] = next(reached[k])
    <2>1. reached[0] = {}
      BY <1>3
    <2>2. ASSUME NEW k \in 0..(n - 1) PROVE reached[k + 1] = next(reached[k])
      <3>1. k + 1 \in 0..n /\ k + 1 # 0 /\ (k + 1) - 1 = k
        OBVIOUS
      <3>2. QED
        BY <1>3, <3>1
    <2>3. QED
      BY <2>1, <2>2
  <1> DEFINE T == {k \in 0..n : /\ reached[k] \subseteq 1..n
                                /\ k < n => reached[k] \subseteq reached[k + 1]
                                /\ reached[k] = 1..n \/ Cardinality(reached[k]) >= k}
  <1>5. \A s, t : s \subseteq t => next(s) \subseteq next(t)
    BY DEF next
  <1>6. \A s : next(s) \subseteq 1..n
    BY DEF next
  <1>7. ASSUME NEW s, s \subseteq 1..n, s \subseteq next(s), s # 1..n
        PROVE  Cardinality(next(s)) >= Cardinality(s) + 1 /\ Cardinality(s) \in Nat
    <2>1. PICK i \in (1..n) \ s : \A j \in 1..n : rank[j] < rank[i] => j \in s
      BY <1>7, LowestLeft
    <2>2. i \in next(s)
      <3>1. \A e \in Incoming(es, i) : e[1] \in s
        BY <2>1 DEF Incoming
      <3>2. QED
        BY <2>1, <3>1 DEF next
    <2>3. IsFiniteSet(1..n)
      BY FS_Interval
    <2>4. IsFiniteSet(next(s)) /\ IsFiniteSet(s)
      BY <1>6, <1>7, <2>3, FS_Subset
    <2>5. s # next(s)
      BY <2>1, <2>2
    <2>6. /\ Cardinality(s) <= Cardinality(next(s)) /\ Cardinality(s) # Cardinality(next(s))
          /\ Cardinality(s) \in Nat /\ Cardinality(next(s)) \in Nat
      BY <1>7, <2>4, <2>5, FS_Subset, FS_CardinalityType
    <2>7. QED
      BY <2>6
  <1>8. 0 \in T
    <2>1. Cardinality({}) = 0
      BY FS_EmptySet
    <2>2. reached[0] \subseteq 1..n /\ reached[0] \subseteq reached[1] /\ Cardinality(reached[0]) >= 0
      BY <1>4, <2>1
    <2>3. 0 + 1 = 1 /\ 0 \in 0..n
      OBVIOUS
    <2>4. QED
      BY <2>2, <2>3
  <1>9. ASSUME NEW k \in 0..(n - 1), k \in T PROVE k + 1 \in T
    <2>1. reached[k] \subseteq 1..n /\ reached[k] \subseteq reached[k + 1] /\ reached[k + 1] = next(reached[k])
          /\ (reached[k] = 1..n \/ Cardinality(reached[k]) >= k)
      BY <1>4, <1>9
    <2>2. k + 1 < n => reached[k + 1] \subseteq reached[(k + 1) + 1]
      <3>1. SUFFICES ASSUME k + 1 < n PROVE reached[k + 1] \subseteq reached[(k + 1) + 1]
        OBVIOUS
      <3>2. k + 1 \in 0..(n - 1)
        BY <3>1
      <3>3. reached[(k + 1) + 1] = next(reached[k + 1])
        BY <1>4, <3>2
      <3>4. QED
        BY <1>5, <2>1, <3>3
    <2>3. reached[k + 1] \subseteq 1..n
      BY <1>6, <2>1
    <2>4. reached[k + 1] = 1..n \/ Cardinality(reached[k + 1]) >= k + 1
      <3>1. CASE reached[k] = 1..n
        BY <2>1, <2>3, <3>1
      <3>2. CASE reached[k] # 1..n
        <4>1. Cardinality(reached[k + 1]) >= Cardinality(reached[k]) + 1 /\ Cardinality(reached[k]) \in Nat
          BY <1>7, <2>1, <3>2
        <4>2. Cardinality(reached[k + 1]) \in Nat
          <5>1. IsFiniteSet(1..n)
            BY FS_Interval
          <5>2. IsFiniteSet(reached[k + 1])
            BY <2>3, <5>1, FS_Subset
          <5>3. QED
            BY <5>2, FS_CardinalityType
        <4>3. QED
          BY <2>1, <3>2, <4>1, <4>2
      <3>3. QED
        BY <3>1, <3>2
    <2>5. QED
      BY <2>2, <2>3, <2>4
  <1> HIDE DEF T
  <1>10. 0..n \subseteq T
    BY <1>8, <1>9, SetInduction
  <1>11. reached[n] \subseteq 1..n /\ (reached[n] = 1..n \/ Cardinality(reached[n]) >= n)
    <2>1. n \in T
      BY <1>10
    <2>2. QED
      BY <2>1 DEF T
  <1>12. reached[n] = 1..n
    <2>1. IsFiniteSet(1..n) /\ Cardinality(1..n) = n
      BY FS_Interval
    <2>2. Cardinality(reached[n]) <= n /\ (Cardinality(reached[n]) = n => reached[n] = 1..n)
      BY <1>11, <2>1, FS_Subset
    <2>3. Cardinality(reached[n]) \in Nat
      BY <1>11, <2>1, FS_Subset, FS_CardinalityType
    <2>4. QED
      BY <1>11, <2>2, <2>3
  <1>13. QED
    BY <1>1, <1>12

-----------------------------------------------------------------------------
(* build_from_correlations *)

\* What the graph is built of: clusters and changes, seen at positive times.
Buildable(cs, chs) ==
  /\ cs \in Seq(Range(cs)) /\ chs \in Seq(Range(chs))
  /\ \A i \in DOMAIN cs : cs[i].first \in Nat \ {0}
  /\ \A i \in DOMAIN chs : chs[i].time \in Nat \ {0}

\* The clusters come first, then the changes.
LEMMA NodesShape ==
  ASSUME NEW cs, NEW chs, Buildable(cs, chs)
  PROVE  LET ns == Nodes(cs, chs)
         IN  /\ Len(cs) \in Nat /\ Len(chs) \in Nat
             /\ DOMAIN cs = 1..Len(cs) /\ DOMAIN chs = 1..Len(chs)
             /\ DOMAIN ns = 1..(Len(cs) + Len(chs)) /\ Len(ns) = Len(cs) + Len(chs)
             /\ \A i \in 1..Len(cs) :
                  ns[i].kind = "event" /\ ns[i].time = cs[i].first
             /\ \A k \in 1..Len(chs) :
                  LET n == ns[Len(cs) + k]
                  IN  n.kind = "change" /\ n.time = chs[k].time /\ n.text = chs[k].description
             /\ \A i \in DOMAIN ns : ns[i].time \in Nat \ {0} /\ ns[i].kind \in {"event", "change"}
  <1> DEFINE ns == Nodes(cs, chs)
             m == Len(cs)
             n == Len(chs)
  <1>1. m \in Nat /\ n \in Nat /\ DOMAIN cs = 1..m /\ DOMAIN chs = 1..n
    BY LenProperties DEF Buildable
  <1> HIDE DEF m, n
  <1>2. ns = [i \in 1..(m + n) |-> IF i <= m THEN EventNode(cs[i]) ELSE ChangeNode(chs[i - m])]
    BY DEF Nodes, m, n
  <1> HIDE DEF ns
  <1>3. DOMAIN ns = 1..(m + n) /\ Len(ns) = m + n
    <2> DEFINE S == {ns[i] : i \in 1..(m + n)}
    <2>1. ns \in [1..(m + n) -> S] /\ m + n \in Nat
      BY <1>1, <1>2
    <2>2. QED
      BY <2>1, FunctionIsSeq
  <1>4. \A i \in 1..m : ns[i].kind = "event" /\ ns[i].time = cs[i].first
    <2> TAKE i \in 1..m
    <2>1. i \in 1..(m + n) /\ i <= m
      BY <1>1
    <2>2. ns[i] = EventNode(cs[i])
      BY <1>2, <2>1
    <2>3. QED
      BY <2>2 DEF EventNode
  <1>5. \A k \in 1..n :
          /\ ns[m + k].kind = "change" /\ ns[m + k].time = chs[k].time
          /\ ns[m + k].text = chs[k].description
    <2> TAKE k \in 1..n
    <2>1. m + k \in 1..(m + n) /\ ~(m + k <= m) /\ (m + k) - m = k
      BY <1>1
    <2>2. ns[m + k] = ChangeNode(chs[k])
      BY <1>2, <2>1
    <2>3. QED
      BY <2>2 DEF ChangeNode
  <1>6. ASSUME NEW i \in DOMAIN ns
        PROVE  ns[i].time \in Nat \ {0} /\ ns[i].kind \in {"event", "change"}
    <2>1. CASE i <= m
      <3>1. i \in 1..m
        BY <1>1, <1>3, <2>1
      <3>2. cs[i].first \in Nat \ {0}
        BY <1>1, <3>1 DEF Buildable
      <3>3. QED
        BY <1>4, <3>1, <3>2
    <2>2. CASE ~(i <= m)
      <3>1. i - m \in 1..n /\ m + (i - m) = i
        BY <1>1, <1>3, <2>2
      <3>2. chs[i - m].time \in Nat \ {0}
        BY <1>1, <3>1 DEF Buildable
      <3>3. QED
        BY <1>5, <3>1, <3>2
    <2>3. QED
      BY <2>1, <2>2
  <1>7. QED
    BY <1>1, <1>3, <1>4, <1>5, <1>6 DEF ns, m, n

\* A change whose words are its own is found as itself.
LEMMA FoundAsItself ==
  ASSUME NEW cs, NEW chs, Buildable(cs, chs), Distinguished(chs), NEW k \in 1..Len(chs)
  PROVE  FindChangeNode(Nodes(cs, chs), chs[k]) = Len(cs) + k
  <1> DEFINE ns == Nodes(cs, chs)
             m == Len(cs)
             n == Len(chs)
             found == {i \in DOMAIN ns : ns[i].kind = "change" /\ chs[k].description \subseteq ns[i].text}
  <1>1. /\ m \in Nat /\ n \in Nat /\ DOMAIN ns = 1..(m + n) /\ DOMAIN chs = 1..n
        /\ \A i \in 1..m : ns[i].kind = "event"
        /\ \A j \in 1..n : ns[m + j].kind = "change" /\ ns[m + j].text = chs[j].description
    BY NodesShape
  <1>2. k \in 1..n
    OBVIOUS
  <1>3. FindChangeNode(ns, chs[k]) = Min(found)
    BY DEF FindChangeNode
  <1> HIDE DEF ns, m, n
  <1>4. m + k \in Nat /\ m + k \in found
    <2>1. m + k \in 1..(m + n)
      BY <1>1, <1>2
    <2>2. QED
      BY <1>1, <1>2, <2>1
  <1>5. \A i \in found : i = m + k
    <2> TAKE i \in found
    <2>1. i \in 1..(m + n) /\ ns[i].kind = "change" /\ chs[k].description \subseteq ns[i].text
      BY <1>1
    <2>2. ~(i \in 1..m)
      BY <1>1, <2>1
    <2>3. i - m \in 1..n /\ i = m + (i - m)
      BY <1>1, <2>1, <2>2
    <2>4. chs[k].description \subseteq chs[i - m].description
      BY <1>1, <2>1, <2>3
    <2>5. i - m = k
      BY <1>1, <1>2, <2>3, <2>4 DEF Distinguished
    <2>6. QED
      BY <1>1, <2>3, <2>5
  <1> HIDE DEF found
  <1>6. found = {m + k}
    BY <1>4, <1>5
  <1>7. Min({m + k}) = m + k
    BY <1>4 DEF Min
  <1>8. QED
    BY <1>3, <1>6, <1>7 DEF ns, m

\* Every edge leads to a later node, or from a change to an event of its instant.
Rank(ns) == [i \in DOMAIN ns |-> 2 * ns[i].time + (IF ns[i].kind = "event" THEN 1 ELSE 0)]

LEMMA EdgesLeadOn ==
  ASSUME NEW cs, NEW chs, Buildable(cs, chs), Distinguished(chs)
  PROVE  LET ns == Nodes(cs, chs)
         IN  /\ Rank(ns) \in [DOMAIN ns -> Nat]
             /\ \A e \in Edges(ns, cs, chs) :
                  e[1] \in DOMAIN ns /\ e[2] \in DOMAIN ns /\ Rank(ns)[e[1]] < Rank(ns)[e[2]]
  <1> DEFINE ns == Nodes(cs, chs)
             m == Len(cs)
             n == Len(chs)
  <1>1. /\ m \in Nat /\ n \in Nat /\ DOMAIN ns = 1..(m + n) /\ DOMAIN chs = 1..n /\ DOMAIN cs = 1..m
        /\ \A i \in 1..m : ns[i].kind = "event" /\ ns[i].time = cs[i].first
        /\ \A k \in 1..n : ns[m + k].kind = "change" /\ ns[m + k].time = chs[k].time
        /\ \A i \in DOMAIN ns : ns[i].time \in Nat
    <2>1. m \in Nat /\ n \in Nat /\ DOMAIN ns = 1..(m + n) /\ DOMAIN chs = 1..n /\ DOMAIN cs = 1..m
      BY NodesShape
    <2>2. \A i \in 1..m : ns[i].kind = "event" /\ ns[i].time = cs[i].first
      BY NodesShape
    <2>3. \A k \in 1..n : ns[m + k].kind = "change" /\ ns[m + k].time = chs[k].time
      BY NodesShape
    <2>4. \A i \in DOMAIN ns : ns[i].time \in Nat \ {0}
      BY NodesShape
    <2>5. QED
      BY <2>1, <2>2, <2>3, <2>4
  <1>2. \A k \in 1..n : FindChangeNode(ns, chs[k]) = m + k
    BY FoundAsItself
  <1>3. Edges(ns, cs, chs) = TemporalEdges(ns) \union ChangeEdges(ns, cs, chs)
    BY DEF Edges
  <1> HIDE DEF ns, m, n
  <1>4. /\ Rank(ns) \in [DOMAIN ns -> Nat]
        /\ \A i \in DOMAIN ns : Rank(ns)[i] = 2 * ns[i].time + (IF ns[i].kind = "event" THEN 1 ELSE 0)
    BY <1>1 DEF Rank
  <1>5. ASSUME NEW e \in TemporalEdges(ns)
        PROVE  e[1] \in DOMAIN ns /\ e[2] \in DOMAIN ns /\ Rank(ns)[e[1]] < Rank(ns)[e[2]]
    <2>1. e[1] \in DOMAIN ns /\ e[2] \in DOMAIN ns /\ ns[e[2]].time > ns[e[1]].time
      BY DEF TemporalEdges, Linked, Precedes
    <2>2. ns[e[1]].time \in Nat /\ ns[e[2]].time \in Nat
      BY <1>1, <2>1
    <2>3. QED
      BY <1>4, <2>1, <2>2
  <1>6. ASSUME NEW e \in ChangeEdges(ns, cs, chs)
        PROVE  e[1] \in DOMAIN ns /\ e[2] \in DOMAIN ns /\ Rank(ns)[e[1]] < Rank(ns)[e[2]]
    <2>1. PICK k \in 1..n : e \in {<<FindChangeNode(ns, chs[k]), i>> : i \in {i \in DOMAIN cs : Impacts(chs[k], cs[i])}}
      BY <1>1 DEF ChangeEdges
    <2>2. PICK i \in 1..m : Impacts(chs[k], cs[i]) /\ e = <<m + k, i>>
      BY <1>1, <1>2, <2>1
    <2>3. m + k \in DOMAIN ns /\ i \in DOMAIN ns
      BY <1>1
    <2>4. ns[i].time >= ns[m + k].time /\ ns[i].kind = "event" /\ ns[m + k].kind = "change"
      BY <1>1, <2>2 DEF Impacts
    <2>5. ns[i].time \in Nat /\ ns[m + k].time \in Nat
      BY <1>1, <2>3
    <2>6. Rank(ns)[m + k] = 2 * ns[m + k].time /\ Rank(ns)[i] = 2 * ns[i].time + 1
      BY <1>4, <2>3, <2>4, <2>5
    <2>7. QED
      BY <2>2, <2>3, <2>4, <2>5, <2>6
  <1>7. QED
    BY <1>3, <1>4, <1>5, <1>6 DEF ns

-----------------------------------------------------------------------------
(* The root cause *)

\* The root cause is a node, the first of those with the greatest key.
LEMMA RootCauseIsGreatest ==
  ASSUME NEW n \in Nat \ {0}, NEW ns, DOMAIN ns = 1..n, \A i \in 1..n : ns[i].time \in Nat, NEW es
  PROVE  /\ RootCause(ns, es) \in 1..n
         /\ \A j \in 1..n : LET r == RootCause(ns, es)
                            IN  \/ Key(ns, es, r) > Key(ns, es, j)
                                \/ (Key(ns, es, r) = Key(ns, es, j) /\ r <= j)
  <1> DEFINE f == [i \in 1..n |-> Key(ns, es, i)]
             better(i, j) == \/ Key(ns, es, i) > Key(ns, es, j)
                             \/ (Key(ns, es, i) = Key(ns, es, j) /\ i <= j)
  <1>1. \A i \in 1..n : Key(ns, es, i) \in Int
    BY DEF Key
  <1>2. f \in [1..n -> Int]
    BY <1>1
  <1> HIDE DEF f
  <1>3. \E i \in 1..n : \A j \in 1..n : f[i] > f[j] \/ (f[i] = f[j] /\ i <= j)
    BY <1>2, GreatestFirst
  <1>4. \E i \in 1..n : \A j \in 1..n : better(i, j)
    BY <1>3 DEF f
  <1>5. RootCause(ns, es) = CHOOSE i \in 1..n : \A j \in 1..n : better(i, j)
    BY DEF RootCause
  <1>6. QED
    BY <1>4, <1>5

\* Marking the root cause leaves the nodes' places and times as they are, and so
\* the root cause is still the root cause.
LEMMA MarkedShape ==
  ASSUME NEW n \in Nat \ {0}, NEW ns, DOMAIN ns = 1..n, Len(ns) = n,
         \A i \in 1..n : ns[i].time \in Nat, NEW es
  PROVE  LET marked == Marked(ns, es)
             r == RootCause(ns, es)
         IN  /\ DOMAIN marked = 1..n /\ Len(marked) = n /\ RootCause(marked, es) = r
             /\ \A i \in 1..n : /\ marked[i].time = ns[i].time
                                /\ i # r => marked[i].kind = ns[i].kind
  <1> DEFINE marked == Marked(ns, es)
             r == RootCause(ns, es)
             q == RootCause(marked, es)
  <1>1. r \in 1..n
    BY RootCauseIsGreatest
  <1>2. ns # <<>>
    BY <1>1
  <1>3. marked = [ns EXCEPT ![r].kind = "root_cause"]
    BY <1>2 DEF Marked
  <1> HIDE DEF marked, r
  <1>4. /\ DOMAIN marked = 1..n
        /\ \A i \in 1..n : i # r => marked[i] = ns[i]
        /\ marked[r] = [ns[r] EXCEPT !.kind = "root_cause"]
    BY <1>1, <1>3
  <1>5. \A i \in 1..n : marked[i].time = ns[i].time
    <2>1. [ns[r] EXCEPT !.kind = "root_cause"].time = ns[r].time
      OBVIOUS
    <2>2. QED
      BY <1>4, <2>1
  <1>6. Len(marked) = n
    <2> DEFINE S == {marked[i] : i \in 1..n}
    <2>1. marked \in [1..n -> S]
      <3>1. marked = [i \in 1..n |-> marked[i]]
        BY <1>3, <1>4
      <3>2. QED
        BY <3>1
    <2>2. QED
      BY <2>1, FunctionIsSeq
  <1>7. \A i \in 1..n : Key(marked, es, i) = Key(ns, es, i)
    BY <1>5 DEF Key
  <1>8. q = r
    <2>1. /\ r \in 1..n
          /\ \A j \in 1..n : \/ Key(ns, es, r) > Key(ns, es, j)
                             \/ (Key(ns, es, r) = Key(ns, es, j) /\ r <= j)
      BY RootCauseIsGreatest DEF r
    <2>2. \A i \in 1..n : marked[i].time \in Nat
      BY <1>5
    <2>3. /\ q \in 1..n
          /\ \A j \in 1..n : \/ Key(marked, es, q) > Key(marked, es, j)
                             \/ (Key(marked, es, q) = Key(marked, es, j) /\ q <= j)
      BY <1>4, <2>2, RootCauseIsGreatest
    <2> HIDE DEF q
    <2>4. Key(ns, es, r) \in Int /\ Key(ns, es, q) \in Int
      BY <2>1, <2>3 DEF Key
    <2>5. QED
      BY <1>7, <2>1, <2>3, <2>4
  <1>9. QED
    BY <1>4, <1>5, <1>6, <1>8 DEF marked, r, q

-----------------------------------------------------------------------------
(* What BuildGraph makes of clusters and changes *)

LEMMA EmptyGraphOrdered ==
  ASSUME NEW ns, ns = <<>>
  PROVE  Ordered(ns, {}) = DOMAIN ns
  <1>1. DOMAIN ns = 1..0 /\ Len(ns) = 0 /\ [i \in 1..0 |-> 0] \in [1..0 -> Nat]
    OBVIOUS
  <1>2. QED
    BY <1>1, OrderMissesNone

\* With changes that are told apart, the order of the graph is complete and its
\* root cause a root.
LEMMA BuiltInOrder ==
  ASSUME NEW cs, NEW chs, Buildable(cs, chs), Distinguished(chs)
  PROVE  LET raw == Nodes(cs, chs)
             es == Edges(raw, cs, chs)
             ns == Marked(raw, es)
         IN  /\ Ordered(ns, es) = DOMAIN ns
             /\ \A i \in DOMAIN ns : ns[i].kind = "root_cause" => Incoming(es, i) = {}
  <1> DEFINE raw == Nodes(cs, chs)
             es == Edges(raw, cs, chs)
             ns == Marked(raw, es)
             n == Len(raw)
             r == RootCause(raw, es)
  <1>1. /\ n \in Nat /\ DOMAIN raw = 1..n
        /\ \A i \in 1..n : raw[i].time \in Nat \ {0} /\ raw[i].kind \in {"event", "change"}
    <2>1. /\ Len(cs) \in Nat /\ Len(chs) \in Nat
          /\ DOMAIN raw = 1..(Len(cs) + Len(chs)) /\ n = Len(cs) + Len(chs)
      BY NodesShape
    <2>2. \A i \in DOMAIN raw : raw[i].time \in Nat \ {0} /\ raw[i].kind \in {"event", "change"}
      BY NodesShape
    <2> HIDE DEF raw, n
    <2>3. QED
      BY <2>1, <2>2
  <1>2. /\ Rank(raw) \in [1..n -> Nat]
        /\ \A e \in es : e[1] \in 1..n /\ e[2] \in 1..n /\ Rank(raw)[e[1]] < Rank(raw)[e[2]]
    BY <1>1, EdgesLeadOn
  <1>len. Len(raw) = n
    OBVIOUS
  <1> HIDE DEF raw, es, n
  <1>3. CASE n = 0
    <2>1. raw = <<>>
      BY <1>1, <1>3
    <2>2. ns = <<>>
      BY <2>1 DEF Marked
    <2>3. es = {}
      BY <1>2, <1>3
    <2>4. QED
      BY <2>2, <2>3, EmptyGraphOrdered DEF raw, es
  <1>4. CASE n # 0
    <2>1. n \in Nat \ {0} /\ \A i \in 1..n : raw[i].time \in Nat
      BY <1>1, <1>4
    <2>2. /\ DOMAIN ns = 1..n /\ Len(ns) = n
          /\ \A i \in 1..n : i # r => ns[i].kind = raw[i].kind
      BY <1>1, <1>len, <2>1, MarkedShape
    <2>3. Ordered(ns, es) = DOMAIN ns
      BY <1>2, <2>1, <2>2, OrderMissesNone
    <2>4. /\ r \in 1..n
          /\ \A j \in 1..n : \/ Key(raw, es, r) > Key(raw, es, j)
                             \/ (Key(raw, es, r) = Key(raw, es, j) /\ r <= j)
      BY <1>1, <2>1, RootCauseIsGreatest
    <2> HIDE DEF r
    <2>5. Incoming(es, r) = {}
      <3> DEFINE rank == Rank(raw)
                 none == {}
      <3>1. PICK i \in (1..n) \ none : \A j \in 1..n : rank[j] < rank[i] => j \in none
        <4>1. ~(1..n \subseteq none) /\ rank \in [1..n -> Nat]
          BY <1>2, <2>1
        <4> HIDE DEF rank, none
        <4>2. QED
          BY <2>1, <4>1, LowestLeft
      <3>2. Incoming(es, i) = {}
        BY <1>2, <3>1 DEF Incoming
      <3>3. Key(raw, es, i) = raw[i].time /\ raw[i].time \in Nat \ {0}
        BY <1>1, <3>1, <3>2 DEF Key
      <3>4. Key(raw, es, r) > 0
        <4>1. Key(raw, es, r) \in Int
          BY <2>1, <2>4 DEF Key
        <4>2. QED
          BY <2>4, <3>1, <3>3, <4>1
      <3>5. QED
        BY <3>4 DEF Key
    <2>6. \A i \in DOMAIN ns : ns[i].kind = "root_cause" => i = r
      BY <1>1, <2>2
    <2>7. QED
      BY <2>3, <2>5, <2>6 DEF raw, es
  <1>5. QED
    BY <1>1, <1>3, <1>4

\* There is a node for each cluster and for each change.
LEMMA NodesCount ==
  ASSUME NEW cs, NEW chs, Buildable(cs, chs)
  PROVE  /\ Len(cs) \in Nat /\ DOMAIN Nodes(cs, chs) = 1..(Len(cs) + Len(chs))
         /\ Len(Nodes(cs, chs)) = Len(cs) + Len(chs)
         /\ \A i \in 1..Len(cs) : Nodes(cs, chs)[i].kind = "event"
  BY NodesShape

\* If the root cause is the only change, no node is a change any more.
LEMMA BuiltUnblamable ==
  ASSUME NEW cs, NEW chs, Buildable(cs, chs), Len(chs) = 1
  PROVE  LET raw == Nodes(cs, chs)
             es == Edges(raw, cs, chs)
             ns == Marked(raw, es)
         IN  RootCause(ns, es) = Len(ns) => ChangeNodes(ns) = {}
  <1> DEFINE raw == Nodes(cs, chs)
             es == Edges(raw, cs, chs)
             ns == Marked(raw, es)
             m == Len(cs)
             r == RootCause(raw, es)
  <1>1. /\ m \in Nat /\ DOMAIN raw = 1..(m + 1) /\ Len(raw) = m + 1
        /\ \A i \in 1..m : raw[i].kind = "event"
    <2>1. /\ m \in Nat /\ DOMAIN raw = 1..(m + Len(chs)) /\ Len(raw) = m + Len(chs)
          /\ \A i \in 1..m : raw[i].kind = "event"
      BY NodesCount, Zenon
    <2> HIDE DEF raw, m
    <2>2. QED
      BY <2>1
  <1>2. \A i \in DOMAIN raw : raw[i].time \in Nat \ {0}
    BY NodesShape
  <1> HIDE DEF raw, es, m
  <1>3. m + 1 \in Nat \ {0} /\ \A i \in 1..(m + 1) : raw[i].time \in Nat
    BY <1>1, <1>2
  <1>4. /\ DOMAIN ns = 1..(m + 1) /\ Len(ns) = m + 1 /\ RootCause(ns, es) = r
        /\ \A i \in 1..(m + 1) : i # r => ns[i].kind = raw[i].kind
    BY <1>1, <1>3, MarkedShape
  <1>5. r \in 1..(m + 1) /\ ns[r].kind = "root_cause"
    <2>1. r \in 1..(m + 1)
      BY <1>1, <1>3, RootCauseIsGreatest
    <2>2. raw # <<>>
      BY <1>1, <1>3
    <2>3. ns = [raw EXCEPT ![r].kind = "root_cause"]
      BY <2>2 DEF Marked
    <2> HIDE DEF r, ns
    <2>4. ns[r] = [raw[r] EXCEPT !.kind = "root_cause"]
      BY <1>1, <2>1, <2>3
    <2>5. QED
      BY <2>1, <2>4
  <1> HIDE DEF r, ns
  <1>6. ASSUME RootCause(ns, es) = Len(ns) PROVE ChangeNodes(ns) = {}
    <2>1. r = m + 1
      BY <1>4, <1>6
    <2>2. \A i \in 1..(m + 1) : ns[i].kind # "change"
      BY <1>1, <1>4, <1>5, <2>1
    <2>3. QED
      BY <1>4, <2>2 DEF ChangeNodes
  <1>7. QED
    BY <1>6 DEF ns, raw, es

-----------------------------------------------------------------------------
(***************************************************************************)
(* Clustering.                                                             *)
(*                                                                         *)
(* Tally(cs) has a member for every event that the clusters cs count.      *)
(***************************************************************************)
Cluster ==
  [template : {e.template : e \in Events}, count : Nat \ {0}, first : Nat \ {0}, last : Nat \ {0},
   hosts : SUBSET {e.host : e \in Events}, severity : {e.severity : e \in Events}]

Tally(cs) == UNION {{i} \X (1..cs[i].count) : i \in DOMAIN cs}

LEMMA ClusterFields ==
  ASSUME NEW c \in Cluster
  PROVE  /\ c.count \in Nat \ {0} /\ c.first \in Nat \ {0} /\ c.last \in Nat \ {0}
         /\ c.template \in {e.template : e \in Events}
  BY DEF Cluster

LEMMA UpTo ==
  ASSUME NEW n \in Nat
  PROVE  IsFiniteSet(1..n) /\ Cardinality(1..n) = n
  <1>1. 1 \in Int /\ n \in Int
    OBVIOUS
  <1>2. IsFiniteSet(1..n) /\ Cardinality(1..n) = IF 1 > n THEN 0 ELSE n - 1 + 1
    BY <1>1, FS_Interval
  <1>3. (IF 1 > n THEN 0 ELSE n - 1 + 1) = n
    OBVIOUS
  <1>4. QED
    BY <1>2, <1>3

\* The tally of a list of clusters numbers the events of each.
LEMMA InTally ==
  ASSUME NEW cs, NEW t
  PROVE  t \in Tally(cs) <=> \E i \in DOMAIN cs : \E k \in 1..cs[i].count : t = <<i, k>>
  BY DEF Tally

LEMMA TallyFinite ==
  ASSUME NEW cs \in Seq(Cluster)
  PROVE  IsFiniteSet(Tally(cs)) /\ Cardinality(Tally(cs)) \in Nat
  <1> DEFINE parts == {{i} \X (1..cs[i].count) : i \in DOMAIN cs}
             part == [i \in 1..Len(cs) |-> {i} \X (1..cs[i].count)]
  <1>1. Len(cs) \in Nat /\ DOMAIN cs = 1..Len(cs) /\ \A i \in 1..Len(cs) : cs[i] \in Cluster
    BY LenProperties, ElementOfSeq
  <1>2. IsFiniteSet(parts)
    <2>1. part \in Surjection(1..Len(cs), parts)
      BY <1>1 DEF Surjection
    <2>2. IsFiniteSet(1..Len(cs))
      BY <1>1, FS_Interval
    <2> HIDE DEF part, parts
    <2>3. QED
      BY <2>1, <2>2, FS_Surjection
  <1>3. \A p \in parts : IsFiniteSet(p)
    <2> TAKE p \in parts
    <2>1. PICK i \in 1..Len(cs) : p = {i} \X (1..cs[i].count)
      BY <1>1
    <2>2. IsFiniteSet({i})
      BY FS_Singleton
    <2>3. cs[i].count \in Nat
      BY <1>1, ClusterFields
    <2>4. IsFiniteSet(1..cs[i].count)
      BY <2>3, UpTo
    <2>5. QED
      BY <2>1, <2>2, <2>4, FS_Product
  <1>4. Tally(cs) = UNION parts
    BY DEF Tally
  <1> HIDE DEF parts
  <1>5. IsFiniteSet(Tally(cs))
    BY <1>2, <1>3, <1>4, FS_UNION
  <1>6. QED
    BY <1>5, FS_CardinalityType

\* One cluster more, with its events.
LEMMA TallyAppend ==
  ASSUME NEW cs \in Seq(Cluster), NEW c \in Cluster
  PROVE  Cardinality(Tally(Append(cs, c))) = Cardinality(Tally(cs)) + c.count
  <1> DEFINE n == Len(cs)
             all == Append(cs, c)
             new == {n + 1} \X (1..c.count)
             m == c.count
  <1>1. /\ n \in Nat /\ DOMAIN cs = 1..n /\ DOMAIN all = 1..(n + 1)
        /\ all[n + 1] = c /\ \A i \in 1..n : all[i] = cs[i]
    BY LenProperties, AppendProperties
  <1>2. m \in Nat
    BY ClusterFields
  <1>3. Cardinality(new) = m /\ IsFiniteSet(new)
    <2>1. IsFiniteSet({n + 1}) /\ Cardinality({n + 1}) = 1
      BY FS_Singleton
    <2>2. IsFiniteSet(1..m) /\ Cardinality(1..m) = m
      BY <1>2, UpTo
    <2> HIDE DEF m
    <2>3. Cardinality({n + 1} \X (1..m)) = 1 * m /\ IsFiniteSet({n + 1} \X (1..m))
      BY <2>1, <2>2, FS_Product
    <2>4. QED
      BY <1>2, <2>3 DEF m
  <1> HIDE DEF n, all, m, new
  <1>4. Tally(all) = Tally(cs) \union new
    <2>1. \A i \in 1..(n + 1) : i \in 1..n \/ i = n + 1
      BY <1>1
    <2>2. n + 1 \in 1..(n + 1) /\ \A i \in 1..n : i \in 1..(n + 1)
      BY <1>1
    <2>3. \A t : t \in Tally(all) <=> t \in Tally(cs) \/ t \in new
      <3> TAKE t
      <3>1. t \in Tally(all) <=> \E i \in 1..(n + 1) : \E k \in 1..all[i].count : t = <<i, k>>
        BY <1>1, InTally
      <3>2. t \in Tally(cs) <=> \E i \in 1..n : \E k \in 1..cs[i].count : t = <<i, k>>
        BY <1>1, InTally
      <3>3. t \in new <=> \E k \in 1..all[n + 1].count : t = <<n + 1, k>>
        BY <1>1 DEF new
      <3>4. QED
        BY <1>1, <2>1, <2>2, <3>1, <3>2, <3>3
    <2>4. QED
      BY <2>3
  <1>5. Tally(cs) \intersect new = {}
    <2>1. ASSUME NEW t, t \in Tally(cs), t \in new PROVE FALSE
      <3>1. PICK i \in 1..n : \E k \in 1..cs[i].count : t = <<i, k>>
        BY <1>1, <2>1, InTally
      <3>2. t[1] = i /\ t[1] = n + 1
        BY <2>1, <3>1 DEF new
      <3>3. QED
        BY <1>1, <3>1, <3>2
    <2>2. QED
      BY <2>1
  <1>6. Cardinality(Tally(cs) \union new) =
          Cardinality(Tally(cs)) + Cardinality(new) - Cardinality(Tally(cs) \intersect new)
    BY <1>3, TallyFinite, FS_Union
  <1>7. Cardinality({}) = 0
    BY FS_EmptySet
  <1>8. Cardinality(Tally(cs)) \in Nat
    BY TallyFinite
  <1> DEFINE before == Cardinality(Tally(cs))
             after == Cardinality(Tally(all))
  <1>9. before \in Nat
    BY <1>8
  <1>10. after = before + m - 0
    BY <1>3, <1>4, <1>5, <1>6, <1>7
  <1> HIDE DEF before, after
  <1>11. after = before + m
    BY <1>2, <1>9, <1>10
  <1>12. QED
    BY <1>11 DEF before, after, all, m

\* One event more in one of the clusters.
LEMMA TallyCount ==
  ASSUME NEW cs \in Seq(Cluster), NEW i \in DOMAIN cs, NEW c \in Cluster, c.count = cs[i].count + 1
  PROVE  Cardinality(Tally([cs EXCEPT ![i] = c])) = Cardinality(Tally(cs)) + 1
  <1> DEFINE n == Len(cs)
             ds == [cs EXCEPT ![i] = c]
             m == cs[i].count
             new == <<i, m + 1>>
  <1>1. n \in Nat /\ DOMAIN cs = 1..n /\ cs[i] \in Cluster
    BY LenProperties, ElementOfSeq
  <1>2. m \in Nat
    BY <1>1, ClusterFields
  <1>3. DOMAIN ds = DOMAIN cs /\ ds[i] = c /\ \A j \in DOMAIN cs : j # i => ds[j] = cs[j]
    BY <1>1
  <1>4. ds[i].count = m + 1
    BY <1>3
  <1> HIDE DEF ds, m
  <1>5. Tally(ds) = Tally(cs) \union {new}
    <2>1. \A k : k \in 1..(m + 1) <=> k \in 1..m \/ k = m + 1
      BY <1>2
    <2>2. \A t : t \in Tally(ds) <=> t \in Tally(cs) \/ t = new
      <3> TAKE t
      <3>1. t \in Tally(ds) <=> \E j \in DOMAIN cs : \E k \in 1..ds[j].count : t = <<j, k>>
        BY <1>3, InTally
      <3>2. t \in Tally(cs) <=> \E j \in DOMAIN cs : \E k \in 1..cs[j].count : t = <<j, k>>
        BY InTally
      <3>3. \A j \in DOMAIN cs : j # i =>
              ((\E k \in 1..ds[j].count : t = <<j, k>>) <=> (\E k \in 1..cs[j].count : t = <<j, k>>))
        BY <1>3
      <3>4. (\E k \in 1..ds[i].count : t = <<i, k>>) <=> (\E k \in 1..cs[i].count : t = <<i, k>>) \/ t = new
        BY <1>4, <2>1 DEF m
      <3>5. QED
        BY <3>1, <3>2, <3>3, <3>4
    <2>3. QED
      BY <2>2
  <1>6. new \notin Tally(cs)
    <2>1. SUFFICES ASSUME new \in Tally(cs) PROVE FALSE
      OBVIOUS
    <2>2. PICK j \in DOMAIN cs : \E k \in 1..cs[j].count : new = <<j, k>>
      BY <2>1, InTally
    <2>3. j = i /\ m + 1 \in 1..m
      BY <2>2 DEF m
    <2>4. QED
      BY <1>2, <2>3
  <1>7. Cardinality(Tally(cs) \union {new}) = Cardinality(Tally(cs)) + 1
    BY <1>6, TallyFinite, FS_AddElement
  <1>8. QED
    BY <1>5, <1>7 DEF ds

-----------------------------------------------------------------------------
(* Eviction *)

LEMMA RemoveAtShape ==
  ASSUME NEW S, NEW s \in Seq(S), NEW k \in 1..Len(s)
  PROVE  /\ RemoveAt(s, k) \in Seq(S) /\ Len(RemoveAt(s, k)) = Len(s) - 1
         /\ DOMAIN RemoveAt(s, k) = 1..(Len(s) - 1)
         /\ \A i \in 1..(Len(s) - 1) : RemoveAt(s, k)[i] = IF i < k THEN s[i] ELSE s[i + 1]
  <1> DEFINE n == Len(s)
             before == SubSeq(s, 1, k - 1)
             after == SubSeq(s, k + 1, n)
  <1>1. n \in Nat /\ k \in 1..n /\ \A i \in 1..n : s[i] \in S
    BY LenProperties, ElementOfSeq
  <1>len. n = Len(s)
    OBVIOUS
  <1> HIDE DEF n
  <1>2. /\ before \in Seq(S) /\ Len(before) = k - 1
        /\ \A i \in 1..(k - 1) : before[i] = s[i]
    <2>1. 1 \in Int /\ k - 1 \in Int /\ \A i \in 1..(k - 1) : s[i] \in S
      BY <1>1
    <2>2. /\ before \in Seq(S) /\ Len(before) = IF 1 <= k - 1 THEN (k - 1) - 1 + 1 ELSE 0
          /\ \A i \in 1..((k - 1) - 1 + 1) : before[i] = s[1 + i - 1]
      BY <2>1, SubSeqProperties
    <2> HIDE DEF before
    <2>3. \A i \in 1..(k - 1) : i \in 1..((k - 1) - 1 + 1) /\ 1 + i - 1 = i
      BY <1>1
    <2>4. (IF 1 <= k - 1 THEN (k - 1) - 1 + 1 ELSE 0) = k - 1
      BY <1>1
    <2>5. QED
      BY <2>2, <2>3, <2>4
  <1>3. /\ after \in Seq(S) /\ Len(after) = n - k
        /\ \A i \in 1..(n - k) : after[i] = s[k + i]
    <2>1. k + 1 \in Int /\ n \in Int /\ \A i \in (k + 1)..n : s[i] \in S
      BY <1>1
    <2>2. /\ after \in Seq(S) /\ Len(after) = IF k + 1 <= n THEN n - (k + 1) + 1 ELSE 0
          /\ \A i \in 1..(n - (k + 1) + 1) : after[i] = s[(k + 1) + i - 1]
      BY <2>1, SubSeqProperties
    <2> HIDE DEF after
    <2>3. \A i \in 1..(n - k) : i \in 1..(n - (k + 1) + 1) /\ (k + 1) + i - 1 = k + i
      BY <1>1
    <2>4. (IF k + 1 <= n THEN n - (k + 1) + 1 ELSE 0) = n - k
      BY <1>1
    <2>5. QED
      BY <2>2, <2>3, <2>4
  <1>4. RemoveAt(s, k) = before \o after
    BY DEF RemoveAt, n
  <1> HIDE DEF before, after
  <1>5. /\ before \o after \in Seq(S) /\ Len(before \o after) = n - 1
        /\ \A i \in 1..(n - 1) : (before \o after)[i] = IF i <= k - 1 THEN before[i] ELSE after[i - (k - 1)]
    <2>1. (k - 1) + (n - k) = n - 1
      BY <1>1
    <2>2. /\ before \o after \in Seq(S) /\ Len(before \o after) = Len(before) + Len(after)
          /\ \A i \in 1..(Len(before) + Len(after)) :
               (before \o after)[i] = IF i <= Len(before) THEN before[i] ELSE after[i - Len(before)]
      BY <1>2, <1>3, ConcatProperties
    <2>3. Len(before) + Len(after) = n - 1
      BY <1>2, <1>3, <2>1
    <2>4. QED
      BY <1>2, <2>2, <2>3
  <1>6. DOMAIN (before \o after) = 1..(n - 1)
    BY <1>5, LenProperties
  <1>7. \A i \in 1..(n - 1) : (before \o after)[i] = IF i < k THEN s[i] ELSE s[i + 1]
    <2> TAKE i \in 1..(n - 1)
    <2>1. CASE i < k
      <3>1. i \in 1..(k - 1) /\ i <= k - 1
        BY <1>1, <2>1
      <3>2. QED
        BY <1>2, <1>5, <2>1, <3>1
    <2>2. CASE ~(i < k)
      <3>1. i - (k - 1) \in 1..(n - k) /\ ~(i <= k - 1) /\ k + (i - (k - 1)) = i + 1
        BY <1>1, <2>2
      <3>2. QED
        BY <1>3, <1>5, <2>2, <3>1
    <2>3. QED
      BY <2>1, <2>2
  <1>8. QED
    BY <1>4, <1>5, <1>6, <1>7, <1>len

\* A cluster that goes takes its events along, and no others.
LEMMA TallyRemove ==
  ASSUME NEW cs \in Seq(Cluster), NEW k \in DOMAIN cs
  PROVE  Cardinality(Tally(RemoveAt(cs, k))) + cs[k].count = Cardinality(Tally(cs))
  <1> DEFINE n == Len(cs)
             rs == RemoveAt(cs, k)
             m == cs[k].count
             part == {k} \X (1..m)
             rest == Tally(cs) \ part
             old(i) == IF i < k THEN i ELSE i + 1
             moved == [t \in Tally(rs) |-> <<old(t[1]), t[2]>>]
  <1>1. n \in Nat /\ DOMAIN cs = 1..n /\ k \in 1..n /\ cs[k] \in Cluster
    BY LenProperties, ElementOfSeq
  <1>2. m \in Nat
    BY <1>1, ClusterFields
  <1>3. rs \in Seq(Cluster) /\ DOMAIN rs = 1..(n - 1) /\ \A i \in 1..(n - 1) : rs[i] = cs[old(i)]
    <2>1. /\ RemoveAt(cs, k) \in Seq(Cluster) /\ DOMAIN RemoveAt(cs, k) = 1..(Len(cs) - 1)
          /\ \A i \in 1..(Len(cs) - 1) : RemoveAt(cs, k)[i] = IF i < k THEN cs[i] ELSE cs[i + 1]
      BY <1>1, RemoveAtShape
    <2> HIDE DEF rs
    <2>2. QED
      BY <2>1 DEF rs
  <1>4. Cardinality(part) = m /\ IsFiniteSet(part)
    <2>1. IsFiniteSet({k}) /\ Cardinality({k}) = 1
      BY FS_Singleton
    <2>2. IsFiniteSet(1..m) /\ Cardinality(1..m) = m
      BY <1>2, UpTo
    <2> HIDE DEF m
    <2>3. Cardinality({k} \X (1..m)) = 1 * m /\ IsFiniteSet({k} \X (1..m))
      BY <2>1, <2>2, FS_Product
    <2>4. QED
      BY <1>2, <2>3 DEF m
  <1>5. part \subseteq Tally(cs)
    BY DEF Tally
  <1>6. \A t : t \in rest <=> \E i \in 1..n : i # k /\ \E j \in 1..cs[i].count : t = <<i, j>>
    <2> TAKE t
    <2>1. t \in Tally(cs) <=> \E i \in 1..n : \E j \in 1..cs[i].count : t = <<i, j>>
      BY <1>1, InTally
    <2>2. t \in part <=> \E j \in 1..cs[k].count : t = <<k, j>>
      OBVIOUS
    <2> HIDE DEF part, m
    <2>3. QED
      BY <2>1, <2>2
  <1> HIDE DEF n, rs, m, part, rest
  <1>7. moved \in Bijection(Tally(rs), rest)
    <2>1. \A i \in 1..(n - 1) : old(i) \in 1..n /\ old(i) # k
      BY <1>1
    <2>2. \A i, j \in 1..(n - 1) : old(i) = old(j) => i = j
      BY <1>1
    <2>3. \A i \in 1..n : i # k => \E j \in 1..(n - 1) : old(j) = i
      <3> TAKE i \in 1..n
      <3>1. CASE i < k
        BY <1>1, <3>1
      <3>2. CASE i > k
        <4>1. i - 1 \in 1..(n - 1) /\ old(i - 1) = i
          BY <1>1, <3>2
        <4>2. QED
          BY <4>1
      <3>3. QED
        BY <1>1, <3>1, <3>2
    <2> HIDE DEF old
    <2>4. \A t \in Tally(rs) : \E i \in 1..(n - 1) : \E j \in 1..cs[old(i)].count :
            t = <<i, j>> /\ t[1] = i /\ t[2] = j /\ moved[t] = <<old(i), j>>
      <3> TAKE t \in Tally(rs)
      <3>0. \E i \in DOMAIN rs : \E j \in 1..rs[i].count : t = <<i, j>>
        BY InTally
      <3>1. PICK i \in 1..(n - 1) : \E j \in 1..rs[i].count : t = <<i, j>>
        BY <1>3, <3>0
      <3>2. PICK j \in 1..rs[i].count : t = <<i, j>>
        BY <3>1
      <3>3. t[1] = i /\ t[2] = j
        BY <3>2
      <3>4. j \in 1..cs[old(i)].count
        BY <1>3, <3>2
      <3>5. QED
        BY <3>2, <3>3, <3>4
    <2>5. \A t \in Tally(rs) : moved[t] \in rest
      BY <1>6, <2>1, <2>4
    <2>6. \A t, u \in Tally(rs) : moved[t] = moved[u] => t = u
      <3> TAKE t, u \in Tally(rs)
      <3> HAVE moved[t] = moved[u]
      <3>1. t[1] \in 1..(n - 1) /\ t = <<t[1], t[2]>> /\ moved[t] = <<old(t[1]), t[2]>>
        BY <2>4
      <3>2. u[1] \in 1..(n - 1) /\ u = <<u[1], u[2]>> /\ moved[u] = <<old(u[1]), u[2]>>
        BY <2>4
      <3>3. old(t[1]) = old(u[1]) /\ t[2] = u[2]
        BY <3>1, <3>2
      <3>4. t[1] = u[1]
        BY <2>2, <3>1, <3>2, <3>3
      <3>5. QED
        BY <3>1, <3>2, <3>3, <3>4
    <2>7. \A u \in rest : \E t \in Tally(rs) : moved[t] = u
      <3> TAKE u \in rest
      <3>1. PICK i \in 1..n : i # k /\ \E j \in 1..cs[i].count : u = <<i, j>>
        BY <1>6
      <3>2. PICK j \in 1..cs[i].count : u = <<i, j>>
        BY <3>1
      <3>3. PICK h \in 1..(n - 1) : old(h) = i
        BY <2>3, <3>1
      <3>4. rs[h] = cs[i]
        BY <1>3, <3>3
      <3>5. <<h, j>> \in Tally(rs)
        BY <1>3, <3>2, <3>4, InTally
      <3>6. moved[<<h, j>>] = <<old(h), j>>
        BY <3>5
      <3>7. QED
        BY <3>2, <3>3, <3>5, <3>6
    <2> HIDE DEF moved
    <2>8. moved \in [Tally(rs) -> rest]
      BY <2>5 DEF moved
    <2>9. moved \in Injection(Tally(rs), rest)
      BY <2>6, <2>8 DEF Injection, IsInjective
    <2>10. moved \in Surjection(Tally(rs), rest)
      BY <2>7, <2>8 DEF Surjection
    <2>11. QED
      BY <2>9, <2>10 DEF Bijection
  <1> HIDE DEF moved
  <1>8. Cardinality(rest) = Cardinality(Tally(rs)) /\ Cardinality(Tally(rs)) \in Nat /\ IsFiniteSet(rest)
    <2>1. IsFiniteSet(Tally(rs)) /\ Cardinality(Tally(rs)) \in Nat
      BY <1>3, TallyFinite
    <2>2. ExistsBijection(Tally(rs), rest)
      BY <1>7 DEF ExistsBijection
    <2>3. QED
      BY <2>1, <2>2, FS_Bijection
  <1>9. Cardinality(rest \union part) = Cardinality(rest) + Cardinality(part) - Cardinality(rest \intersect part)
    BY <1>4, <1>8, FS_Union
  <1>10. rest \union part = Tally(cs) /\ rest \intersect part = {}
    BY <1>5 DEF rest
  <1>11. Cardinality({}) = 0
    BY FS_EmptySet
  <1> DEFINE before == Cardinality(Tally(cs))
             after == Cardinality(Tally(rs))
  <1>12. after \in Nat /\ before = after + m - 0
    BY <1>4, <1>8, <1>9, <1>10, <1>11
  <1> HIDE DEF before, after
  <1>13. after + m = before
    BY <1>2, <1>12
  <1>14. QED
    BY <1>13 DEF before, after, rs, m

\* The cluster that goes is one of them.
LEMMA StalestIsOne ==
  ASSUME NEW cs \in Seq(Cluster), cs # <<>>
  PROVE  Stalest(cs) \in DOMAIN cs
  <1> DEFINE n == Len(cs)
             age == [i \in 1..n |-> 0 - cs[i].last]
             oldest(i) == \A j \in 1..n : cs[i].last < cs[j].last \/ (cs[i].last = cs[j].last /\ i <= j)
  <1>1. n \in Nat \ {0} /\ DOMAIN cs = 1..n
    BY LenProperties, EmptySeq
  <1>2. \A i \in 1..n : cs[i].last \in Nat
    BY <1>1, ElementOfSeq, ClusterFields
  <1>3. age \in [1..n -> Int] /\ \A i \in 1..n : age[i] = 0 - cs[i].last
    BY <1>2
  <1> HIDE DEF age
  <1>4. PICK i0 \in 1..n : \A j \in 1..n : age[i0] > age[j] \/ (age[i0] = age[j] /\ i0 <= j)
    BY <1>1, <1>3, GreatestFirst
  <1>5. i0 \in 1..n /\ oldest(i0)
    <2> SUFFICES ASSUME NEW j \in 1..n
                 PROVE  cs[i0].last < cs[j].last \/ (cs[i0].last = cs[j].last /\ i0 <= j)
      OBVIOUS
    <2> DEFINE x == cs[i0].last
               y == cs[j].last
    <2>1. x \in Nat /\ y \in Nat /\ age[i0] = 0 - x /\ age[j] = 0 - y
      BY <1>2, <1>3
    <2> HIDE DEF x, y
    <2>2. x < y \/ (x = y /\ i0 <= j)
      BY <1>4, <2>1
    <2>3. QED
      BY <2>2 DEF x, y
  <1> HIDE DEF n
  <1>6. \E i \in DOMAIN cs : oldest(i)
    BY <1>1, <1>5
  <1>7. Stalest(cs) = CHOOSE i \in DOMAIN cs : oldest(i)
    BY <1>1 DEF Stalest
  <1> HIDE DEF oldest
  <1>8. QED
    BY <1>6, <1>7

-----------------------------------------------------------------------------
(* The active clusters: each live one has a place of its own. *)

LEMMA ActiveShape ==
  ASSUME clusters \in Seq(Cluster), NEW now \in Int
  PROVE  Active(now) \in Seq(Cluster)
  <1> DEFINE n == Len(clusters)
             live == {i \in DOMAIN clusters : now - clusters[i].last <= ActiveSpan}
             count(i) == clusters[i].count
             before(j, i) == count(j) > count(i) \/ (count(j) = count(i) /\ j < i)
             ahead(i) == {j \in live : before(j, i)}
             c == Cardinality(live)
             place == [i \in live |-> Cardinality(ahead(i))]
  <1>1. n \in Nat /\ DOMAIN clusters = 1..n /\ \A i \in 1..n : clusters[i] \in Cluster
    BY LenProperties, ElementOfSeq
  <1>2. live \subseteq 1..n
    BY <1>1
  <1>3. \A i \in live : count(i) \in Nat
    BY <1>1, <1>2, ClusterFields
  <1>4. IsFiniteSet(live) /\ c \in Nat
    <2>1. IsFiniteSet(1..n)
      BY <1>1, UpTo
    <2> HIDE DEF live, n
    <2>2. IsFiniteSet(live)
      BY <1>2, <2>1, FS_Subset
    <2>3. QED
      BY <2>2, FS_CardinalityType
  <1>5. Active(now) = [k \in 1..c |-> clusters[CHOOSE i \in live : Cardinality(ahead(i)) = k - 1]]
    BY DEF Active
  <1> HIDE DEF live, n
  <1>6. \A i, j \in live : i # j => before(i, j) \/ before(j, i)
    BY <1>1, <1>2, <1>3
  <1>7. \A i \in live : ~before(i, i)
    BY <1>1, <1>2, <1>3
  <1>8. \A i, j, k \in live : before(k, i) /\ before(i, j) => before(k, j)
    BY <1>1, <1>2, <1>3
  <1> HIDE DEF before
  <1>9. \A i \in live : IsFiniteSet(ahead(i)) /\ place[i] \in Nat /\ place[i] = Cardinality(ahead(i))
    <2> TAKE i \in live
    <2>1. ahead(i) \subseteq live
      OBVIOUS
    <2> HIDE DEF ahead
    <2>2. IsFiniteSet(ahead(i))
      BY <1>4, <2>1, FS_Subset
    <2>3. QED
      BY <2>2, FS_CardinalityType
  <1>10. \A i \in live : place[i] + 1 <= c
    <2> TAKE i \in live
    <2>1. ahead(i) \union {i} \subseteq live /\ i \notin ahead(i)
      BY <1>7
    <2>2. IsFiniteSet(ahead(i)) /\ place[i] \in Nat /\ place[i] = Cardinality(ahead(i))
      BY <1>9
    <2> HIDE DEF ahead, place
    <2>3. Cardinality(ahead(i) \union {i}) = Cardinality(ahead(i)) + 1
      BY <2>1, <2>2, FS_AddElement
    <2>4. Cardinality(ahead(i) \union {i}) <= Cardinality(live)
      BY <1>4, <2>1, FS_Subset
    <2>5. QED
      BY <2>2, <2>3, <2>4
  <1>11. \A i, j \in live : before(i, j) => place[i] # place[j]
    <2> TAKE i, j \in live
    <2> HAVE before(i, j)
    <2>1. ahead(i) \union {i} \subseteq ahead(j) /\ i \notin ahead(i)
      BY <1>7, <1>8
    <2>2. /\ IsFiniteSet(ahead(i)) /\ place[i] \in Nat /\ place[i] = Cardinality(ahead(i))
          /\ IsFiniteSet(ahead(j)) /\ place[j] \in Nat /\ place[j] = Cardinality(ahead(j))
      BY <1>9
    <2> HIDE DEF ahead, place
    <2>3. Cardinality(ahead(i) \union {i}) = Cardinality(ahead(i)) + 1
      BY <2>1, <2>2, FS_AddElement
    <2>4. Cardinality(ahead(i) \union {i}) <= Cardinality(ahead(j))
      BY <2>1, <2>2, FS_Subset
    <2>5. QED
      BY <2>2, <2>3, <2>4
  <1>12. place \in Injection(live, 0..(c - 1))
    <2>1. \A i \in live : place[i] \in 0..(c - 1)
      <3> TAKE i \in live
      <3> DEFINE x == place[i]
      <3>1. x \in Nat /\ x + 1 <= c
        BY <1>9, <1>10
      <3> HIDE DEF x, c
      <3>2. x \in 0..(c - 1)
        BY <1>4, <3>1
      <3>3. QED
        BY <3>2 DEF x
    <2>2. \A i, j \in live : place[i] = place[j] => i = j
      BY <1>6, <1>11
    <2>3. DOMAIN place = live
      OBVIOUS
    <2>4. place \in [live -> 0..(c - 1)]
      BY <2>1
    <2> HIDE DEF place
    <2>5. QED
      BY <2>2, <2>3, <2>4 DEF Injection, IsInjective
  <1>13. IsFiniteSet(0..(c - 1)) /\ Cardinality(0..(c - 1)) = c
    <2> HIDE DEF c
    <2>1. 0 \in Int /\ c - 1 \in Int
      BY <1>4
    <2>2. IsFiniteSet(0..(c - 1)) /\ Cardinality(0..(c - 1)) = IF 0 > c - 1 THEN 0 ELSE (c - 1) - 0 + 1
      BY <2>1, FS_Interval
    <2>3. (IF 0 > c - 1 THEN 0 ELSE (c - 1) - 0 + 1) = c
      BY <1>4
    <2>4. QED
      BY <2>2, <2>3
  <1>14. place \in Surjection(live, 0..(c - 1))
    <2> HIDE DEF place
    <2>1. QED
      BY <1>12, <1>13, FS_Injection
  <1>15. \A k \in 1..c : \E i \in live : Cardinality(ahead(i)) = k - 1
    <2> TAKE k \in 1..c
    <2>1. k - 1 \in 0..(c - 1)
      BY <1>4
    <2>2. \A m \in 0..(c - 1) : \E i \in live : place[i] = m
      <3> HIDE DEF place, c
      <3>1. QED
        BY <1>14 DEF Surjection
    <2>3. PICK i \in live : place[i] = k - 1
      BY <2>1, <2>2
    <2>4. QED
      BY <1>9, <2>3
  <1>16. \A k \in 1..c : Active(now)[k] \in Cluster
    <2> TAKE k \in 1..c
    <2> DEFINE at == CHOOSE i \in live : Cardinality(ahead(i)) = k - 1
    <2>1. at \in live
      <3> HIDE DEF ahead
      <3>1. QED
        BY <1>15
    <2>2. Active(now)[k] = clusters[at]
      BY <1>5
    <2> HIDE DEF at
    <2>3. QED
      BY <1>1, <1>2, <2>1, <2>2
  <1> DEFINE active == Active(now)
  <1>17. DOMAIN active = 1..c /\ active = [k \in 1..c |-> active[k]]
    BY <1>5
  <1> HIDE DEF c, active
  <1>18. active \in [1..c -> Cluster]
    BY <1>16, <1>17 DEF active
  <1>19. active \in Seq(Cluster)
    BY <1>4, <1>18, FunctionIsSeq
  <1>20. QED
    BY <1>19 DEF active

-----------------------------------------------------------------------------
(***************************************************************************)
(* The clusters.  ClustersAccounted is inductive together with the shape   *)
(* of the clusters, their counts and time stamps being positive.           *)
(***************************************************************************)

ClusterInv ==
  /\ clock \in Nat \ {0} /\ ingested \in Nat /\ evicted \in Nat
  /\ clusters \in Seq(Cluster)
  /\ ClustersAccounted

OnePerTemplate(cs) == \A i, j \in DOMAIN cs : cs[i].template = cs[j].template => i = j

\* An event of a known template finds its cluster, another one none.
LEMMA IndexOfFinds ==
  ASSUME clusters \in Seq(Cluster), NEW t
  PROVE  /\ IndexOf(t) # 0 => IndexOf(t) \in DOMAIN clusters /\ clusters[IndexOf(t)].template = t
         /\ IndexOf(t) = 0 => \A i \in DOMAIN clusters : clusters[i].template # t
  <1> DEFINE I == {i \in 1..Len(clusters) : clusters[i].template = t}
             low == CHOOSE x \in I : \A y \in I : x <= y
  <1>1. Len(clusters) \in Nat /\ DOMAIN clusters = 1..Len(clusters)
    BY LenProperties
  <1>2. IndexOf(t) = IF I # {} THEN low ELSE 0
    BY DEF IndexOf, SelectInSeq, Min
  <1>3. CASE I = {}
    BY <1>1, <1>2, <1>3
  <1>4. CASE I # {}
    <2>1. I \subseteq Nat
      BY <1>1
    <2>2. low \in I
      <3> HIDE DEF I
      <3>1. \E x \in I : \A y \in I : x <= y
        BY <1>4, <2>1, Least
      <3>2. QED
        BY <3>1
    <2> HIDE DEF low
    <2>3. low \in 1..Len(clusters) /\ clusters[low].template = t /\ low # 0
      BY <1>1, <2>2
    <2>4. QED
      BY <1>1, <1>2, <1>4, <2>3
  <1>5. QED
    BY <1>3, <1>4

\* The two ways an event goes in; a full list loses its stalest cluster.
LEMMA JoinCounts ==
  ASSUME NEW cs \in Seq(Cluster), NEW i \in DOMAIN cs, NEW c \in Cluster, OnePerTemplate(cs),
         c.template = cs[i].template, c.count = cs[i].count + 1
  PROVE  LET ds == [cs EXCEPT ![i] = c]
         IN  /\ ds \in Seq(Cluster) /\ Len(ds) = Len(cs) /\ OnePerTemplate(ds)
             /\ Cardinality(Tally(ds)) = Cardinality(Tally(cs)) + 1
  <1> DEFINE ds == [cs EXCEPT ![i] = c]
             n == Len(cs)
  <1>1. n \in Nat /\ DOMAIN cs = 1..n /\ \A j \in 1..n : cs[j] \in Cluster
    BY LenProperties, ElementOfSeq
  <1>2. DOMAIN ds = DOMAIN cs /\ \A j \in DOMAIN cs : ds[j] \in Cluster /\ ds[j].template = cs[j].template
    BY <1>1
  <1>3. ds \in [1..n -> Cluster]
    BY <1>1
  <1>4. Cardinality(Tally(ds)) = Cardinality(Tally(cs)) + 1
    BY TallyCount
  <1> HIDE DEF ds
  <1>5. ds \in Seq(Cluster) /\ Len(ds) = n
    BY <1>1, <1>3, FunctionIsSeq
  <1>6. OnePerTemplate(ds)
    BY <1>2 DEF OnePerTemplate
  <1>7. QED
    BY <1>4, <1>5, <1>6 DEF ds

LEMMA AppendOpens ==
  ASSUME NEW cs \in Seq(Cluster), NEW c \in Cluster, OnePerTemplate(cs),
         \A i \in DOMAIN cs : cs[i].template # c.template
  PROVE  /\ Append(cs, c) \in Seq(Cluster) /\ Len(Append(cs, c)) = Len(cs) + 1
         /\ OnePerTemplate(Append(cs, c))
  <1> DEFINE all == Append(cs, c)
             n == Len(cs)
  <1>1. /\ n \in Nat /\ DOMAIN cs = 1..n /\ all \in Seq(Cluster) /\ Len(all) = n + 1
        /\ DOMAIN all = 1..(n + 1) /\ all[n + 1] = c /\ \A i \in 1..n : all[i] = cs[i]
    BY LenProperties, AppendProperties
  <1>2. \A i \in 1..(n + 1) : i \in 1..n \/ i = n + 1
    BY <1>1
  <1> HIDE DEF all
  <1>3. OnePerTemplate(all)
    BY <1>1, <1>2 DEF OnePerTemplate
  <1>4. QED
    BY <1>1, <1>3 DEF all

LEMMA EvictionCounts ==
  ASSUME NEW cs \in Seq(Cluster), OnePerTemplate(cs), Len(cs) <= MaxClusters + 1
  PROVE  LET ds == EvictOld(cs)
             lost == IF Len(ds) < Len(cs) THEN cs[Stalest(cs)].count ELSE 0
         IN  /\ ds \in Seq(Cluster) /\ Len(ds) <= MaxClusters /\ OnePerTemplate(ds)
             /\ lost \in Nat /\ Cardinality(Tally(ds)) + lost = Cardinality(Tally(cs))
  <1> DEFINE n == Len(cs)
             k == Stalest(cs)
             ds == RemoveAt(cs, k)
  <1>1. n \in Nat /\ MaxClusters \in Nat /\ DOMAIN cs = 1..n
    BY LenProperties, ClustererAssumption
  <1>2. Cardinality(Tally(cs)) \in Nat
    BY TallyFinite
  <1>3. CASE n <= MaxClusters
    <2>1. EvictOld(cs) = cs
      BY <1>3 DEF EvictOld
    <2>2. ~(n < n)
      BY <1>1
    <2>3. QED
      BY <1>1, <1>2, <1>3, <2>1, <2>2
  <1>4. CASE ~(n <= MaxClusters)
    <2>1. EvictOld(cs) = ds
      BY <1>4 DEF EvictOld
    <2>2. cs # <<>>
      BY <1>1, <1>4, EmptySeq
    <2>3. k \in 1..n
      BY <1>1, <2>2, StalestIsOne
    <2>4. cs[k].count \in Nat
      BY <1>1, <2>3, ElementOfSeq, ClusterFields
    <2> HIDE DEF k
    <2>5. /\ ds \in Seq(Cluster) /\ Len(ds) = n - 1 /\ DOMAIN ds = 1..(n - 1)
          /\ \A i \in 1..(n - 1) : ds[i] = IF i < k THEN cs[i] ELSE cs[i + 1]
      BY <2>3, RemoveAtShape
    <2>6. Cardinality(Tally(ds)) + cs[k].count = Cardinality(Tally(cs))
      BY <1>1, <2>3, TallyRemove
    <2> HIDE DEF ds, n
    <2>7. OnePerTemplate(ds)
      <3> DEFINE old(i) == IF i < k THEN i ELSE i + 1
      <3>1. \A i \in 1..(n - 1) : old(i) \in 1..n /\ ds[i] = cs[old(i)]
        BY <1>1, <2>3, <2>5
      <3>2. \A i, j \in 1..(n - 1) : old(i) = old(j) => i = j
        BY <1>1, <2>3
      <3> HIDE DEF old
      <3>3. QED
        BY <1>1, <2>5, <3>1, <3>2 DEF OnePerTemplate
    <2>8. Len(ds) < n /\ Len(ds) <= MaxClusters
      <3>1. n <= MaxClusters + 1
        BY DEF n
      <3>2. n - 1 < n /\ n - 1 <= MaxClusters
        BY <1>1, <3>1
      <3>3. QED
        BY <2>5, <3>2
    <2>9. QED
      BY <2>1, <2>4, <2>5, <2>6, <2>7, <2>8 DEF k, n
  <1>5. QED
    BY <1>3, <1>4

LEMMA IngestKeepsCount ==
  ASSUME ClusterInv, IngestEvent
  PROVE  ClusterInv'
  <1>1. PICK e \in Events :
          e.lag < clock /\ Ingest([template |-> e.template, host |-> e.host, severity |-> e.severity,
                                   time |-> clock - e.lag])
    BY DEF IngestEvent
  <1> DEFINE x == [template |-> e.template, host |-> e.host, severity |-> e.severity, time |-> clock - e.lag]
             i == IndexOf(x.template)
             opened == NewCluster(x)
             joined == Joined(clusters[i], x)
             all == Append(clusters, opened)
             ds == EvictOld(all)
             lost == IF Len(ds) < Len(all) THEN all[Stalest(all)].count ELSE 0
  <1>2. /\ ingested' = ingested + 1 /\ clock' = clock
        /\ clock \in Nat \ {0} /\ ingested \in Nat /\ evicted \in Nat /\ clusters \in Seq(Cluster)
        /\ Len(clusters) <= MaxClusters /\ OnePerTemplate(clusters)
        /\ Cardinality(Tally(clusters)) + evicted = ingested
    BY DEF ClusterInv, ClustersAccounted, OnePerTemplate, Tally, IngestEvent
  <1>3. Len(clusters) \in Nat /\ MaxClusters \in Nat /\ Cardinality(Tally(clusters)) \in Nat
    BY <1>2, LenProperties, ClustererAssumption, TallyFinite
  <1>4. x.time \in Nat \ {0}
    <2>1. e.lag \in Nat
      BY InputAssumption
    <2> DEFINE lag == e.lag
    <2> HIDE DEF lag
    <2>2. lag \in Nat /\ lag < clock
      BY <1>1, <2>1 DEF lag
    <2>3. clock - lag \in Nat \ {0}
      BY <1>2, <2>2
    <2>4. QED
      BY <2>3 DEF lag
  <1>5. IF i # 0 THEN clusters' = [clusters EXCEPT ![i] = joined] /\ evicted' = evicted
                 ELSE clusters' = ds /\ evicted' = evicted + lost
    BY <1>1 DEF Ingest
  <1>6. x.template \in {f.template : f \in Events} /\ x.host \in {f.host : f \in Events}
        /\ x.severity \in {f.severity : f \in Events}
    OBVIOUS
  <1>7. /\ i # 0 => i \in DOMAIN clusters /\ clusters[i].template = x.template
        /\ i = 0 => \A j \in DOMAIN clusters : clusters[j].template # x.template
    BY <1>2, IndexOfFinds
  <1>8. ASSUME NEW cs, cs \in Seq(Cluster), Len(cs) <= MaxClusters, OnePerTemplate(cs), clusters' = cs,
               evicted' \in Nat, Cardinality(Tally(cs)) + evicted' = ingested + 1
        PROVE  ClusterInv'
    BY <1>2, <1>8 DEF ClusterInv, ClustersAccounted, OnePerTemplate, Tally
  <1>9. CASE i # 0
    <2> DEFINE cs == [clusters EXCEPT ![i] = joined]
               c == clusters[i]
    <2>1. c \in Cluster /\ i \in DOMAIN clusters /\ c.template = x.template
      BY <1>2, <1>7, <1>9, ElementOfSeq
    <2>2. /\ c.count \in Nat \ {0} /\ c.first \in Nat \ {0} /\ c.hosts \in SUBSET {f.host : f \in Events}
          /\ c.severity \in {f.severity : f \in Events}
      BY <2>1 DEF Cluster
    <2> HIDE DEF c, x, i
    <2>3. /\ Joined(c, x) = [c EXCEPT !.count = c.count + 1, !.last = x.time, !.hosts = c.hosts \union {x.host},
                !.severity = IF SeverityAfter(x.severity, c.severity) THEN x.severity ELSE c.severity]
      BY DEF Joined
    <2>4. /\ c.count + 1 \in Nat \ {0} /\ c.hosts \union {x.host} \in SUBSET {f.host : f \in Events}
          /\ (IF SeverityAfter(x.severity, c.severity) THEN x.severity ELSE c.severity)
               \in {f.severity : f \in Events}
      <3> DEFINE m == c.count
      <3>1. m \in Nat
        BY <2>2
      <3> HIDE DEF m
      <3>2. m + 1 \in Nat \ {0}
        BY <3>1
      <3>3. QED
        BY <1>6, <2>2, <3>2 DEF m
    <2>5. /\ Joined(c, x) \in Cluster /\ Joined(c, x).count = c.count + 1
          /\ Joined(c, x).template = c.template
      BY <1>4, <2>1, <2>3, <2>4 DEF Cluster
    <2>6. /\ cs \in Seq(Cluster) /\ Len(cs) = Len(clusters) /\ OnePerTemplate(cs)
          /\ Cardinality(Tally(cs)) = Cardinality(Tally(clusters)) + 1
      BY <1>2, <2>1, <2>5, JoinCounts DEF c
    <2>7. clusters' = cs /\ evicted' = evicted
      BY <1>5, <1>9 DEF c
    <2> HIDE DEF cs
    <2>8. Cardinality(Tally(cs)) + evicted' = ingested + 1
      BY <1>2, <1>3, <2>6, <2>7
    <2>9. QED
      BY <1>2, <1>8, <2>6, <2>7, <2>8
  <1>10. CASE i = 0
    <2>1. opened \in Cluster /\ opened.count = 1 /\ opened.template = x.template
      <3> HIDE DEF x
      <3>1. 1 \in Nat \ {0} /\ {x.host} \in SUBSET {f.host : f \in Events}
        BY <1>6
      <3>2. QED
        BY <1>4, <1>6, <3>1 DEF NewCluster, Cluster
    <2> HIDE DEF opened, x, i
    <2>2. /\ all \in Seq(Cluster) /\ Len(all) = Len(clusters) + 1 /\ OnePerTemplate(all)
          /\ Cardinality(Tally(all)) = Cardinality(Tally(clusters)) + 1
      <3>1. \A j \in DOMAIN clusters : clusters[j].template # opened.template
        BY <1>7, <1>10, <2>1
      <3>2. Cardinality(Tally(all)) = Cardinality(Tally(clusters)) + opened.count
        BY <1>2, <2>1, TallyAppend
      <3>3. QED
        BY <1>2, <2>1, <3>1, <3>2, AppendOpens
    <2> HIDE DEF all
    <2>3. Len(all) <= MaxClusters + 1
      BY <1>2, <1>3, <2>2
    <2>4. /\ ds \in Seq(Cluster) /\ Len(ds) <= MaxClusters /\ OnePerTemplate(ds)
          /\ lost \in Nat /\ Cardinality(Tally(ds)) + lost = Cardinality(Tally(all))
      BY <2>2, <2>3, EvictionCounts
    <2>5. clusters' = ds /\ evicted' = evicted + lost
      BY <1>5, <1>10 DEF all
    <2>6. Cardinality(Tally(ds)) \in Nat
      BY <2>4, TallyFinite
    <2> HIDE DEF ds, lost
    <2>7. evicted' \in Nat /\ Cardinality(Tally(ds)) + evicted' = ingested + 1
      <3> DEFINE was == Cardinality(Tally(clusters))
                 is == Cardinality(Tally(ds))
      <3>1. was \in Nat /\ is \in Nat /\ lost \in Nat /\ evicted \in Nat /\ ingested \in Nat
        BY <1>2, <1>3, <2>4, <2>6
      <3>2. was + evicted = ingested /\ is + lost = was + 1
        BY <1>2, <2>2, <2>4
      <3> HIDE DEF was, is
      <3>3. evicted + lost \in Nat /\ is + (evicted + lost) = ingested + 1
        BY <3>1, <3>2
      <3>4. QED
        BY <2>5, <3>3 DEF is
    <2>8. QED
      BY <1>8, <2>4, <2>5, <2>7
  <1>11. QED
    BY <1>9, <1>10

\* No clusters, no events: a process that starts.
LEMMA NothingCounted ==
  Cardinality(Tally(<<>>)) = 0 /\ OnePerTemplate(<<>>) /\ <<>> \in Seq(Cluster) /\ Len(<<>>) = 0
  <1>1. DOMAIN <<>> = {} /\ Len(<<>>) = 0 /\ <<>> \in Seq(Cluster)
    BY EmptySeq
  <1>2. Tally(<<>>) = {}
    BY <1>1 DEF Tally
  <1>3. QED
    BY <1>1, <1>2, FS_EmptySet DEF OnePerTemplate

LEMMA EmptyClusterInv ==
  ASSUME clock \in Nat \ {0}, ingested = 0, evicted = 0, clusters = <<>>
  PROVE  ClusterInv
  <1>1. MaxClusters \in Nat
    BY ClustererAssumption
  <1>2. QED
    BY <1>1, NothingCounted DEF ClusterInv, ClustersAccounted, Tally, OnePerTemplate

LEMMA NextClusterInv == ClusterInv /\ [Next]_vars => ClusterInv'
  <1> SUFFICES ASSUME ClusterInv, [Next]_vars PROVE ClusterInv'
    OBVIOUS
  <1>1. ASSUME UNCHANGED <<clusters, evicted, ingested>>, clock' = clock \/ clock' = clock + 1
        PROVE  ClusterInv'
    BY <1>1 DEF ClusterInv, ClustersAccounted
  <1>2. CASE IngestEvent
    BY <1>2, IngestKeepsCount
  <1>3. CASE Crash
    <2>1. clock' \in Nat \ {0} /\ ingested' = 0 /\ evicted' = 0 /\ clusters' = <<>>
      BY <1>3 DEF Crash, ClusterInv
    <2>2. MaxClusters \in Nat
      BY ClustererAssumption
    <2>3. QED
      BY <2>1, <2>2, NothingCounted DEF ClusterInv, ClustersAccounted, Tally, OnePerTemplate
  <1>4. CASE Fix \/ UNCHANGED vars
    BY <1>1, <1>4 DEF Fix, BeginFix, Attempt, EndFix, ClangTimesOut, vars, incident
  <1>5. CASE Call \/ BuildGraph \/ InitialArguments \/ RebuttalRound \/ MakePlan
    BY <1>1, <1>5 DEF Call, BuildGraph, InitialArguments, RebuttalRound, MakePlan
  <1>6. CASE LearnPattern \/ LearnEntry \/ Save \/ Return
    BY <1>1, <1>6 DEF LearnPattern, LearnEntry, Save, Return
  <1>7. CASE Restart \/ RestartFails \/ Tick
    BY <1>1, <1>7 DEF Restart, RestartFails, Tick
  <1>8. QED
    BY <1>2, <1>3, <1>4, <1>5, <1>6, <1>7 DEF Next, Process

(* Clustering and eviction lose count of no event, keep one cluster per    *)
(* template and stay within max_clusters, for any number of events of any  *)
(* age (EventClusterer.ingest and _evict_old).                             *)
THEOREM EventsAccounted == Spec => []ClustersAccounted
  <1>1. Init => ClusterInv
    BY EmptyClusterInv DEF Init
  <1>2. ClusterInv => ClustersAccounted
    BY DEF ClusterInv
  <1>3. QED
    BY <1>1, <1>2, NextClusterInv, PTL DEF Spec

-----------------------------------------------------------------------------
(***************************************************************************)
(* The causal graph from one call to the next.  A call starts without a    *)
(* graph; the one it builds of the active clusters and its changes stays   *)
(* until it returns.                                                       *)
(***************************************************************************)

\* A single change that is the root cause leaves no change to be blamed.
Unblamable ==
  Len(changes) = 1 /\ RootCause(nodes, edges) = Len(nodes) => ChangeNodes(nodes) = {}

GraphInv ==
  /\ pc = "ingest" => changes \in ChangeLists
  /\ pc \in {"idle", "ingest", "down", "load_failed"} => nodes = <<>> /\ edges = {}
  /\ OrderComplete
  /\ pc \in {"debate", "rebut", "verdict"} => Unblamable

\* What the clusterer and the caller hand to the graph builder.
LEMMA CallIsBuildable ==
  ASSUME ClusterInv, changes \in ChangeLists
  PROVE  Buildable(Active(clock), changes)
  <1> DEFINE cs == Active(clock)
  <1>1. cs \in Seq(Cluster)
    <2>1. clusters \in Seq(Cluster) /\ clock \in Int
      BY DEF ClusterInv
    <2>2. QED
      BY <2>1, ActiveShape
  <1> HIDE DEF cs
  <1>2. Len(cs) \in Nat /\ DOMAIN cs = 1..Len(cs) /\ \A i \in DOMAIN cs : cs[i] \in Cluster
    BY <1>1, LenProperties, ElementOfSeq
  <1>3. \A i \in DOMAIN cs : cs[i].first \in Nat \ {0}
    BY <1>2, ClusterFields
  <1>4. cs \in Seq(Range(cs))
    <2>1. cs = [i \in 1..Len(cs) |-> cs[i]] /\ \A i \in 1..Len(cs) : cs[i] \in Range(cs)
      BY <1>1, <1>2 DEF Range
    <2>2. cs \in [1..Len(cs) -> Range(cs)]
      BY <2>1
    <2>3. QED
      BY <1>2, <2>2, FunctionIsSeq
  <1>5. /\ changes \in Seq(Range(changes))
        /\ \A i \in DOMAIN changes : changes[i].time \in Nat \ {0}
    BY InputAssumption
  <1>6. QED
    BY <1>3, <1>4, <1>5 DEF Buildable, cs

LEMMA BuildGraphInv == ClusterInv /\ GraphInv /\ BuildGraph => GraphInv'
  <1> SUFFICES ASSUME ClusterInv, GraphInv, BuildGraph PROVE GraphInv'
    OBVIOUS
  <1> DEFINE cs == Active(clock)
             raw == Nodes(cs, changes)
             es == Edges(raw, cs, changes)
             ns == Marked(raw, es)
  <1>1. pc = "ingest" /\ pc' = "debate" /\ nodes' = ns /\ edges' = es /\ changes' = changes
    BY DEF BuildGraph, At
  <1>2. Buildable(cs, changes)
    BY <1>1, CallIsBuildable DEF GraphInv
  <1>3. Distinguished(changes) =>
          /\ Ordered(ns, es) = DOMAIN ns
          /\ \A i \in DOMAIN ns : ns[i].kind = "root_cause" => Incoming(es, i) = {}
    BY <1>2, BuiltInOrder
  <1>4. Len(changes) = 1 => (RootCause(ns, es) = Len(ns) => ChangeNodes(ns) = {})
    BY <1>2, BuiltUnblamable
  <1> HIDE DEF ns, es, cs, raw
  <1>5. OrderComplete'
    BY <1>1, <1>3 DEF OrderComplete
  <1>6. Unblamable'
    BY <1>1, <1>4 DEF Unblamable
  <1>7. QED
    BY <1>1, <1>5, <1>6 DEF GraphInv

\* Without a graph there is nothing to order.
LEMMA EmptyOrderComplete ==
  ASSUME nodes = <<>>, edges = {}
  PROVE  OrderComplete
  BY EmptyGraphOrdered DEF OrderComplete

\* Steps that keep the graph.
LEMMA QuietGraphInv ==
  ASSUME GraphInv, UNCHANGED <<nodes, edges, changes>>,
         pc' = "ingest" => pc = "ingest",
         pc' \in {"idle", "ingest", "down", "load_failed"} => pc \in {"idle", "ingest", "down", "load_failed"},
         pc' \in {"debate", "rebut", "verdict"} => pc \in {"debate", "rebut", "verdict"}
  PROVE  GraphInv'
  BY DEF GraphInv, OrderComplete, Unblamable

LEMMA NextGraphInv == ClusterInv /\ GraphInv /\ [Next]_vars => GraphInv'
  <1> SUFFICES ASSUME ClusterInv, GraphInv, [Next]_vars PROVE GraphInv'
    OBVIOUS
  <1>1. CASE BuildGraph
    BY <1>1, BuildGraphInv
  <1>2. CASE Call
    <2>1. /\ changes' \in ChangeLists /\ pc' = "ingest" /\ nodes' = <<>> /\ edges' = {}
      BY <1>2 DEF Call, At, graph, GraphInv
    <2>2. (Ordered(nodes, edges) = DOMAIN nodes)'
      BY <2>1, EmptyGraphOrdered
    <2>3. OrderComplete'
      BY <2>1, <2>2 DEF OrderComplete
    <2>4. QED
      BY <2>1, <2>3 DEF GraphInv
  <1>3. CASE Return \/ Crash
    <2>1. pc' \in {"idle", "down"} /\ nodes' = <<>> /\ edges' = {}
      BY <1>3 DEF Return, Crash, At, Forget
    <2>2. (Ordered(nodes, edges) = DOMAIN nodes)'
      BY <2>1, EmptyGraphOrdered
    <2>3. OrderComplete'
      BY <2>1, <2>2 DEF OrderComplete
    <2>4. QED
      BY <2>1, <2>3 DEF GraphInv
  <1>4. CASE IngestEvent \/ InitialArguments \/ RebuttalRound \/ MakePlan
    BY <1>4, QuietGraphInv DEF IngestEvent, InitialArguments, RebuttalRound, MakePlan, At, incident, graph
  <1>5. CASE LearnPattern \/ LearnEntry \/ Save
    BY <1>5, QuietGraphInv DEF LearnPattern, LearnEntry, Save, At, incident, graph
  <1>6. CASE Fix
    BY <1>6, QuietGraphInv DEF Fix, BeginFix, Attempt, EndFix, ClangTimesOut, At, incident, graph
  <1>7. CASE Restart \/ RestartFails \/ Tick \/ UNCHANGED vars
    BY <1>7, QuietGraphInv DEF Restart, RestartFails, Tick, At, vars, incident, graph
  <1>8. QED
    BY <1>1, <1>2, <1>3, <1>4, <1>5, <1>6, <1>7 DEF Next, Process

LEMMA InitGraphInv == Init => ClusterInv /\ GraphInv
  BY EmptyClusterInv, EmptyOrderComplete DEF Init, GraphInv

(* With changes whose descriptions are told apart, the graph of any        *)
(* clusters and changes has a topological order without a gap, and nothing *)
(* leads to its root cause (build_from_correlations, mark_root_cause and   *)
(* topological_order).                                                     *)
THEOREM OrderMissesNoNode == Spec => []OrderComplete
  <1>1. GraphInv => OrderComplete
    BY DEF GraphInv
  <1>2. QED
    BY <1>1, InitGraphInv, NextClusterInv, NextGraphInv, PTL DEF Spec

LEMMA VerdictUnblamed == Debating /\ GraphInv => RootCauseUnblamed
  <1> SUFFICES ASSUME Debating, GraphInv, pc = "verdict", Len(changes) = 1,
                      RootCause(nodes, edges) = Len(nodes)
               PROVE  LET args == Last4(arguments, rebuttals) IN args[Best(args)].role # "change"
    BY DEF RootCauseUnblamed
  <1>1. ChangeNodes(nodes) = {}
    BY DEF GraphInv, Unblamable
  <1>2. InTurn(Last4(arguments, rebuttals)) /\ Blameless(Last4(arguments, rebuttals), nodes)
    BY DEF Debating
  <1>3. QED
    BY <1>1, <1>2, BlamelessVerdict

(* A change that the graph has named the root cause, the only one there    *)
(* is, is never blamed by the verdict, after any number of rounds          *)
(* (mark_root_cause, ChangeAgent and _resolve_verdict).                    *)
THEOREM RootCauseNeverBlamed == Spec => []RootCauseUnblamed
  <1>1. Init => Debating
    <2>1. <<>> \in Seq(Mild)
      OBVIOUS
    <2>2. QED
      BY <2>1, PipelineAssumption DEF Init, Debating
  <1>2. Debating /\ [Next]_vars => Debating'
    BY NextDebating
  <1>3. QED
    BY <1>1, <1>2, InitGraphInv, NextClusterInv, NextGraphInv, VerdictUnblamed, PTL DEF Spec

=============================================================================
