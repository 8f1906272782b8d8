------------------------- MODULE AnalysisPipelineProofs -------------------------
(***************************************************************************)
(* Proofs about the analysis of a crash: how it is recognised and rated,   *)
(* for every stack and every dmesg (CrashFingerprint and Severity), what a *)
(* debate ends in, for every answer of the LLM (KernelDebate), and the     *)
(* invariants of AnalysisPipeline for any crashes, commands and answers.   *)
(***************************************************************************)
EXTENDS AnalysisPipeline, FiniteSetTheorems, TLAPS

-------------------------------------------------------------------------------
(* Severity *)

LEMMA BaseType == \A class : ErrorBase(class) \in 1..4
  BY DEF ErrorBase

LEMMA OthersType ==
  ASSUME NEW fp, NEW hw \in Nat, NEW siblings \in Nat
  PROVE  /\ OtherFactors(fp, hw, siblings) \in Nat
         /\ OtherFactors(fp, hw, siblings) >= 15 * hw
  BY DEF OtherFactors, Capped

(* Every crash gets a score of 15 to 100 and one of the four levels, also  *)
(* with an error class the table does not know and with more hardware      *)
(* errors than the scale has room for (assess_severity).                   *)
THEOREM ScoreInRange ==
  ASSUME NEW fp, NEW hw \in Nat, NEW siblings \in Nat
  PROVE  /\ Score(fp, hw, siblings) \in 15..100
         /\ AssessedLevel(fp, hw, siblings) \in LOW..CRITICAL
  <1>1. Score(fp, hw, siblings) \in 15..100
    <2>1. ErrorBase(fp.class) \in 1..4
      BY BaseType
    <2>2. QED BY <2>1, OthersType DEF Score, Capped
  <1>2. AssessedLevel(fp, hw, siblings) \in LOW..CRITICAL
    BY <1>1 DEF AssessedLevel, Level, LOW, MEDIUM, HIGH, CRITICAL
  <1>3. QED BY <1>1, <1>2

LEMMA LevelMonotone ==
  ASSUME NEW a \in Nat, NEW b \in Nat, a <= b
  PROVE  Level(a) <= Level(b)
  BY DEF Level, LOW, MEDIUM, HIGH, CRITICAL

(* No crash is rated lower for having more: with the same error class, a   *)
(* crash in a critical subsystem, with a deeper stack, more critical       *)
(* hardware errors or more sibling crashes is rated at least as high; the  *)
(* caps never turn that round (assess_severity).                           *)
THEOREM SeverityMonotone ==
  ASSUME NEW fp1, NEW fp2, fp1.class = fp2.class,
         fp1.module \in PanicModules => fp2.module \in PanicModules,
         fp1.depth > 10 => fp2.depth > 10,
         NEW hw1 \in Nat, NEW hw2 \in Nat, hw1 <= hw2,
         NEW siblings1 \in Nat, NEW siblings2 \in Nat, siblings1 <= siblings2
  PROVE  AssessedLevel(fp1, hw1, siblings1) <= AssessedLevel(fp2, hw2, siblings2)
  <1>1. OtherFactors(fp1, hw1, siblings1) <= OtherFactors(fp2, hw2, siblings2)
    <2>1. Capped(5 * siblings1, 25) <= Capped(5 * siblings2, 25)
      BY DEF Capped
    <2>2. (IF fp1.module \in PanicModules THEN 20 ELSE 0) <= (IF fp2.module \in PanicModules THEN 20 ELSE 0)
      OBVIOUS
    <2>3. (IF fp1.depth > 10 THEN 10 ELSE 0) <= (IF fp2.depth > 10 THEN 10 ELSE 0)
      OBVIOUS
    <2>4. QED BY <2>1, <2>2, <2>3 DEF OtherFactors, Capped
  <1>2. Score(fp1, hw1, siblings1) <= Score(fp2, hw2, siblings2)
    <2>1. ErrorBase(fp1.class) \in 1..4 /\ ErrorBase(fp1.class) = ErrorBase(fp2.class)
      BY BaseType
    <2>2. /\ OtherFactors(fp1, hw1, siblings1) \in Nat
          /\ OtherFactors(fp2, hw2, siblings2) \in Nat
      BY OthersType
    <2>3. QED BY <1>1, <2>1, <2>2 DEF Score, Capped
  <1>3. Score(fp1, hw1, siblings1) \in Nat /\ Score(fp2, hw2, siblings2) \in Nat
    <2>1. Score(fp1, hw1, siblings1) \in 15..100 /\ Score(fp2, hw2, siblings2) \in 15..100
      BY ScoreInRange
    <2>2. QED BY <2>1
  <1>4. Level(Score(fp1, hw1, siblings1)) <= Level(Score(fp2, hw2, siblings2))
    BY <1>2, <1>3, LevelMonotone
  <1>5. QED BY <1>4 DEF AssessedLevel

-------------------------------------------------------------------------------
(* Error classes *)

LEMMA Table ==
  /\ DOMAIN Markers = 1..11
  /\ Markers[1] = "BUG" /\ Markers[2] = "Oops"
  /\ Markers[3] = "Unable to handle kernel NULL pointer"
  /\ Markers[4] = "unable to handle page fault" /\ Markers[5] = "general protection fault"
  /\ Markers[6] = "kernel panic" /\ Markers[7] = "divide error" /\ Markers[8] = "stack overflow"
  /\ Markers[9] = "double fault" /\ Markers[10] = "NMI" /\ Markers[11] = "RIP:"
  /\ Classes[6] = "panic" /\ Classes[9] = "double_fault"
  BY DEF Markers, Classes

LEMMA ClassOfOne ==
  ASSUME NEW word, NEW k \in 1..11, \A j \in 1..11 : Markers[j] = word <=> j = k
  PROVE  ClassifyError({word}) = Classes[k]
  <1>1. DOMAIN Markers = 1..11
    BY Table
  <1>2. Found({word}) = {k}
    BY <1>1 DEF Found
  <1>3. QED BY <1>2 DEF ClassifyError

(* A kernel panic is rated like an error nobody knows: classify_error      *)
(* calls it "panic", the table of severities knows "kernel_panic" only.    *)
(* Whatever the stack, such a crash is LOW unless other factors add 20     *)
(* points, while a double fault is HIGH with none.                         *)
THEOREM PanicUnderrated ==
  ASSUME NEW frames \in Seq(FrameType), frames # <<>>, NEW hw \in Nat, NEW siblings \in Nat
  PROVE  LET panic == GenerateFingerprint(frames, {"kernel panic"})
             fault == GenerateFingerprint(frames, {"double fault"})
         IN  /\ AssessedLevel(panic, hw, siblings) = LOW
                  <=> OtherFactors(panic, hw, siblings) < 20
             /\ AssessedLevel(fault, hw, siblings) >= HIGH
  <1> DEFINE panic == GenerateFingerprint(frames, {"kernel panic"})
             fault == GenerateFingerprint(frames, {"double fault"})
  <1>1. ClassifyError({"kernel panic"}) = "panic"
    <2>1. \A j \in 1..11 : Markers[j] = "kernel panic" <=> j = 6
      <3> SUFFICES ASSUME NEW j \in 1..11 PROVE Markers[j] = "kernel panic" <=> j = 6
        OBVIOUS
      <3>1. j \in {1, 2, 3, 4, 5, 6, 7, 8, 9, 10, 11}
        OBVIOUS
      <3>2. QED BY <3>1, Table
    <2>2. 6 \in 1..11
      OBVIOUS
    <2>3. ClassifyError({"kernel panic"}) = Classes[6]
      BY <2>1, <2>2, ClassOfOne, Zenon
    <2>4. QED BY <2>3, Table
  <1>2. ClassifyError({"double fault"}) = "double_fault"
    <2>1. \A j \in 1..11 : Markers[j] = "double fault" <=> j = 9
      <3> SUFFICES ASSUME NEW j \in 1..11 PROVE Markers[j] = "double fault" <=> j = 9
        OBVIOUS
      <3>1. j \in {1, 2, 3, 4, 5, 6, 7, 8, 9, 10, 11}
        OBVIOUS
      <3>2. QED BY <3>1, Table
    <2>2. 9 \in 1..11
      OBVIOUS
    <2>3. ClassifyError({"double fault"}) = Classes[9]
      BY <2>1, <2>2, ClassOfOne, Zenon
    <2>4. QED BY <2>3, Table
  <1>3. panic.class = "panic" /\ fault.class = "double_fault"
    BY <1>1, <1>2 DEF GenerateFingerprint
  <1>4. ErrorBase(panic.class) = 1 /\ ErrorBase(fault.class) = 4
    BY <1>3 DEF ErrorBase
  <1>5. OtherFactors(panic, hw, siblings) \in Nat /\ OtherFactors(fault, hw, siblings) \in Nat
    BY OthersType
  <1> HIDE DEF panic, fault
  <1>6. /\ AssessedLevel(panic, hw, siblings) = LOW <=> OtherFactors(panic, hw, siblings) < 20
        /\ AssessedLevel(fault, hw, siblings) >= HIGH
    BY <1>4, <1>5 DEF AssessedLevel, Score, Capped, Level, LOW, MEDIUM, HIGH, CRITICAL
  <1>7. QED BY <1>6 DEF panic, fault

-------------------------------------------------------------------------------
(* Similarity *)

LEMMA SignatureBound ==
  ASSUME NEW frames \in Seq(FrameType)
  PROVE  SignatureLength(frames) \in 0..5
  <1>1. Len(frames) \in Nat
    OBVIOUS
  <1>2. CASE Len(frames) < 5
    <2>1. SignatureLength(frames) = Len(frames)
      BY <1>2 DEF SignatureLength
    <2>2. QED BY <1>1, <1>2, <2>1
  <1>3. CASE ~(Len(frames) < 5)
    BY <1>1, <1>3 DEF SignatureLength
  <1>4. QED BY <1>2, <1>3

LEMMA SignatureFrames ==
  ASSUME NEW frames \in Seq(FrameType), NEW dmesg, frames # <<>>
  PROVE  LET F == FramesOf(GenerateFingerprint(frames, dmesg))
         IN  IsFiniteSet(F) /\ Cardinality(F) \in 0..5
  <1> DEFINE n == SignatureLength(frames)
             F == FramesOf(GenerateFingerprint(frames, dmesg))
             s == Signature(frames)
  <1>1. n \in 0..5
    BY SignatureBound
  <1>2. IsFiniteSet(1..n) /\ Cardinality(1..n) <= 5
    BY <1>1, FS_Interval
  <1>3. F = {s[i] : i \in 1..n}
    BY DEF FramesOf, GenerateFingerprint, Signature
  <1>4. s \in [1..n -> F]
    BY <1>3 DEF Signature
  <1>5. s \in Surjection(1..n, F)
    BY <1>3, <1>4 DEF Surjection
  <1>6. IsFiniteSet(F) /\ Cardinality(F) <= Cardinality(1..n)
    BY <1>2, <1>5, FS_Surjection
  <1>7. Cardinality(F) \in Nat /\ Cardinality(1..n) \in Nat
    BY <1>2, <1>6, FS_CardinalityType
  <1>8. QED BY <1>2, <1>6, <1>7

(* The 0.7 of is_similar over signatures of at most five frames: crashes   *)
(* with stacks that count as similar differ in at most one frame of their  *)
(* signatures.  One that was replaced by another makes two, and so with    *)
(* stacks of equal depth and without recursion the signatures are equal.   *)
THEOREM SimilarByOneFrame ==
  ASSUME NEW frames1 \in Seq(FrameType), frames1 # <<>>, NEW dmesg1,
         NEW frames2 \in Seq(FrameType), frames2 # <<>>, NEW dmesg2,
         IsSimilar(GenerateFingerprint(frames1, dmesg1), GenerateFingerprint(frames2, dmesg2))
  PROVE  LET A == FramesOf(GenerateFingerprint(frames1, dmesg1))
             B == FramesOf(GenerateFingerprint(frames2, dmesg2))
         IN  Cardinality(A \ B) + Cardinality(B \ A) <= 1
  <1> DEFINE fp1 == GenerateFingerprint(frames1, dmesg1)
             fp2 == GenerateFingerprint(frames2, dmesg2)
             A == FramesOf(fp1)
             B == FramesOf(fp2)
  <1>1. /\ IsFiniteSet(A) /\ Cardinality(A) \in 0..5
        /\ IsFiniteSet(B) /\ Cardinality(B) \in 0..5
    BY SignatureFrames
  <1>2. CASE fp1.hash = fp2.hash
    <2>1. A = B
      BY <1>2 DEF GenerateFingerprint, FramesOf
    <2>2. A \ B = {} /\ B \ A = {}
      BY <2>1
    <2>3. Cardinality(A \ B) = 0 /\ Cardinality(B \ A) = 0
      BY <2>2, FS_EmptySet
    <2>4. QED BY <2>3
  <1>3. CASE 10 * Cardinality(A \intersect B) >= 7 * Cardinality(A \union B)
    <2>1. /\ Cardinality(A \union B) = Cardinality(A) + Cardinality(B) - Cardinality(A \intersect B)
      BY <1>1, FS_Union
    <2>2. /\ Cardinality(A \ B) = Cardinality(A) - Cardinality(A \intersect B)
          /\ Cardinality(B \ A) = Cardinality(B) - Cardinality(B \intersect A)
          /\ B \intersect A = A \intersect B
      BY <1>1, FS_Difference
    <2>3. /\ Cardinality(A \intersect B) \in Nat
          /\ Cardinality(A \intersect B) <= Cardinality(A)
          /\ Cardinality(A \intersect B) <= Cardinality(B)
      <3>1. A \intersect B \in SUBSET A /\ A \intersect B \in SUBSET B
        OBVIOUS
      <3>2. IsFiniteSet(A \intersect B)
        BY <1>1, <3>1, FS_Subset
      <3>3. QED BY <1>1, <3>1, <3>2, FS_Subset, FS_CardinalityType
    <2> DEFINE a == Cardinality(A)
               b == Cardinality(B)
               c == Cardinality(A \intersect B)
    <2>4. /\ a \in 0..5 /\ b \in 0..5 /\ c \in Nat /\ c <= a /\ c <= b
          /\ 10 * c >= 7 * (a + b - c)
      BY <1>1, <1>3, <2>1, <2>3
    <2>5. Cardinality(A \ B) = a - c /\ Cardinality(B \ A) = b - c
      BY <2>2
    <2> HIDE DEF a, b, c
    <2>6. (a - c) + (b - c) <= 1
      BY <2>4
    <2>7. QED BY <2>5, <2>6
  <1>4. QED BY <1>2, <1>3 DEF IsSimilar

-------------------------------------------------------------------------------
(* The debate *)

\* What the agents can rely on in a context: probabilities are numbers or
\* missing, and the hardware is in one of three states.
Readable(ctx) ==
  /\ ctx.confidence \in Nat \union {Unstated}
  /\ ctx.top \in Nat \union {Unstated, NoneFound}
  /\ ctx.hw \in {"none", "warning", "critical"}

\* A round: one argument of each agent, the change agent's claim names a change
\* and the hardware agent's the hardware.
Shaped(r) ==
  /\ r = <<r[1], r[2], r[3]>>
  /\ r[1].agent = "SymbolAgent" /\ r[2].agent = "ChangeAgent" /\ r[3].agent = "HardwareAgent"
  /\ r[1].confidence \in Nat /\ r[2].confidence \in Nat /\ r[3].confidence \in Nat
  /\ "change" \in r[2].words /\ "hardware" \in r[3].words

\* The cut of a confidence is a confidence, and not above it.
LEMMA Cut ==
  ASSUME NEW c \in Nat
  PROVE  /\ Times(c, 85) \in Nat /\ Times(c, 85) <= c
         /\ Times(c, 90) \in Nat /\ Times(c, 90) <= c
  BY DEF Times

LEMMA AgentNumbers ==
  ASSUME NEW ctx, Readable(ctx)
  PROVE  /\ SymbolConfidence(ctx) \in Nat
         /\ ctx.top # NoneFound => TopConfidence(ctx) \in Nat
  BY DEF Readable, SymbolConfidence, TopConfidence, Percent

LEMMA InitialShaped ==
  ASSUME NEW ctx, Readable(ctx)
  PROVE  Shaped(InitialRound(ctx))
  <1>1. /\ SymbolInitial(ctx).agent = "SymbolAgent"
        /\ SymbolInitial(ctx).confidence \in Nat
    BY AgentNumbers DEF SymbolInitial, Argument
  <1>2. /\ ChangeInitial(ctx).agent = "ChangeAgent"
        /\ ChangeInitial(ctx).confidence \in Nat
        /\ "change" \in ChangeInitial(ctx).words
    BY AgentNumbers DEF ChangeInitial, Argument, Percent
  <1>3. /\ HardwareInitial(ctx).agent = "HardwareAgent"
        /\ HardwareInitial(ctx).confidence \in Nat
        /\ "hardware" \in HardwareInitial(ctx).words
    BY DEF HardwareInitial, Argument, Percent, Readable
  <1>4. QED
    BY <1>1, <1>2, <1>3 DEF Shaped, InitialRound

\* Whatever was said before, a rebuttal finds the same challenges: two opponents
\* for the symbol agent, a hardware claim against the change agent and a change
\* claim against the hardware agent.
LEMMA Challenges ==
  ASSUME NEW r, Shaped(r)
  PROVE  /\ Opponents("SymbolAgent", r) # {}
         /\ \E a \in Opponents("ChangeAgent", r) : "hardware" \in a.words
         /\ \E a \in Opponents("HardwareAgent", r) : "change" \in a.words
  <1>1. DOMAIN r = 1..3
    BY DEF Shaped
  <1>2. /\ r[2] \in Opponents("SymbolAgent", r) /\ r[3] \in Opponents("ChangeAgent", r)
        /\ r[2] \in Opponents("HardwareAgent", r)
    BY <1>1 DEF Shaped, Opponents
  <1>3. QED
    BY <1>2 DEF Shaped

\* The round of rebuttals after any round.
Rebuttals(ctx) ==
  <<Argument("SymbolAgent", ctx.symbolWords, Times(SymbolConfidence(ctx), 90)),
    IF ctx.top = NoneFound THEN Argument("ChangeAgent", {"change"}, Percent(10))
    ELSE Argument("ChangeAgent", {"change"} \union ctx.changeWords \union {"hardware"},
                  Times(TopConfidence(ctx), 85)),
    IF ctx.hw = "critical" THEN Argument("HardwareAgent", {"hardware"} \union {"change"}, Percent(70))
    ELSE Argument("HardwareAgent", {"hardware"}, Percent(15))>>

LEMMA RebutSame ==
  ASSUME NEW ctx, NEW r, Shaped(r)
  PROVE  RebutRound(r, ctx) = Rebuttals(ctx)
  <1>1. SymbolRebut(Opponents("SymbolAgent", r), ctx) = Rebuttals(ctx)[1]
    BY Challenges DEF SymbolRebut, Rebuttals
  <1>2. ChangeRebut(Opponents("ChangeAgent", r), ctx) = Rebuttals(ctx)[2]
    BY Challenges DEF ChangeRebut, Rebuttals
  <1>3. HardwareRebut(Opponents("HardwareAgent", r), ctx) = Rebuttals(ctx)[3]
    BY Challenges DEF HardwareRebut, Rebuttals
  <1>4. Rebuttals(ctx) = <<Rebuttals(ctx)[1], Rebuttals(ctx)[2], Rebuttals(ctx)[3]>>
    BY DEF Rebuttals
  <1>5. QED
    BY <1>1, <1>2, <1>3, <1>4 DEF RebutRound

LEMMA RebuttalsShaped ==
  ASSUME NEW ctx, Readable(ctx)
  PROVE  Shaped(Rebuttals(ctx))
  <1>1. /\ Rebuttals(ctx)[1].agent = "SymbolAgent"
        /\ Rebuttals(ctx)[1].confidence \in Nat
    BY AgentNumbers, Cut DEF Rebuttals, Argument
  <1>2. /\ Rebuttals(ctx)[2].agent = "ChangeAgent"
        /\ Rebuttals(ctx)[2].confidence \in Nat
        /\ "change" \in Rebuttals(ctx)[2].words
    BY AgentNumbers, Cut DEF Rebuttals, Argument, Percent
  <1>3. /\ Rebuttals(ctx)[3].agent = "HardwareAgent"
        /\ Rebuttals(ctx)[3].confidence \in Nat
        /\ "hardware" \in Rebuttals(ctx)[3].words
    BY DEF Rebuttals, Argument, Percent
  <1>4. Rebuttals(ctx) = <<Rebuttals(ctx)[1], Rebuttals(ctx)[2], Rebuttals(ctx)[3]>>
    BY DEF Rebuttals
  <1>5. QED
    BY <1>1, <1>2, <1>3, <1>4 DEF Shaped

\* The strongest argument of a round is one of the three, and none is stronger.
LEMMA StrongestOfThree ==
  ASSUME NEW r, Shaped(r)
  PROVE  \E i \in 1..3 : /\ Strongest(r) = r[i]
                        /\ \A j \in 1..3 : r[i].confidence >= r[j].confidence
  <1> DEFINE best == {i \in 1..Len(r) : \A j \in DOMAIN r : r[i].confidence >= r[j].confidence}
  <1>1. Len(r) = 3 /\ DOMAIN r = 1..3
    BY DEF Shaped
  <1>2. r[1].confidence \in Nat /\ r[2].confidence \in Nat /\ r[3].confidence \in Nat
    BY DEF Shaped
  <1>3. \E i \in 1..3 : \A j \in 1..3 : r[i].confidence >= r[j].confidence
    BY <1>2
  <1>4. best # {} /\ best \subseteq 1..3
    BY <1>1, <1>3
  <1>5. Min(best) \in best
    <2>1. \E x \in best : \A y \in best : x =< y
      BY <1>4
    <2> HIDE DEF best
    <2>2. QED
      BY <2>1 DEF Min
  <1>6. Strongest(r) = r[Min(best)]
    BY <1>4 DEF Strongest, SelectInSeq
  <1>7. QED
    BY <1>1, <1>4, <1>5, <1>6

\* A verdict is the argument of an agent that no other agent's is stronger than,
\* at its confidence or, without consensus, at a cut of it.
LEMMA VerdictOf ==
  ASSUME NEW m, Shaped(Last(m))
  PROVE  \E i \in 1..3 :
           /\ Verdict(m).agent = Last(m)[i].agent
           /\ Verdict(m).confidence \in {Last(m)[i].confidence, Times(Last(m)[i].confidence, 85)}
           /\ \A j \in 1..3 : Last(m)[i].confidence >= Last(m)[j].confidence
  <1>1. PICK i \in 1..3 : /\ Strongest(Last(m)) = Last(m)[i]
                          /\ \A j \in 1..3 : Last(m)[i].confidence >= Last(m)[j].confidence
    BY StrongestOfThree
  <1>2. /\ Verdict(m).agent = Last(m)[i].agent
        /\ Verdict(m).confidence \in {Last(m)[i].confidence, Times(Last(m)[i].confidence, 85)}
    BY <1>1 DEF Verdict
  <1>3. QED
    BY <1>1, <1>2

\* With nothing but defaults to go by, no agent ever gets to 0.6.
LEMMA UnsureWithoutGrounds ==
  ASSUME NEW ctx, ctx.confidence \in {Unstated, Percent(10)}, ctx.top \in {NoneFound, 0},
         ctx.hw \in {"none", "warning"},
         NEW r \in {InitialRound(ctx), Rebuttals(ctx)}, NEW i \in 1..3
  PROVE  r[i].confidence < Percent(60)
  <1>1. SymbolConfidence(ctx) \in {Percent(50), Percent(10)}
    BY DEF SymbolConfidence
  <1>2. ctx.top # NoneFound => TopConfidence(ctx) \in {Percent(30), 0}
    BY DEF TopConfidence
  <1>3. i = 1 \/ i = 2 \/ i = 3
    OBVIOUS
  <1>4. CASE r = InitialRound(ctx)
    <2>1. /\ SymbolInitial(ctx).confidence < Percent(60)
          /\ ChangeInitial(ctx).confidence < Percent(60)
          /\ HardwareInitial(ctx).confidence < Percent(60)
      BY <1>1, <1>2 DEF SymbolInitial, ChangeInitial, HardwareInitial, Argument, Percent
    <2>2. QED
      BY <1>3, <1>4, <2>1 DEF InitialRound
  <1>5. CASE r = Rebuttals(ctx)
    <2>1. Rebuttals(ctx)[1].confidence < Percent(60)
      BY <1>1 DEF Rebuttals, Argument, Percent, Times
    <2>2. Rebuttals(ctx)[2].confidence < Percent(60)
      BY <1>2 DEF Rebuttals, Argument, Percent, Times
    <2>3. Rebuttals(ctx)[3].confidence < Percent(60)
      BY DEF Rebuttals, Argument, Percent
    <2>4. QED
      BY <1>3, <1>5, <2>1, <2>2, <2>3
  <1>6. QED
    BY <1>4, <1>5

\* With both phases missing every argument is valid and the symbol agent's default
\* is the strongest.
LEMMA OutageRounds ==
  ASSUME NEW ctx, ctx.confidence = Unstated, ctx.top = NoneFound, ctx.hw = "none",
         NEW r \in {InitialRound(ctx), Rebuttals(ctx)}
  PROVE  /\ Shaped(r)
         /\ r[1].confidence \in {Percent(50), Percent(45)}
         /\ r[2].confidence <= Percent(15) /\ r[3].confidence <= Percent(15)
         /\ \A i \in 1..3 : Valid(r[i])
  <1>1. Readable(ctx)
    BY DEF Readable
  <1>2. Shaped(r)
    BY <1>1, InitialShaped, RebuttalsShaped
  <1>3. CASE r = InitialRound(ctx)
    <2>1. SymbolInitial(ctx).confidence = Percent(50)
      BY DEF SymbolInitial, SymbolConfidence, Argument
    <2>2. /\ ChangeInitial(ctx).confidence = Percent(10)
          /\ HardwareInitial(ctx).confidence = Percent(10)
      BY DEF ChangeInitial, HardwareInitial, Argument
    <2>3. r[1].confidence = Percent(50) /\ r[2].confidence = Percent(10) /\ r[3].confidence = Percent(10)
      BY <1>3, <2>1, <2>2 DEF InitialRound
    <2>4. QED
      BY <1>2, <2>3 DEF Percent, Valid, One
  <1>4. CASE r = Rebuttals(ctx)
    <2>1. Rebuttals(ctx)[1].confidence = Percent(45)
      BY DEF Rebuttals, SymbolConfidence, Argument, Times, Percent
    <2>2. Rebuttals(ctx)[2].confidence = Percent(10)
      BY DEF Rebuttals, Argument
    <2>3. Rebuttals(ctx)[3].confidence = Percent(15)
      BY DEF Rebuttals, Argument
    <2>4. QED
      BY <1>2, <1>4, <2>1, <2>2, <2>3 DEF Percent, Valid, One
  <1>5. QED
    BY <1>3, <1>4

-------------------------------------------------------------------------------
(* The inductive invariant of a run *)

Phase1Values == {NoPhase, Phase1Fallback, Phase1Array} \union Phase1Objects
Phase2Values == {NoPhase, Phase2Fallback} \union Phase2Objects

ReportType ==
  [status : {"completed", "failed", "cached", "raised"}, severity : 0..CRITICAL,
   phase1 : Phase1Values, phase2 : Phase2Values, hw : {"none", "warning", "critical"},
   rootCause : AgentNames \union {NoAgent}, confidence : 0..One,
   verdictAgent : AgentNames \union {NoAgent}, patch : {"none", "llm", "template"},
   patchValid : BOOLEAN, outage : BOOLEAN]

StageType == [name : StageNames, ok : BOOLEAN]

Filled == report \in ReportType /\ stages \in Seq(StageType)

\* The hardware errors are kept with phase 2 or not at all.
Phased == report.phase2 = NoPhase => report.hw = "none"

\* A run starts with no argument, verdict or patch.
Early == {"collect", "lookup", "severity", "phase1", "phase2"}

Ordered ==
  /\ at \in Early => memory = <<>>
  /\ at \in Early \union {"debate"} => report.verdictAgent = NoAgent
  /\ at \in Early \union {"debate", "patch"} => report.patch = "none"

\* Every argument of the debate is a function of the report's phases, which the
\* debate does not change: the first round, and one and the same round of
\* rebuttals from then on.
RoundAt(i) == IF i = 1 THEN InitialRound(Context) ELSE Rebuttals(Context)

Debated ==
  memory # <<>> =>
    /\ report.phase1.kind # "array"
    /\ memory \in Seq({InitialRound(Context), Rebuttals(Context)})
    /\ \A i \in DOMAIN memory : memory[i] = RoundAt(i) /\ \A j \in 1..3 : Valid(memory[i][j])

\* What NoPatchWithoutGrounds asks of a diagnosis.
Grounds ==
  "object" \in {report.phase1.kind, report.phase2.kind} \/ report.hw = "critical"

\* A confident verdict has grounds, and a patch is asked for if the verdict is
\* confident enough.
Grounded ==
  /\ report.verdictAgent # NoAgent /\ report.confidence >= Percent(60) => Grounds
  /\ at = "patch" /\ report.verdictAgent # NoAgent => report.confidence >= command.minConfidence

IInv ==
  /\ TypeOK /\ Filled /\ Phased /\ Ordered /\ Debated /\ Grounded
  /\ NoPatchWithoutGrounds /\ OutageVerdict

-------------------------------------------------------------------------------
(* Types *)

\* The phases' results as the debate reads them, unless phase 1's is a list.
LEMMA ContextReadable ==
  ASSUME Filled, report.phase1.kind # "array"
  PROVE  Readable(Context)
  <1>1. /\ report.phase1 \in Phase1Values /\ report.phase2 \in Phase2Values
        /\ report.hw \in {"none", "warning", "critical"}
    BY DEF Filled, ReportType
  <1>2. report.phase1.kind # "none" => report.phase1.confidence \in Nat \union {Unstated}
    BY <1>1, AnswersAssumption DEF Phase1Values, NoPhase, Phase1Fallback, Phase1Array, Percent
  <1>3. report.phase2.kind # "none" => report.phase2.top \in Nat \union {Unstated, NoneFound}
    BY <1>1, AnswersAssumption DEF Phase2Values, NoPhase, Phase2Fallback
  <1>4. QED
    BY <1>1, <1>2, <1>3 DEF Readable, Context

\* The next round, whatever the phases gave.
LEMMA RoundNext ==
  ASSUME Filled, Debated, report.phase1.kind # "array"
  PROVE  /\ memory = <<>> => NextRound(memory, Context) = InitialRound(Context)
         /\ memory # <<>> => NextRound(memory, Context) = Rebuttals(Context)
         /\ memory # <<>> => Last(memory) \in {InitialRound(Context), Rebuttals(Context)}
         /\ Shaped(InitialRound(Context)) /\ Shaped(Rebuttals(Context))
         /\ Shaped(NextRound(memory, Context))
  <1>1. Shaped(InitialRound(Context)) /\ Shaped(Rebuttals(Context))
    BY ContextReadable, InitialShaped, RebuttalsShaped
  <1>2. memory # <<>> => Last(memory) \in {InitialRound(Context), Rebuttals(Context)}
    BY DEF Debated, Last
  <1>3. memory # <<>> => NextRound(memory, Context) = Rebuttals(Context)
    BY <1>1, <1>2, RebutSame DEF NextRound
  <1>4. QED
    BY <1>1, <1>2, <1>3 DEF NextRound

\* self._stages stays a list of stage results.
LEMMA StageAdded ==
  ASSUME stages \in Seq(StageType), NEW name \in StageNames, NEW ok \in BOOLEAN, NEW next,
         Stage(name, ok, next)
  PROVE  stages' \in Seq(StageType) /\ at' = next
  BY DEF Stage, StageType

Ats == {"done", "collect", "lookup", "severity", "phase1", "phase2", "debate", "patch", "save"}

StoreType == [Fingerprints -> Entry \union {NoEntry}]

LEMMA TypeParts ==
  Filled /\ at \in Ats /\ command \in Commands /\ store \in StoreType /\ llmUp \in BOOLEAN
    => TypeOK
  <1> SUFFICES ASSUME Filled, at \in Ats, command \in Commands, store \in StoreType, llmUp \in BOOLEAN
               PROVE  TypeOK
    OBVIOUS
  <1>1. \A i \in DOMAIN stages : stages[i] \in StageType
    BY DEF Filled
  <1>2. QED
    BY <1>1 DEF Filled, ReportType, StageType, TypeOK, Ats, StoreType

\* A fingerprint of a crash that a command names.
LEMMA FingerprintKnown ==
  ASSUME command \in Commands
  PROVE  Fingerprint \in Fingerprints /\ command.crash \in Crashes /\ command.minConfidence \in 0..One
  BY CommandsAssumption DEF Fingerprint, Fingerprints, CommandType

LEMMA OneType == One \in Nat
  BY DEF One

\* The verdict of a debate has an agent's name and a confidence up to 1.0, and
\* was reached without grounds only below 0.6.
LEMMA VerdictBounds ==
  ASSUME Filled, Debated, memory # <<>>
  PROVE  /\ Verdict(memory).agent \in AgentNames
         /\ Verdict(memory).confidence \in 0..One
         /\ Verdict(memory).confidence >= Percent(60) => Grounds
  <1> DEFINE last == Last(memory)
  <1>1. /\ Shaped(last) /\ last \in {InitialRound(Context), Rebuttals(Context)}
        /\ report.phase1.kind # "array"
    BY RoundNext DEF Debated
  <1>2. \A i \in 1..3 : last[i].confidence \in 0..One /\ last[i].agent \in AgentNames
    <2>1. \A j \in 1..3 : Valid(last[j])
      BY DEF Debated, Last
    <2>2. QED
      BY <1>1, <2>1, OneType DEF Shaped, Valid, AgentNames
  <1>3. ~Grounds => \A i \in 1..3 : last[i].confidence < Percent(60)
    <2> SUFFICES ASSUME ~Grounds PROVE \A i \in 1..3 : last[i].confidence < Percent(60)
      OBVIOUS
    <2>1. /\ report.phase1 \in {NoPhase, Phase1Fallback} /\ report.phase2 \in {NoPhase, Phase2Fallback}
          /\ report.hw \in {"none", "warning"}
      BY <1>1, AnswersAssumption DEF Filled, ReportType, Grounds, Phase1Values, Phase2Values, Phase1Array
    <2>2. /\ Context.confidence \in {Unstated, Percent(10)} /\ Context.top \in {NoneFound, 0}
          /\ Context.hw \in {"none", "warning"}
      BY <2>1 DEF Context, NoPhase, Phase1Fallback, Phase2Fallback
    <2>3. QED
      BY <1>1, <2>2, UnsureWithoutGrounds
  <1> HIDE DEF last
  <1>4. PICK i \in 1..3 : /\ Verdict(memory).agent = last[i].agent
                          /\ Verdict(memory).confidence \in {last[i].confidence, Times(last[i].confidence, 85)}
    BY <1>1, VerdictOf DEF last
  <1>5. Verdict(memory).confidence \in Nat /\ Verdict(memory).confidence <= last[i].confidence
    <2>1. last[i].confidence \in Nat
      BY <1>2, OneType
    <2>2. /\ Times(last[i].confidence, 85) \in Nat
          /\ Times(last[i].confidence, 85) <= last[i].confidence
      BY <2>1, Cut
    <2>3. QED
      BY <1>4, <2>1, <2>2
  <1>6. last[i].confidence \in Nat /\ last[i].confidence <= One /\ last[i].agent \in AgentNames
    BY <1>2, OneType
  <1>7. Verdict(memory).confidence \in 0..One
    BY <1>5, <1>6, OneType
  <1>8. ~Grounds => last[i].confidence < Percent(60)
    BY <1>3
  <1>9. QED
    <2>1. Percent(60) \in Nat
      BY DEF Percent
    <2>2. ASSUME ~Grounds PROVE ~(Verdict(memory).confidence >= Percent(60))
      BY <1>5, <1>6, <1>8, <2>1, <2>2
    <2>3. QED
      BY <1>4, <1>6, <1>7, <2>2

\* The rating of a crash is one of the four levels.
LEMMA LevelAssessed ==
  ASSUME command \in Commands
  PROVE  AssessedLevel(FingerprintOf(command.crash), DumpOf[command.crash].criticalErrors,
                       DumpOf[command.crash].siblings) \in 0..CRITICAL
  <1>1. DumpOf[command.crash] \in DumpType
    BY FingerprintKnown, DumpsAssumption
  <1>2. DumpOf[command.crash].criticalErrors \in Nat /\ DumpOf[command.crash].siblings \in Nat
    BY <1>1 DEF DumpType
  <1>3. AssessedLevel(FingerprintOf(command.crash), DumpOf[command.crash].criticalErrors,
                      DumpOf[command.crash].siblings) \in LOW..CRITICAL
    BY <1>2, ScoreInRange
  <1>4. QED
    BY <1>3 DEF LOW, CRITICAL

\* A report has its defaults.
LEMMA NewReportTyped == NewReport \in ReportType
  <1>1. NoPhase \in Phase1Values /\ NoPhase \in Phase2Values
    BY DEF Phase1Values, Phase2Values
  <1>2. One \in Nat /\ CRITICAL \in Nat
    BY OneType DEF CRITICAL
  <1>3. 0 \in 0..One /\ 0 \in 0..CRITICAL
    BY <1>2
  <1>4. QED
    BY <1>1, <1>3 DEF NewReport, ReportType

\* Every step keeps the types.
LEMMA TypeStep ==
  ASSUME TypeOK, Filled, Debated, [Next]_vars
  PROVE  TypeOK' /\ Filled'
  <1> DEFINE Typed == /\ Filled' /\ at' \in Ats /\ command' \in Commands /\ store' \in StoreType
                      /\ llmUp' \in BOOLEAN
  <1>1. /\ report \in ReportType /\ stages \in Seq(StageType) /\ at \in Ats
        /\ command \in Commands /\ store \in StoreType /\ llmUp \in BOOLEAN
    BY DEF TypeOK, Filled, Ats, StoreType
  <1>2. Fingerprint \in Fingerprints
    BY <1>1, FingerprintKnown
  <1>3. SUFFICES Typed
    <2>1. Typed => TypeOK'
      <3> SUFFICES ASSUME Typed PROVE TypeOK'
        OBVIOUS
      <3>1. \A i \in DOMAIN stages' : stages'[i] \in StageType
        BY DEF Filled
      <3>2. QED
        BY <3>1 DEF Filled, ReportType, StageType, TypeOK, Ats, StoreType
    <2>2. QED
      BY <1>3, <2>1
  <1>4. ASSUME NEW name \in StageNames, NEW ok \in BOOLEAN, NEW next \in Ats, Stage(name, ok, next),
               report' \in ReportType, UNCHANGED <<command, store, llmUp>>
        PROVE  Typed
    BY <1>1, <1>4, StageAdded DEF Filled
  <1>5. ASSUME at' \in Ats, report' \in ReportType, UNCHANGED <<command, stages, llmUp>>, store' \in StoreType
        PROVE  Typed
    BY <1>1, <1>5 DEF Filled
  <1> HIDE DEF Typed
  <1> USE DEF Ats, StageNames
  <1>6. CASE Start
    <2>1. NewReport \in ReportType
      BY NewReportTyped
    <2>2. stages' \in Seq(StageType)
      BY <1>6 DEF Start
    <2>3. QED
      BY <1>1, <1>6, <2>1, <2>2 DEF Start, Typed, Filled
  <1>7. CASE Collect
    BY <1>1, <1>4, <1>7 DEF Collect
  <1>8. CASE CollectFails
    <2>1. report' \in ReportType
      BY <1>1, <1>8 DEF CollectFails, ReportType
    <2>2. QED
      BY <1>4, <1>8, <2>1 DEF CollectFails
  <1>9. CASE LookupHit
    <2>1. store[Fingerprint] \in Entry
      BY <1>1, <1>2, <1>9 DEF LookupHit, Usable, StoreType
    <2>2. report' \in ReportType
      BY <1>1, <1>9, <2>1 DEF LookupHit, ReportType, Entry
    <2>3. QED
      BY <1>1, <1>5, <1>9, <2>2 DEF LookupHit
  <1>10. CASE LookupMiss
    BY <1>1, <1>2, <1>5, <1>10 DEF LookupMiss, StoreType
  <1>11. CASE LookupRaises
    <2>1. report' \in ReportType
      BY <1>1, <1>11 DEF LookupRaises, ReportType
    <2>2. QED
      BY <1>1, <1>5, <1>11, <2>1 DEF LookupRaises
  <1>12. CASE AssessSeverity
    <2>1. PICK ok \in BOOLEAN : Stage("severity", ok, "phase1") /\ UNCHANGED <<command, store, llmUp>>
      BY <1>12 DEF AssessSeverity
    <2>2. \E level \in 0..CRITICAL : report' = [report EXCEPT !.severity = level]
      BY <1>1, <1>12, LevelAssessed DEF AssessSeverity, CRITICAL
    <2>3. report' \in ReportType
      BY <1>1, <2>2 DEF ReportType
    <2>4. QED
      BY <1>4, <2>1, <2>3
  <1>13. CASE Phase1
    <2>1. PICK answer \in Phase1Objects \union {Phase1Fallback, Phase1Array} :
            /\ report' = [report EXCEPT !.phase1 = answer]
            /\ Stage("phase1_semantic", answer # Phase1Array, "phase2")
      BY <1>13 DEF Phase1
    <2>2. report' \in ReportType
      BY <1>1, <2>1 DEF ReportType, Phase1Values
    <2>3. (answer # Phase1Array) \in BOOLEAN
      OBVIOUS
    <2>4. QED
      BY <1>4, <1>13, <2>1, <2>2, <2>3 DEF Phase1
  <1>14. CASE Phase1Fails
    <2>1. report' \in ReportType
      BY <1>1, <1>14 DEF Phase1Fails, ReportType
    <2>2. QED
      BY <1>4, <1>14, <2>1 DEF Phase1Fails
  <1>15. CASE Phase2
    <2>1. report' \in ReportType
      BY <1>1, <1>15 DEF Phase2, ReportType, Phase2Values
    <2>2. QED
      BY <1>4, <1>15, <2>1 DEF Phase2
  <1>16. CASE Phase2Fails
    <2>1. report' \in ReportType
      BY <1>1, <1>16 DEF Phase2Fails, ReportType
    <2>2. QED
      BY <1>4, <1>16, <2>1 DEF Phase2Fails
  <1>17. CASE DebateRound
    BY <1>1, <1>5, <1>17 DEF DebateRound
  <1>18. CASE Resolve
    <2>1. Verdict(memory).agent \in AgentNames /\ Verdict(memory).confidence \in 0..One
      BY <1>18, VerdictBounds DEF Resolve
    <2>2. report' \in ReportType
      BY <1>1, <1>18, <2>1 DEF Resolve, ReportType
    <2>3. QED
      BY <1>4, <1>18, <2>2 DEF Resolve
  <1>19. CASE DebateFails
    BY <1>1, <1>4, <1>19 DEF DebateFails
  <1>20. CASE Patch
    <2>1. PICK code : /\ code \in {EbpfTemplate, KpatchTemplate} \union Messages
                      /\ report' = [report EXCEPT !.patch = code.from, !.patchValid = SyntaxOk(code)]
      <3>1. /\ KpatchGenerate(llmUp) \subseteq {EbpfTemplate, KpatchTemplate} \union Messages
            /\ EbpfGenerate(llmUp) \subseteq {EbpfTemplate, KpatchTemplate} \union Messages
        BY DEF KpatchGenerate, EbpfGenerate
      <3>2. CASE command.patchType = "kpatch"
        BY <1>20, <3>1, <3>2 DEF Patch
      <3>3. CASE command.patchType # "kpatch"
        BY <1>20, <3>1, <3>3 DEF Patch
      <3>4. QED
        BY <3>2, <3>3
    <2>2. code.from \in {"none", "llm", "template"} /\ SyntaxOk(code) \in BOOLEAN
      BY <2>1 DEF EbpfTemplate, KpatchTemplate, Messages, Text, SyntaxOk
    <2>3. report' \in ReportType
      BY <1>1, <2>1, <2>2 DEF ReportType
    <2>4. QED
      BY <1>4, <1>20, <2>3 DEF Patch
  <1>21. CASE PatchFails
    BY <1>1, <1>4, <1>21 DEF PatchFails
  <1>22. CASE Save
    <2>1. [rootCause |-> report.rootCause, confidence |-> report.confidence,
           outage |-> report.outage, expired |-> command.noCache] \in Entry
      BY <1>1, CommandsAssumption DEF ReportType, Entry, CommandType
    <2>2. store' \in StoreType
      BY <1>1, <1>2, <1>22, <2>1 DEF Save, StoreType
    <2>3. QED
      BY <1>1, <1>5, <1>22, <2>2 DEF Save
  <1>23. CASE SaveRaises
    <2>1. report' \in ReportType
      BY <1>1, <1>23 DEF SaveRaises, ReportType
    <2>2. QED
      BY <1>1, <1>5, <1>23, <2>1 DEF SaveRaises
  <1>24. ASSUME NEW f \in Fingerprints, Expire(f) PROVE Typed
    <2>1. store[f] \in Entry
      BY <1>1, <1>24 DEF Expire, StoreType
    <2>2. [store[f] EXCEPT !.expired = TRUE] \in Entry
      BY <2>1 DEF Entry
    <2>3. store' \in StoreType
      BY <1>1, <1>24, <2>2 DEF Expire, StoreType
    <2>4. QED
      BY <1>1, <1>5, <1>24, <2>3 DEF Expire
  <1>25. ASSUME NEW f \in Fingerprints, Forget(f) PROVE Typed
    BY <1>1, <1>5, <1>25 DEF Forget, StoreType
  <1>26. CASE LLMChanges
    BY <1>1, <1>26 DEF LLMChanges, Typed, Filled
  <1>27. CASE UNCHANGED vars
    BY <1>1, <1>5, <1>27 DEF vars
  <1>28. CASE Step
    BY <1>28, <1>7, <1>8, <1>9, <1>10, <1>11, <1>12, <1>13, <1>14, <1>15, <1>16, <1>17, <1>18, <1>19,
       <1>20, <1>21, <1>22, <1>23 DEF Step
  <1>29. QED
    BY <1>6, <1>24, <1>25, <1>26, <1>27, <1>28 DEF Next

-------------------------------------------------------------------------------
(* What a step does to a run *)

\* The phases' results, which the debate and its verdict are about.
SamePhases ==
  report'.phase1 = report.phase1 /\ report'.phase2 = report.phase2 /\ report'.hw = report.hw

\* A step up to the debate: no verdict, no patch yet, nor a round.
EarlyStep ==
  /\ at \in Early
  /\ at' \in Early \union {"debate", "done"}
  /\ memory' = memory
  /\ report'.verdictAgent = report.verdictAgent /\ report'.patch = report.patch

\* A step that at most ends the run, or its attempt at a patch.
QuietStep ==
  /\ at' \in {at, "done"} \/ (at = "patch" /\ at' = "save")
  /\ memory' = memory /\ command' = command
  /\ report' = report \/ report' = [report EXCEPT !.status = "raised"]

LEMMA StepKinds ==
  ASSUME TypeOK, Filled, [Next]_vars
  PROVE  Start \/ EarlyStep \/ DebateRound \/ Resolve \/ DebateFails \/ Patch \/ QuietStep
  <1>1. report \in ReportType
    BY DEF Filled
  <1>2. CASE Collect \/ CollectFails
    BY <1>1, <1>2 DEF Collect, CollectFails, Stage, EarlyStep, Early, ReportType
  <1>3. CASE LookupHit \/ LookupMiss \/ LookupRaises
    BY <1>1, <1>3 DEF LookupHit, LookupMiss, LookupRaises, EarlyStep, Early, ReportType
  <1>4. CASE AssessSeverity
    <2>1. PICK level : report' = [report EXCEPT !.severity = level]
      BY <1>4 DEF AssessSeverity
    <2>2. QED
      BY <1>1, <1>4, <2>1 DEF AssessSeverity, Stage, EarlyStep, Early, ReportType
  <1>5. CASE Phase1 \/ Phase1Fails
    BY <1>1, <1>5 DEF Phase1, Phase1Fails, Stage, EarlyStep, Early, ReportType
  <1>6. CASE Phase2 \/ Phase2Fails
    BY <1>1, <1>6 DEF Phase2, Phase2Fails, Stage, EarlyStep, Early, ReportType
  <1>7. CASE PatchFails \/ Save \/ SaveRaises
    BY <1>7 DEF PatchFails, Save, SaveRaises, Stage, QuietStep
  <1>8. ASSUME NEW f \in Fingerprints, Expire(f) \/ Forget(f)
        PROVE  QuietStep
    BY <1>8 DEF Expire, Forget, QuietStep
  <1>9. CASE LLMChanges
    BY <1>9 DEF LLMChanges, QuietStep
  <1>10. CASE UNCHANGED vars
    BY <1>10 DEF vars, QuietStep
  <1>11. QED
    BY <1>2, <1>3, <1>4, <1>5, <1>6, <1>7, <1>8, <1>9, <1>10 DEF Next, Step

\* The hardware errors come with phase 2.
LEMMA PhasedStep ==
  ASSUME TypeOK, Filled, Phased, [Next]_vars
  PROVE  Phased'
  <1>1. report \in ReportType
    BY DEF Filled
  <1>2. CASE Phase2
    <2>1. PICK answer \in Phase2Objects \union {Phase2Fallback}, hw \in {"none", "warning", "critical"} :
            report' = [report EXCEPT !.phase2 = answer, !.hw = hw]
      BY <1>2 DEF Phase2
    <2>2. answer # NoPhase
      BY AnswersAssumption DEF Phase2Fallback, NoPhase
    <2>3. report'.phase2 = answer
      BY <1>1, <2>1 DEF ReportType
    <2>4. QED
      BY <2>2, <2>3 DEF Phased
  <1>3. CASE Start
    BY <1>3 DEF Start, NewReport, Phased
  <1>4. ASSUME report'.phase2 = report.phase2, report'.hw = report.hw
        PROVE  Phased'
    BY <1>4 DEF Phased
  <1>5. CASE Collect \/ CollectFails \/ LookupHit \/ LookupMiss \/ LookupRaises
    BY <1>1, <1>4, <1>5 DEF Collect, CollectFails, LookupHit, LookupMiss, LookupRaises, ReportType
  <1>6. CASE AssessSeverity
    <2>1. PICK level : report' = [report EXCEPT !.severity = level]
      BY <1>6 DEF AssessSeverity
    <2>2. QED
      BY <1>1, <1>4, <2>1 DEF ReportType
  <1>7. CASE Phase1 \/ Phase1Fails \/ Phase2Fails
    BY <1>1, <1>4, <1>7 DEF Phase1, Phase1Fails, Phase2Fails, ReportType
  <1>8. CASE DebateRound \/ DebateFails \/ PatchFails \/ Save \/ SaveRaises
    BY <1>1, <1>4, <1>8 DEF DebateRound, DebateFails, PatchFails, Save, SaveRaises, ReportType
  <1>9. CASE Resolve \/ Patch
    <2>1. CASE Resolve
      BY <1>1, <1>4, <2>1 DEF Resolve, ReportType
    <2>2. CASE Patch
      <3>1. PICK from, ok : report' = [report EXCEPT !.patch = from, !.patchValid = ok]
        BY <2>2 DEF Patch
      <3>2. QED
        BY <1>1, <1>4, <3>1 DEF ReportType
    <2>3. QED
      BY <1>9, <2>1, <2>2
  <1>10. ASSUME NEW f \in Fingerprints, Expire(f) \/ Forget(f)
         PROVE  Phased'
    BY <1>4, <1>10 DEF Expire, Forget
  <1>11. CASE LLMChanges \/ UNCHANGED vars
    BY <1>4, <1>11 DEF LLMChanges, vars
  <1>12. QED
    BY <1>2, <1>3, <1>5, <1>6, <1>7, <1>8, <1>9, <1>10, <1>11 DEF Next, Step

\* What follows for the debate, the verdict and the patch.
LEMMA ResolveParts ==
  ASSUME Filled, Resolve
  PROVE  /\ SamePhases /\ memory' = memory /\ command' = command /\ at = "debate"
         /\ memory # <<>> /\ Len(memory) = command.rounds
         /\ report'.verdictAgent = Verdict(memory).agent
         /\ report'.confidence = Verdict(memory).confidence /\ report'.patch = report.patch
         /\ at' = IF PatchWanted(Verdict(memory).confidence) THEN "patch" ELSE "save"
  <1>1. report \in ReportType
    BY DEF Filled
  <1>2. QED
    BY <1>1 DEF Resolve, Stage, SamePhases, ReportType

LEMMA PatchParts ==
  ASSUME Filled, Patch
  PROVE  /\ SamePhases /\ memory' = memory /\ command' = command /\ at = "patch" /\ at' = "save"
         /\ report.verdictAgent # NoAgent
         /\ report'.verdictAgent = report.verdictAgent /\ report'.confidence = report.confidence
  <1>1. report \in ReportType
    BY DEF Filled
  <1>2. PICK from, ok : report' = [report EXCEPT !.patch = from, !.patchValid = ok]
    BY DEF Patch
  <1>3. QED
    BY <1>1, <1>2 DEF Patch, Stage, SamePhases, ReportType

LEMMA QuietParts ==
  ASSUME Filled, QuietStep
  PROVE  /\ SamePhases
         /\ report'.verdictAgent = report.verdictAgent /\ report'.confidence = report.confidence
         /\ report'.patch = report.patch
  <1>1. report \in ReportType
    BY DEF Filled
  <1>2. QED
    BY <1>1 DEF QuietStep, SamePhases, ReportType

LEMMA OrderedStep ==
  ASSUME TypeOK, Filled, Ordered, [Next]_vars
  PROVE  Ordered'
  <1>1. CASE Start
    BY <1>1 DEF Start, NewReport, Ordered, Early
  <1>2. CASE EarlyStep
    BY <1>2 DEF EarlyStep, Ordered, Early
  <1>3. CASE DebateRound
    BY <1>3 DEF DebateRound, Ordered, Early
  <1>4. CASE Resolve
    BY <1>4, ResolveParts DEF Ordered, Early
  <1>5. CASE DebateFails
    BY <1>5 DEF DebateFails, Stage, Ordered, Early
  <1>6. CASE Patch
    BY <1>6, PatchParts DEF Ordered, Early
  <1>7. CASE QuietStep
    BY <1>7, QuietParts DEF QuietStep, Ordered, Early
  <1>8. QED
    BY <1>1, <1>2, <1>3, <1>4, <1>5, <1>6, <1>7, StepKinds

\* The debate reads nothing but the phases' results.
LEMMA ContextKept ==
  ASSUME SamePhases
  PROVE  Context' = Context /\ Grounds' = Grounds
  BY DEF SamePhases, Context, Grounds

LEMMA DebatedStep ==
  ASSUME TypeOK, Filled, Ordered, Debated, [Next]_vars
  PROVE  Debated'
  <1>1. ASSUME SamePhases, memory' = memory
        PROVE  Debated'
    BY <1>1, ContextKept DEF Debated, RoundAt, SamePhases
  <1>2. CASE Start
    BY <1>2 DEF Start, Debated
  <1>3. CASE EarlyStep
    BY <1>3 DEF EarlyStep, Ordered, Debated
  <1>4. CASE DebateRound
    <2> DEFINE round == NextRound(memory, Context)
    <2>1. /\ SamePhases /\ report.phase1.kind # "array" /\ memory' = Append(memory, round)
          /\ \A i \in DOMAIN round : Valid(round[i])
      BY <1>4 DEF DebateRound, SamePhases
    <2>2. Context' = Context /\ report'.phase1.kind # "array"
      BY <2>1, ContextKept DEF SamePhases
    <2>3. Shaped(round)
      BY <2>1, RoundNext
    <2>4. \A j \in 1..3 : Valid(round[j])
      BY <2>1, <2>3 DEF Shaped
    <2>5. /\ memory = <<>> => round = InitialRound(Context)
          /\ memory # <<>> => round = Rebuttals(Context)
      BY <2>1, RoundNext
    <2>6. CASE memory = <<>>
      <3>1. /\ memory' = <<round>> /\ round = InitialRound(Context)
        BY <2>1, <2>5, <2>6
      <3>2. /\ memory' \in Seq({InitialRound(Context), Rebuttals(Context)})
            /\ DOMAIN memory' = {1} /\ memory'[1] = InitialRound(Context)
        BY <3>1
      <3>3. memory'[1] = round
        BY <3>1, <3>2
      <3>4. QED
        BY <2>2, <2>4, <3>2, <3>3 DEF Debated, RoundAt
    <2>7. CASE memory # <<>>
      <3> DEFINE two == {InitialRound(Context), Rebuttals(Context)}
      <3>1. /\ memory \in Seq(two) /\ round \in two /\ round = Rebuttals(Context)
            /\ \A i \in DOMAIN memory : memory[i] = RoundAt(i) /\ \A j \in 1..3 : Valid(memory[i][j])
        BY <2>5, <2>7 DEF Debated
      <3> HIDE DEF two, round
      <3>2. /\ memory' \in Seq(two) /\ memory' # <<>> /\ DOMAIN memory' = 1..(Len(memory) + 1)
            /\ \A i \in 1..Len(memory) : memory'[i] = memory[i]
            /\ memory'[Len(memory) + 1] = round /\ Len(memory) \in Nat
        BY <2>1, <3>1
      <3>3. Len(memory) # 0
        BY <2>7, <3>1
      <3>4. RoundAt(Len(memory) + 1) = round
        BY <3>1, <3>2, <3>3 DEF RoundAt
      <3>5. \A i \in 1..Len(memory) : memory'[i] = RoundAt(i) /\ \A j \in 1..3 : Valid(memory'[i][j])
        BY <3>1, <3>2
      <3>6. \A i \in DOMAIN memory' : memory'[i] = RoundAt(i) /\ \A j \in 1..3 : Valid(memory'[i][j])
        <4> SUFFICES ASSUME NEW i \in 1..(Len(memory) + 1)
                     PROVE  memory'[i] = RoundAt(i) /\ \A j \in 1..3 : Valid(memory'[i][j])
          BY <3>2
        <4>1. i \in 1..Len(memory) \/ i = Len(memory) + 1
          BY <3>2
        <4>2. QED
          BY <2>4, <3>2, <3>4, <3>5, <4>1
      <3>7. RoundAt(1)' = RoundAt(1) /\ \A i \in DOMAIN memory' : RoundAt(i)' = RoundAt(i)
        BY <2>2 DEF RoundAt
      <3>8. QED
        BY <2>2, <3>2, <3>6, <3>7 DEF Debated, two, RoundAt
    <2>8. QED
      BY <2>6, <2>7
  <1>5. CASE Resolve
    BY <1>1, <1>5, ResolveParts
  <1>6. CASE DebateFails
    BY <1>1, <1>6 DEF DebateFails, SamePhases
  <1>7. CASE Patch
    BY <1>1, <1>7, PatchParts
  <1>8. CASE QuietStep
    BY <1>1, <1>8, QuietParts DEF QuietStep
  <1>9. QED
    BY <1>2, <1>3, <1>4, <1>5, <1>6, <1>7, <1>8, StepKinds

LEMMA GroundedStep ==
  ASSUME TypeOK, Filled, Ordered, Debated, Grounded, [Next]_vars
  PROVE  Grounded'
  <1>1. CASE Start
    BY <1>1 DEF Start, NewReport, Grounded
  <1>2. CASE EarlyStep
    BY <1>2 DEF EarlyStep, Ordered, Grounded, Early
  <1>3. CASE DebateRound
    BY <1>3 DEF DebateRound, Ordered, Grounded, Early
  <1>4. CASE Resolve
    <2>1. /\ SamePhases /\ memory # <<>> /\ command' = command
          /\ report'.confidence = Verdict(memory).confidence
          /\ at' = IF PatchWanted(Verdict(memory).confidence) THEN "patch" ELSE "save"
      BY <1>4, ResolveParts
    <2>2. Verdict(memory).confidence >= Percent(60) => Grounds
      BY <2>1, VerdictBounds
    <2>3. Grounds' = Grounds
      BY <2>1, ContextKept
    <2>4. at' = "patch" => report'.confidence >= command'.minConfidence
      BY <2>1 DEF PatchWanted
    <2>5. report'.confidence >= Percent(60) => Grounds'
      BY <2>1, <2>2, <2>3
    <2>6. QED
      BY <2>4, <2>5 DEF Grounded
  <1>5. CASE DebateFails
    BY <1>5 DEF DebateFails, Ordered, Grounded, Early
  <1>6. CASE Patch
    BY <1>6, PatchParts, ContextKept DEF Grounded
  <1>7. CASE QuietStep
    BY <1>7, QuietParts, ContextKept DEF QuietStep, Grounded
  <1>8. QED
    BY <1>1, <1>2, <1>3, <1>4, <1>5, <1>6, <1>7, StepKinds

-------------------------------------------------------------------------------
(* The properties *)

\* A patch for a diagnosis without grounds would need a confident verdict
\* without grounds.
LEMMA PatchStep ==
  ASSUME IInv, [Next]_vars
  PROVE  NoPatchWithoutGrounds'
  <1>1. TypeOK /\ Filled /\ Ordered /\ Grounded /\ NoPatchWithoutGrounds
    BY DEF IInv
  <1>2. CASE Start
    BY <1>2 DEF Start, NewReport, NoPatchWithoutGrounds
  <1>3. CASE EarlyStep
    BY <1>1, <1>3 DEF EarlyStep, Ordered, NoPatchWithoutGrounds, Early
  <1>4. CASE DebateRound
    BY <1>1, <1>4 DEF DebateRound, Ordered, NoPatchWithoutGrounds, Early
  <1>5. CASE Resolve
    BY <1>1, <1>5, ResolveParts DEF Ordered, NoPatchWithoutGrounds, Early
  <1>6. CASE DebateFails
    BY <1>1, <1>6 DEF DebateFails, Ordered, NoPatchWithoutGrounds, Early
  <1>7. CASE Patch
    <2>1. /\ SamePhases /\ command' = command /\ at = "patch" /\ report.verdictAgent # NoAgent
      BY <1>1, <1>7, PatchParts
    <2>2. report.confidence >= command.minConfidence
      BY <1>1, <2>1 DEF Grounded
    <2>3. ASSUME command.minConfidence >= Percent(60)
          PROVE  Grounds
      <3>1. command.minConfidence \in Nat /\ report.confidence \in Nat /\ Percent(60) \in Nat
        BY <1>1, FingerprintKnown, OneType DEF TypeOK, Percent
      <3>2. report.confidence >= Percent(60)
        BY <2>2, <2>3, <3>1
      <3>3. QED
        BY <1>1, <2>1, <3>2 DEF Grounded
    <2>4. QED
      BY <2>1, <2>3 DEF NoPatchWithoutGrounds, Grounds, SamePhases
  <1>8. CASE QuietStep
    BY <1>1, <1>8, QuietParts DEF QuietStep, NoPatchWithoutGrounds, SamePhases
  <1>9. QED
    BY <1>1, <1>2, <1>3, <1>4, <1>5, <1>6, <1>7, <1>8, StepKinds

\* What the debate has to go by when both phases are missing.
LEMMA NothingToGoBy ==
  ASSUME Filled, Phased, report.phase1.kind = "none", report.phase2.kind = "none"
  PROVE  Context.confidence = Unstated /\ Context.top = NoneFound /\ Context.hw = "none"
  <1>1. report.phase2 = NoPhase
    BY AnswersAssumption DEF Filled, ReportType, Phase2Values, Phase2Fallback
  <1>2. QED
    BY <1>1 DEF Phased, Context

\* The debate over nothing: the symbol agent wins, below any default threshold.
LEMMA OutageStep ==
  ASSUME IInv, [Next]_vars
  PROVE  OutageVerdict'
  <1>1. TypeOK /\ Filled /\ Phased /\ Ordered /\ Debated /\ OutageVerdict
    BY DEF IInv
  <1> DEFINE Missing == report.phase1.kind = "none" /\ report.phase2.kind = "none"
  <1>2. CASE Start
    BY <1>2 DEF Start, OutageVerdict
  <1>3. CASE EarlyStep
    BY <1>3 DEF EarlyStep, OutageVerdict, Early
  <1>4. CASE DebateRound
    BY <1>4 DEF DebateRound, OutageVerdict
  <1>5. CASE Resolve
    <2>1. /\ SamePhases /\ memory # <<>> /\ command' = command
          /\ report'.verdictAgent = Verdict(memory).agent
          /\ report'.confidence = Verdict(memory).confidence
      BY <1>1, <1>5, ResolveParts
    <2>2. ASSUME Missing
          PROVE  Verdict(memory).agent = "SymbolAgent" /\ Verdict(memory).confidence \in 1..Percent(59)
      <3> DEFINE last == Last(memory)
      <3>1. Context.confidence = Unstated /\ Context.top = NoneFound /\ Context.hw = "none"
        BY <1>1, <2>2, NothingToGoBy
      <3>2. last \in {InitialRound(Context), Rebuttals(Context)}
        BY <1>1, <2>1, RoundNext DEF Debated
      <3>3. /\ Shaped(last) /\ last[1].confidence \in {Percent(50), Percent(45)}
            /\ last[2].confidence <= Percent(15) /\ last[3].confidence <= Percent(15)
        BY <3>1, <3>2, OutageRounds
      <3> HIDE DEF last
      <3>4. PICK i \in 1..3 :
              /\ Verdict(memory).agent = last[i].agent
              /\ Verdict(memory).confidence \in {last[i].confidence, Times(last[i].confidence, 85)}
              /\ \A j \in 1..3 : last[i].confidence >= last[j].confidence
        BY <3>3, VerdictOf DEF last
      <3>5. last[2].confidence \in Nat /\ last[3].confidence \in Nat /\ last[1].agent = "SymbolAgent"
        BY <3>3 DEF Shaped
      <3>6. last[i].confidence >= last[1].confidence
        BY <3>4
      <3>7. i = 1
        BY <3>3, <3>5, <3>6 DEF Percent
      <3>8. last[1].confidence \in 1..Percent(59) /\ Times(last[1].confidence, 85) \in 1..Percent(59)
        <4> DEFINE conf == last[1].confidence
        <4>1. conf = 500000 \/ conf = 450000
          BY <3>3 DEF Percent
        <4>2. Percent(59) = 590000
          BY DEF Percent
        <4>3. /\ Times(conf, 85) = (conf * 85) \div 100
              /\ (500000 * 85) \div 100 = 425000 /\ (450000 * 85) \div 100 = 382500
          BY DEF Times
        <4>4. Times(conf, 85) = 425000 \/ Times(conf, 85) = 382500
          BY <4>1, <4>3
        <4>5. QED
          BY <4>1, <4>2, <4>4, SMT
      <3>9. Verdict(memory).confidence \in {last[1].confidence, Times(last[1].confidence, 85)}
        BY <3>4, <3>7
      <3>10. QED
        BY <3>4, <3>5, <3>7, <3>8, <3>9
    <2>3. QED
      BY <2>1, <2>2 DEF OutageVerdict, SamePhases
  <1>6. CASE DebateFails
    <2>1. report' = report /\ command' = command /\ memory' = memory
      BY <1>6 DEF DebateFails
    <2>2. ASSUME Missing, command.rounds > 0
          PROVE  FALSE
      <3>1. Context.confidence = Unstated /\ Context.top = NoneFound /\ Context.hw = "none"
        BY <1>1, <2>2, NothingToGoBy
      <3>2. NextRound(memory, Context) \in {InitialRound(Context), Rebuttals(Context)}
        BY <1>1, <2>2, RoundNext
      <3>3. \A i \in 1..3 : Valid(NextRound(memory, Context)[i])
        BY <3>1, <3>2, OutageRounds
      <3>4. command.rounds # 0
        BY <2>2
      <3>5. QED
        BY <1>6, <2>2, <3>3, <3>4 DEF DebateFails
    <2>3. QED
      BY <2>1, <2>2 DEF OutageVerdict
  <1>7. CASE Patch
    BY <1>1, <1>7, PatchParts DEF OutageVerdict, SamePhases
  <1>8. CASE QuietStep
    BY <1>1, <1>8, QuietParts DEF QuietStep, OutageVerdict, SamePhases
  <1>9. QED
    BY <1>1, <1>2, <1>3, <1>4, <1>5, <1>6, <1>7, <1>8, StepKinds

LEMMA InitInvariant == Init => IInv
  <1> SUFFICES ASSUME Init PROVE IInv
    OBVIOUS
  <1>1. report \in ReportType
    BY NewReportTyped DEF Init
  <1>2. stages \in Seq(StageType)
    BY DEF Init
  <1>3. store \in StoreType
    BY DEF Init, StoreType
  <1>4. TypeOK /\ Filled
    BY <1>1, <1>2, <1>3, TypeParts DEF Init, Filled, Ats
  <1>5. Phased /\ Ordered /\ Debated
    BY DEF Init, NewReport, Phased, Ordered, Debated
  <1>6. Grounded /\ NoPatchWithoutGrounds /\ OutageVerdict
    BY DEF Init, NewReport, Grounded, NoPatchWithoutGrounds, OutageVerdict
  <1>7. QED
    BY <1>4, <1>5, <1>6 DEF IInv

LEMMA NextInvariant == IInv /\ [Next]_vars => IInv'
  <1> SUFFICES ASSUME IInv, [Next]_vars PROVE IInv'
    OBVIOUS
  <1>1. TypeOK /\ Filled /\ Phased /\ Ordered /\ Debated /\ Grounded
    BY DEF IInv
  <1>2. TypeOK' /\ Filled'
    BY <1>1, TypeStep
  <1>3. Phased' /\ Ordered' /\ Debated' /\ Grounded'
    BY <1>1, PhasedStep, OrderedStep, DebatedStep, GroundedStep
  <1>4. NoPatchWithoutGrounds' /\ OutageVerdict'
    BY PatchStep, OutageStep
  <1>5. QED
    BY <1>2, <1>3, <1>4 DEF IInv

LEMMA Invariance == Spec => []IInv
  BY InitInvariant, NextInvariant, PTL DEF Spec

\* The report keeps the types of its dataclass, and so does the cache: no
\* confidence outside 0.0 .. 1.0 gets into either, whatever number the LLM gave.
THEOREM ReportTypes == Spec => []TypeOK
  <1>1. IInv => TypeOK
    BY DEF IInv
  <1>2. QED
    BY <1>1, Invariance, PTL

\* With a threshold of 0.6 or more a patch is only generated for a diagnosis
\* with grounds: an object the LLM answered, or a critical hardware error.
THEOREM PatchesHaveGrounds == Spec => []NoPatchWithoutGrounds
  <1>1. IInv => NoPatchWithoutGrounds
    BY DEF IInv
  <1>2. QED
    BY <1>1, Invariance, PTL

\* An analysis without an LLM ends in the symbol agent's verdict, below 0.6.
THEOREM OutagesEndInAVerdict == Spec => []OutageVerdict
  <1>1. IInv => OutageVerdict
    BY DEF IInv
  <1>2. QED
    BY <1>1, Invariance, PTL

\* From the second round on the agents repeat themselves.
THEOREM DebatesSettle == Spec => []RoundsSettle
  <1>1. IInv => RoundsSettle
    <2> SUFFICES ASSUME Debated, Len(memory) >= 3 PROVE memory[3] = memory[2]
      BY DEF IInv, RoundsSettle
    <2>1. memory # <<>>
      OBVIOUS
    <2>2. 2 \in DOMAIN memory /\ 3 \in DOMAIN memory
      BY <2>1 DEF Debated
    <2>3. QED
      BY <2>1, <2>2 DEF Debated, RoundAt
  <1>2. QED
    BY <1>1, Invariance, PTL

===============================================================================
