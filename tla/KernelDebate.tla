----------------------------- MODULE KernelDebate -----------------------------
(***************************************************************************)
(* kcrash/debate/moderator.py with kcrash/agents/*: three agents argue     *)
(* over the merged result of the two LLM phases, and the strongest last    *)
(* argument is the verdict.  These are the functions of the debate; the    *)
(* pipeline holds it, one round per step (module AnalysisPipeline).        *)
(*                                                                         *)
(* The agents look for words in each other's claims, so a claim is the set *)
(* of those words it contains: "hardware", and "change" for either of      *)
(* "change" and "module".  The claims also quote text of the LLM, whose    *)
(* words are in the context.  Confidences are in millionths; Argument is a *)
(* pydantic model that refuses a confidence outside 0.0 .. 1.0.            *)
(***************************************************************************)
EXTENDS Naturals, FiniteSets, SequencesExt, FiniteSetsExt

CONSTANTS
  Unstated,   \* the LLM named no probability or confidence
  NoneFound   \* phase 2 named no root-cause candidate

One == 1000000
Percent(n) == n * 10000
Times(c, percent) == (c * percent) \div 100

AgentNames == {"SymbolAgent", "ChangeAgent", "HardwareAgent"}

(* A context: what the agents read of {**phase1_result, **phase2_result}.  *)
(*   confidence   phase 1's own confidence, or Unstated                    *)
(*   symbolWords  words of its panic point and error class                 *)
(*   top          probability of the likeliest candidate, or Unstated, or  *)
(*                NoneFound                                                *)
(*   changeWords  words of that candidate's claim                          *)
(*   hw           worst hardware error collected by phase 2                *)
NoContext == [confidence |-> Unstated, symbolWords |-> {},
              top |-> NoneFound, changeWords |-> {}, hw |-> "none"]

Argument(agent, words, confidence) ==
  [agent |-> agent, words |-> words, confidence |-> confidence]

Valid_Unchecked(argument) == TRUE
Valid(argument) == argument.confidence <= One

-------------------------------------------------------------------------------
(* The agents *)

SymbolConfidence_SureByDefault(ctx) ==
  IF ctx.confidence = Unstated THEN Percent(80) ELSE ctx.confidence

SymbolConfidence(ctx) == IF ctx.confidence = Unstated THEN Percent(50) ELSE ctx.confidence

SymbolInitial(ctx) == Argument("SymbolAgent", ctx.symbolWords, SymbolConfidence(ctx))

\* Every opponent's argument is a challenge, a strong one or a weak one.
SymbolRebut(opponents, ctx) ==
  Argument("SymbolAgent", ctx.symbolWords,
           IF opponents # {} THEN Times(SymbolConfidence(ctx), 90) ELSE SymbolConfidence(ctx))

TopConfidence(ctx) == IF ctx.top = Unstated THEN Percent(30) ELSE ctx.top

ChangeInitial(ctx) ==
  IF ctx.top = NoneFound
  THEN Argument("ChangeAgent", {"change"}, Percent(10))
  ELSE Argument("ChangeAgent", {"change"} \union ctx.changeWords, TopConfidence(ctx))

\* An opponent whose claim says "hardware" contradicts the change hypothesis.
ChangeRebut(opponents, ctx) ==
  LET contradicted == \E a \in opponents : "hardware" \in a.words
      words == {"change"} \union ctx.changeWords
  IN  IF ctx.top = NoneFound THEN Argument("ChangeAgent", {"change"}, Percent(10))
      ELSE IF contradicted
      THEN Argument("ChangeAgent", words \union {"hardware"}, Times(TopConfidence(ctx), 85))
      ELSE Argument("ChangeAgent", words, TopConfidence(ctx))

HardwareInitial(ctx) ==
  Argument("HardwareAgent", {"hardware"},
           CASE ctx.hw = "critical" -> Percent(80)
             [] ctx.hw = "warning"  -> Percent(40)
             [] ctx.hw = "none"     -> Percent(10))

\* With critical errors the claim depends on whether an opponent blames a
\* change; without, it says "No strong hardware evidence".
HardwareRebut_QuietWithoutErrors(opponents, ctx) ==
  LET changeBased == \E a \in opponents : "change" \in a.words
  IN  IF ctx.hw = "critical"
      THEN Argument("HardwareAgent", {"hardware"} \union (IF changeBased THEN {"change"} ELSE {}),
                    IF changeBased THEN Percent(70) ELSE Percent(80))
      ELSE Argument("HardwareAgent", {}, Percent(15))

HardwareRebut(opponents, ctx) ==
  LET changeBased == \E a \in opponents : "change" \in a.words
  IN  IF ctx.hw = "critical"
      THEN Argument("HardwareAgent", {"hardware"} \union (IF changeBased THEN {"change"} ELSE {}),
                    IF changeBased THEN Percent(70) ELSE Percent(80))
      ELSE Argument("HardwareAgent", {"hardware"}, Percent(15))

-------------------------------------------------------------------------------
(* The moderator.  A round is the sequence of its arguments, in agent order. *)

InitialRound(ctx) == <<SymbolInitial(ctx), ChangeInitial(ctx), HardwareInitial(ctx)>>

Opponents(agent, round) == {round[i] : i \in {j \in DOMAIN round : round[j].agent # agent}}

\* A rebuttal sees the other agents' arguments of the round before, never those
\* of its own round.
RebutRound(before, ctx) ==
  <<SymbolRebut(Opponents("SymbolAgent", before), ctx),
    ChangeRebut(Opponents("ChangeAgent", before), ctx),
    HardwareRebut(Opponents("HardwareAgent", before), ctx)>>

\* The arguments that follow a debate held so far: DebateMemory, by round.
NextRound(memory, ctx) ==
  IF memory = <<>> THEN InitialRound(ctx) ELSE RebutRound(Last(memory), ctx)

\* `max` keeps the first of equally confident agents.
Strongest(final) ==
  final[SelectInSeq(final, LAMBDA a : \A i \in DOMAIN final : a.confidence >= final[i].confidence)]

\* One clear winner, more than a fifth above the average of the three.
IsConsensus(final) ==
  LET best == Strongest(final)
      sum == MapThenSumSet(LAMBDA i : final[i].confidence, DOMAIN final)
      ties == {i \in DOMAIN final : final[i].confidence = best.confidence}
  IN  Cardinality(ties) = 1 /\ best.confidence * Len(final) * 10 > sum * 12

\* _resolve_verdict: the last round's best argument; without a clear winner its
\* confidence is cut.
Verdict(memory) ==
  LET final == Last(memory)
      best == Strongest(final)
      agreed == IsConsensus(final)
  IN  [agent |-> best.agent,
       confidence |-> IF agreed THEN best.confidence ELSE Times(best.confidence, 85),
       consensus |-> agreed]

===============================================================================
