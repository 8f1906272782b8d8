----------------------------- MODULE TokenBucket -----------------------------
(***************************************************************************)
(* What APIKeyStore.check_rate_limit of kcrash/api/auth.py promises the    *)
(* holder of a key and the service behind it: a bucket that is full when   *)
(* the key is issued, fills at a steady rate up to its capacity, and gives *)
(* one token per admitted call.  Here every bucket fills as time passes;   *)
(* the code only keeps the level of the last check (module ApiKeys).       *)
(*                                                                         *)
(* Levels are counted in parts of a token: Token parts make one.  A key of *)
(* rate r holds at most r tokens and gains r parts per tick.               *)
(***************************************************************************)
EXTENDS Integers

CONSTANTS Keys, Rates, Jumps, Token

VARIABLES
  rate,    \* rate[k]: tokens per minute, and capacity; 0 until k is issued
  level,   \* level[k]: parts of a token in k's bucket
  window,  \* history: ticks since k's observer last started to count
  spent    \* history: calls admitted for k since then

vars == <<rate, level, window, spent>>

Capacity(r) == r * Token

Lesser(a, b) == IF a <= b THEN a ELSE b

Init ==
  /\ rate = [k \in Keys |-> 0]
  /\ level = [k \in Keys |-> 0]
  /\ window = [k \in Keys |-> 0]
  /\ spent = [k \in Keys |-> 0]

Issue(k, r) ==
  /\ rate' = [rate EXCEPT ![k] = r]
  /\ level' = [level EXCEPT ![k] = Capacity(r)]
  /\ window' = [window EXCEPT ![k] = 0]
  /\ spent' = [spent EXCEPT ![k] = 0]

Take(k) ==
  /\ level[k] >= Token
  /\ level' = [level EXCEPT ![k] = @ - Token]
  /\ spent' = [spent EXCEPT ![k] = @ + 1]
  /\ UNCHANGED <<rate, window>>

Pass(ticks) ==
  /\ level' = [k \in Keys |-> Lesser(Capacity(rate[k]), level[k] + ticks * rate[k])]
  /\ window' = [k \in Keys |-> window[k] + ticks]
  /\ UNCHANGED <<rate, spent>>

\* The observer starts to count, at any moment.
Observe(k) ==
  /\ window' = [window EXCEPT ![k] = 0]
  /\ spent' = [spent EXCEPT ![k] = 0]
  /\ UNCHANGED <<rate, level>>

Next ==
  \/ \E k \in Keys : Take(k) \/ Observe(k) \/ \E r \in Rates : Issue(k, r)
  \/ \E ticks \in Jumps : Pass(ticks)

Spec == Init /\ [][Next]_vars

==============================================================================
