------------------------------- MODULE ApiKeys -------------------------------
(***************************************************************************)
(* kcrash/api/auth.py, APIKeyStore, and verify_api_key of                  *)
(* kcrash/api/server.py, which every protected endpoint runs before its    *)
(* handler.  It does not await between authenticate and check_rate_limit,  *)
(* so a request is one step of the server's event loop.                    *)
(*                                                                         *)
(* A bucket holds the level of its last check and the time of it; nothing  *)
(* happens to it in between.  The code counts tokens and seconds in        *)
(* floats.  Here one token is Token parts and one second is Second ticks,  *)
(* so that refill_rate, rate_limit / 60.0 tokens per second, is rate_limit *)
(* parts per tick, and the arithmetic is exact.                            *)
(*                                                                         *)
(* A key stands for its key_id, hash and raw key: the client of k presents *)
(* the raw key of k.  Time does not run backwards.                         *)
(***************************************************************************)
EXTENDS Integers

CONSTANTS
  Keys,      \* keys that register_key may make
  Rates,     \* values of its rate_limit argument
  Lifetime,  \* ttl_days, in ticks
  Second,    \* ticks of the clock in a second
  Jumps,     \* ticks that may pass between two requests
  MaxTime    \* bound: end of the clock

ASSUME RatesAssumption  == Rates \subseteq Nat
ASSUME ClockAssumption  == Second \in Nat \ {0} /\ Jumps \subseteq Nat /\ MaxTime \in Nat
ASSUME LifetimeAssumption == Lifetime \in Int

VARIABLES
  status,      \* status[k]: "absent" before register_key, then by k's `enabled`
  expiresAt,   \* expires_at
  rateLimit,   \* rate_limit, and the capacity and refill rate of k's bucket
  tokens,      \* the bucket's tokens, in parts
  lastRefill,  \* the bucket's last_refill
  now,         \* time.time()
  answer,      \* answer[k]: how k's last check ended, and when
  window,      \* history: ticks since an observer of k started to count
  spent        \* history: requests of k admitted since then

keyVars == <<status, expiresAt, rateLimit>>
bucketVars == <<tokens, lastRefill>>
countVars == <<window, spent>>
vars == <<keyVars, bucketVars, now, answer, countVars>>

Token == 60 * Second

Capacity(k) == rateLimit[k] * Token

Silence == [told |-> "nothing", at |-> 0, retryAfter |-> 0]

Init ==
  /\ status = [k \in Keys |-> "absent"]
  /\ expiresAt = [k \in Keys |-> 0]
  /\ rateLimit = [k \in Keys |-> 0]
  /\ tokens = [k \in Keys |-> 0]
  /\ lastRefill = [k \in Keys |-> 0]
  /\ now = 0
  /\ answer = [k \in Keys |-> Silence]
  /\ window = [k \in Keys |-> 0]
  /\ spent = [k \in Keys |-> 0]

\* register_key: the bucket of a new key is full.
Register(k, rate) ==
  /\ status[k] = "absent"
  /\ status' = [status EXCEPT ![k] = "enabled"]
  /\ expiresAt' = [expiresAt EXCEPT ![k] = now + Lifetime]
  /\ rateLimit' = [rateLimit EXCEPT ![k] = rate]
  /\ tokens' = [tokens EXCEPT ![k] = rate * Token]
  /\ lastRefill' = [lastRefill EXCEPT ![k] = now]
  /\ window' = [window EXCEPT ![k] = 0]
  /\ spent' = [spent EXCEPT ![k] = 0]
  /\ UNCHANGED <<now, answer>>

Disable(k) ==
  /\ status[k] = "enabled"
  /\ status' = [status EXCEPT ![k] = "disabled"]
  /\ UNCHANGED <<expiresAt, rateLimit, bucketVars, now, answer, countVars>>

-----------------------------------------------------------------------------
(* verify_api_key *)

Valid(k) == status[k] = "enabled" /\ now <= expiresAt[k]

Tell(k, what, retryAfter) ==
  answer' = [answer EXCEPT ![k] = [told |-> what, at |-> now, retryAfter |-> retryAfter]]

\* authenticate raises: no key has this hash, or the key is disabled or expired.
\* The bucket is not looked at.
Unauthenticated(k) ==
  /\ ~Valid(k)
  /\ Tell(k, "unauthenticated", 0)
  /\ UNCHANGED <<keyVars, bucketVars, now, countVars>>

Refilled_Uncapped(k) == tokens[k] + (now - lastRefill[k]) * rateLimit[k]

\* min(bucket.capacity, bucket.tokens + elapsed * bucket.refill_rate)
Refilled(k) ==
  LET filled == tokens[k] + (now - lastRefill[k]) * rateLimit[k]
  IN  IF filled <= Capacity(k) THEN filled ELSE Capacity(k)

Admit(k) ==
  /\ Valid(k)
  /\ Refilled(k) >= Token
  /\ tokens' = [tokens EXCEPT ![k] = Refilled(k) - Token]
  /\ lastRefill' = [lastRefill EXCEPT ![k] = now]
  /\ spent' = [spent EXCEPT ![k] = @ + 1]
  /\ Tell(k, "admitted", 0)
  /\ UNCHANGED <<keyVars, now, window>>

RetryAfter_Truncated(k) == (Token - Refilled(k)) \div (rateLimit[k] * Second)

\* int(wait_time) + 1, in seconds.  It is the exception's retry_after; the
\* server answers with the exception's text alone, which does not say it.
RetryAfter(k) == (Token - Refilled(k)) \div (rateLimit[k] * Second) + 1

Limit_UnstampedRefill(k) ==
  /\ Valid(k)
  /\ rateLimit[k] > 0
  /\ Refilled(k) < Token
  /\ tokens' = [tokens EXCEPT ![k] = Refilled(k)]
  /\ UNCHANGED lastRefill
  /\ Tell(k, "limited", RetryAfter(k))
  /\ UNCHANGED <<keyVars, now, countVars>>

\* RateLimitExceededError; the refused request has refilled the bucket.
Limit(k) ==
  /\ Valid(k)
  /\ rateLimit[k] > 0
  /\ Refilled(k) < Token
  /\ tokens' = [tokens EXCEPT ![k] = Refilled(k)]
  /\ lastRefill' = [lastRefill EXCEPT ![k] = now]
  /\ Tell(k, "limited", RetryAfter(k))
  /\ UNCHANGED <<keyVars, now, countVars>>

\* rate_limit 0: wait_time divides by zero, which the server answers like any
\* other exception of the two calls.
Breaks(k) ==
  /\ Valid(k)
  /\ rateLimit[k] = 0
  /\ lastRefill' = [lastRefill EXCEPT ![k] = now]
  /\ Tell(k, "error", 0)
  /\ UNCHANGED <<keyVars, tokens, now, countVars>>

-----------------------------------------------------------------------------
Pass(ticks) ==
  /\ now + ticks <= MaxTime
  /\ now' = now + ticks
  /\ window' = [k \in Keys |-> window[k] + ticks]
  /\ UNCHANGED <<keyVars, bucketVars, answer, spent>>

\* Somebody starts to count the admitted requests of k.
Observe(k) ==
  /\ window' = [window EXCEPT ![k] = 0]
  /\ spent' = [spent EXCEPT ![k] = 0]
  /\ UNCHANGED <<keyVars, bucketVars, now, answer>>

Request(k) == Unauthenticated(k) \/ Admit(k) \/ Limit(k) \/ Breaks(k)

Next ==
  \/ \E k \in Keys : Disable(k) \/ Request(k) \/ Observe(k) \/ \E r \in Rates : Register(k, r)
  \/ \E ticks \in Jumps : Pass(ticks)

Spec == Init /\ [][Next]_vars

-----------------------------------------------------------------------------
Answer == [told : {"nothing", "admitted", "limited", "unauthenticated", "error"},
           at : Nat, retryAfter : Nat]

\* Type invariant: a bucket never holds less than nothing or more than its
\* capacity, and its stamp is not in the future.
TypeOK ==
  /\ status \in [Keys -> {"absent", "enabled", "disabled"}]
  /\ expiresAt \in [Keys -> Int]
  /\ rateLimit \in [Keys -> Nat]
  /\ tokens \in [Keys -> Nat] /\ \A k \in Keys : tokens[k] <= Capacity(k)
  /\ lastRefill \in [Keys -> Nat] /\ \A k \in Keys : lastRefill[k] <= now
  /\ now \in Nat
  /\ answer \in [Keys -> Answer]
  /\ window \in [Keys -> Nat] /\ spent \in [Keys -> Nat]

\* README.md:437, "Rate limiting is enforced via token bucket algorithm":
\* whenever one starts to count, the requests of a key admitted from then on
\* are at most rate_limit and those that the elapsed time has refilled.
WindowBound ==
  \A k \in Keys : spent[k] * Token <= Capacity(k) + window[k] * rateLimit[k]

\* The retry_after of the exception is neither too short nor more than a second
\* too long: who comes back then finds a token, also after many refusals, and who
\* comes back more than a second earlier does not (check_rate_limit).
RetryAfterExact ==
  \A k \in Keys : answer[k].told = "limited" =>
    LET waited == now - answer[k].at
    IN  /\ waited >= answer[k].retryAfter * Second => Refilled(k) >= Token
        /\ waited < (answer[k].retryAfter - 1) * Second => Refilled(k) < Token

\* Refilling at the checks alone is as good as a bucket that fills all the time,
\* whatever requests are refused in between.
Steady == INSTANCE TokenBucket WITH rate <- rateLimit, level <- [k \in Keys |-> Refilled(k)]
Buckets == Steady!Spec

==============================================================================
