---------------------------- MODULE Notifications ----------------------------
(***************************************************************************)
(* kcrash/notifications/manager.py: a manager sends a crash to the         *)
(* channels its rules name, one after the other, and collects what becomes *)
(* of each.  Channels and rules may be added while it sends, by a channel  *)
(* or by another thread; calls share nothing else, so that one is enough.  *)
(*                                                                         *)
(* A fingerprint pattern is the set of fingerprints that contain it.  What *)
(* is sent, latencies and the health checks are left out.                  *)
(***************************************************************************)
EXTENDS Severity

CONSTANTS
  Channels,   \* NotificationChannel objects
  NameOf,     \* NameOf[c]: c.name
  Names,      \* names of channels and names in rules
  Prints      \* fingerprint hashes

VARIABLES
  channels,   \* self._channels, in the order of registration
  rules,      \* self._rules, whose order does not matter
  sending,    \* a call of notify is in its loop
  live,       \* it loops over self._channels itself, not over a copy
  targets,    \* the places in self._channels that were chosen for it
  outcome     \* outcome[i]: what became of the channel at place i

vars == <<channels, rules, sending, live, targets, outcome>>

\* "channels" None and [] are {}, min_severity None is 0, no pattern is Prints.
RuleType == [min : 0..CRITICAL, prints : SUBSET Prints, names : SUBSET Names]

Applies(r, severity, print) == severity >= r.min /\ print \in r.prints

\* _resolve_channels: when no rule names a channel for the crash, all get it.
Matched(severity, print) ==
  UNION {r.names : r \in {q \in rules : Applies(q, severity, print)}}

Resolved(severity, print) ==
  LET matched == Matched(severity, print)
  IN  {i \in DOMAIN channels : matched = {} \/ NameOf[channels[i]] \in matched}

Init ==
  /\ channels = <<>> /\ rules = {}
  /\ sending = FALSE /\ live = FALSE
  /\ targets = {} /\ outcome = [i \in {} |-> "sent"]

AddChannel(c) ==
  /\ channels' = Append(channels, c)
  /\ UNCHANGED <<rules, sending, live, targets, outcome>>

AddRule(r) ==
  /\ rules' = rules \union {r}
  /\ UNCHANGED <<channels, sending, live, targets, outcome>>

\* Without a channel notify returns at once; else it loops over the resolved ones.
Notify(severity, print) ==
  /\ ~sending /\ channels # <<>>
  /\ sending' = TRUE
  /\ live' = (Matched(severity, print) = {})
  /\ targets' = Resolved(severity, print)
  /\ outcome' = [i \in {} |-> "sent"]
  /\ UNCHANGED <<channels, rules>>

Listed == IF live THEN DOMAIN channels ELSE targets
Left   == Listed \ DOMAIN outcome

\* send returns True or False, or raises, which ends that channel's turn only.
Attempt(i) ==
  /\ sending /\ i \in Left /\ \A j \in Left : i <= j
  /\ \E o \in {"sent", "failed", "raised"} :
       outcome' = [j \in DOMAIN outcome \union {i} |-> IF j = i THEN o ELSE outcome[j]]
  /\ UNCHANGED <<channels, rules, sending, live, targets>>

Return ==
  /\ sending /\ Left = {}
  /\ sending' = FALSE
  /\ UNCHANGED <<channels, rules, live, targets, outcome>>

Next ==
  \/ \E c \in Channels : AddChannel(c)
  \/ \E r \in RuleType : AddRule(r)
  \/ \E severity \in LOW..CRITICAL, print \in Prints : Notify(severity, print)
  \/ \E i \in DOMAIN channels : Attempt(i)
  \/ Return

Spec == Init /\ [][Next]_vars

-------------------------------------------------------------------------------
TypeOK ==
  /\ channels \in Seq(Channels)
  /\ rules \subseteq RuleType
  /\ sending \in BOOLEAN /\ live \in BOOLEAN
  /\ targets \subseteq DOMAIN channels
  /\ DOMAIN outcome \subseteq DOMAIN channels

\* Channels have their turn in the order of registration, and a channel that
\* fails or raises, or is added in the meantime, takes none away.
InTurn ==
  \A i \in DOMAIN outcome, j \in targets : j < i => j \in DOMAIN outcome

\* A call returns with an outcome for every channel resolved for the crash, and
\* for others only if they were added to a list that had no rule applied to it.
NoneSkipped ==
  [][sending /\ ~sending' =>
       targets \subseteq DOMAIN outcome /\ (DOMAIN outcome \subseteq targets \/ live)]_vars

===============================================================================
