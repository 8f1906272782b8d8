---------------------------- MODULE CrashDatabase ----------------------------
(***************************************************************************)
(* kcrash/core/database.py: the crash_history table.  Each statement runs  *)
(* in a transaction of its own and SQLite serializes them, so each is one  *)
(* step on the table.  `created_at` is the text of an ISO time stamp,      *)
(* "2024-01-15T10:00:00+00:00", and is compared as text with SQLite's      *)
(* datetime(), "2024-01-15 10:00:00": on the same day the "T" makes the    *)
(* stored stamp the greater one whatever the time of day.                  *)
(***************************************************************************)
EXTENDS Integers, FiniteSets, Functions

CONSTANT DayLength  \* ticks in a day

ASSUME DayAssumption == DayLength \in Nat \ {0}

VARIABLE rows       \* crash_history: the row under each id in use

Day(t) == t \div DayLength

Before_DateOnly(created, cutoff) == Day(created) <= Day(cutoff)

\* created_at < datetime(cutoff), as texts.
Before(created, cutoff) == Day(created) < Day(cutoff)

\* INSERT OR REPLACE.
SaveCrash(id, row) ==
  rows' = [i \in DOMAIN rows \union {id} |-> IF i = id THEN row ELSE rows[i]]

\* The rows of the last `span` ticks, as many as the limit lets through.
Recent(now, span) == {i \in DOMAIN rows : ~Before(rows[i].created, now - span)}

\* GROUP BY fingerprint_hash HAVING occurrence_count >= min_count.
Occurrences(now, days, f) ==
  Cardinality({i \in Recent(now, days * DayLength) : rows[i].fingerprint = f})
Trends(now, days, minCount, fingerprints) ==
  {f \in fingerprints : Occurrences(now, days, f) >= minCount}

\* DELETE of the rows from before `days` days ago.
PurgeOld(now, days) == rows' = Restrict(rows, Recent(now, days * DayLength))

=============================================================================
