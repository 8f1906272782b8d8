---------------------------- MODULE KnowledgeBase ----------------------------
(***************************************************************************)
(* observex/knowledge/base.py: patterns and entries in memory and in two   *)
(* JSON files that every save rewrites in place, one after the other.  A   *)
(* file being rewritten is torn until the write is through.                *)
(*                                                                         *)
(* FailurePattern.to_dict writes the keys "category", "remediation" and    *)
(* "count", and the constructor knows none of them: a patterns file with   *)
(* a pattern in it cannot be loaded.                                       *)
(***************************************************************************)

VARIABLES
  patterns,      \* _patterns: the signatures known
  entries,       \* _entries: [claim, incident], one per claim
  patternsFile,  \* patterns.json
  entriesFile,   \* entries.json
  saving         \* how far _save is, "saved" when it is not running

kb == <<patterns, entries, patternsFile, entriesFile, saving>>

Absent == [state |-> "absent", content |-> {}]
Torn   == [state |-> "torn", content |-> {}]
Written(content) == [state |-> "written", content |-> content]

KBInit ==
  /\ patterns = {} /\ entries = {}
  /\ patternsFile = Absent /\ entriesFile = Absent
  /\ saving = "saved"

\* add_pattern, up to its save: a known signature only counts again.
AddPattern(signature) ==
  /\ patterns' = patterns \union {signature}
  /\ saving' = "open_patterns"
  /\ UNCHANGED <<entries, patternsFile, entriesFile>>

AddEntry_Unsaved(entry) ==
  /\ entries' = {old \in entries : old.claim # entry.claim} \union {entry}
  /\ saving' = "saved"
  /\ UNCHANGED <<patterns, patternsFile, entriesFile>>

\* add_entry, up to its save: an entry of the same content is replaced.
AddEntry(entry) ==
  /\ entries' = {old \in entries : old.claim # entry.claim} \union {entry}
  /\ saving' = "open_patterns"
  /\ UNCHANGED <<patterns, patternsFile, entriesFile>>

\* _save, file by file: opening truncates.
SaveStep ==
  /\ UNCHANGED <<patterns, entries>>
  /\ \/ /\ saving = "open_patterns" /\ saving' = "write_patterns"
        /\ patternsFile' = Torn /\ UNCHANGED entriesFile
     \/ /\ saving = "write_patterns" /\ saving' = "open_entries"
        /\ patternsFile' = Written(patterns) /\ UNCHANGED entriesFile
     \/ /\ saving = "open_entries" /\ saving' = "write_entries"
        /\ entriesFile' = Torn /\ UNCHANGED patternsFile
     \/ /\ saving = "write_entries" /\ saving' = "saved"
        /\ entriesFile' = Written(entries) /\ UNCHANGED patternsFile

\* The process is gone; the files stay as they are.
KBLost ==
  /\ patterns' = {} /\ entries' = {} /\ saving' = "saved"
  /\ UNCHANGED <<patternsFile, entriesFile>>

CanLoad == patternsFile \in {Absent, Written({})} /\ entriesFile # Torn

\* _load, when it does not raise.
Load ==
  /\ CanLoad
  /\ patterns' = {} /\ entries' = entriesFile.content
  /\ UNCHANGED <<patternsFile, entriesFile, saving>>

-----------------------------------------------------------------------------
(* While no save runs the files hold what the memory holds; and at any     *)
(* time, also when the process has died, an entry in an intact pair of     *)
(* files has its pattern beside it: learn_from_incident's two saves and    *)
(* the order of the two files in each (_save, add_pattern, add_entry).     *)
DiskKeepsUp ==
  /\ saving = "saved" /\ patterns # {} =>
       patternsFile = Written(patterns) /\ entriesFile = Written(entries)
  /\ Torn \notin {patternsFile, entriesFile} =>
       \A e \in entriesFile.content : e.incident \in patternsFile.content

=============================================================================
