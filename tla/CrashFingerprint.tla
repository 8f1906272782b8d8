--------------------------- MODULE CrashFingerprint ---------------------------
(***************************************************************************)
(* kcrash/core/fingerprint.py: what a crash is recognised by.  A dump is   *)
(* its frames, innermost first, and the markers its dmesg contains.  SHA   *)
(* is taken as injective: a hash is the text that is hashed.               *)
(***************************************************************************)
EXTENDS Integers, Sequences, FiniteSets

FrameType == [function : STRING, offset : Nat, module : STRING]

\* The keys of ERROR_CLASSES, in the order in which they are looked for, and the
\* class of each.
Markers ==
  <<"BUG", "Oops", "Unable to handle kernel NULL pointer", "unable to handle page fault",
    "general protection fault", "kernel panic", "divide error", "stack overflow",
    "double fault", "NMI", "RIP:">>
Classes ==
  <<"kernel_bug", "kernel_oops", "null_deref", "page_fault", "gpf", "panic", "divide_error",
    "stack_overflow", "double_fault", "nmi", "rip_crash">>

\* The markers that the dmesg contains; the first of them decides.
Found(dmesg) == {i \in DOMAIN Markers : Markers[i] \in dmesg}

ClassifyError(dmesg) ==
  IF Found(dmesg) = {} THEN "unknown"
  ELSE Classes[CHOOSE i \in Found(dmesg) : \A j \in Found(dmesg) : i <= j]

\* f"{f.function}+0x{f.offset:x}" of the first five frames.
SignatureLength(frames) == IF Len(frames) < 5 THEN Len(frames) ELSE 5
Signature(frames) ==
  [i \in 1..SignatureLength(frames) |-> <<frames[i].function, frames[i].offset>>]

\* The module of the first frame that has one.
ModuleOf(frames) ==
  LET named == {i \in DOMAIN frames : frames[i].module # ""}
  IN  IF named = {} THEN "" ELSE frames[CHOOSE i \in named : \A j \in named : i <= j].module

\* A dump without a stack is the one called "empty", whatever its dmesg says.
GenerateFingerprint(frames, dmesg) ==
  IF frames = <<>>
  THEN [hash |-> <<>>, top |-> "unknown", class |-> "unknown", module |-> "", signature |-> <<>>, depth |-> 0]
  ELSE [hash |-> <<ClassifyError(dmesg), Signature(frames)>>, top |-> frames[1].function,
        class |-> ClassifyError(dmesg), module |-> ModuleOf(frames),
        signature |-> Signature(frames), depth |-> Len(frames)]

FramesOf(fp) == {fp.signature[i] : i \in DOMAIN fp.signature}

\* is_similar with its default threshold of 0.7 on the Jaccard index.
IsSimilar(fp1, fp2) ==
  \/ fp1.hash = fp2.hash
  \/ /\ fp1.top = fp2.top /\ fp1.class = fp2.class
     /\ fp1.signature # <<>> /\ fp2.signature # <<>>
     /\ 10 * Cardinality(FramesOf(fp1) \intersect FramesOf(fp2))
          >= 7 * Cardinality(FramesOf(fp1) \union FramesOf(fp2))

===============================================================================
