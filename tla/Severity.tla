------------------------------- MODULE Severity -------------------------------
(***************************************************************************)
(* kcrash/core/severity.py: how bad a crash is, from its fingerprint, the  *)
(* critical hardware errors and the crashes of sibling hosts.  All scores  *)
(* are whole numbers.  Factors, SLA and recommended action go with the     *)
(* level and are left out.                                                 *)
(***************************************************************************)
EXTENDS CrashFingerprint

\* Severity is an IntEnum.
LOW == 1
MEDIUM == 2
HIGH == 3
CRITICAL == 4

\* ERROR_SEVERITY_MAP.get(error_class, 1)
ErrorBase(class) ==
  CASE class \in {"kernel_panic", "double_fault", "nmi"} -> 4
    [] class \in {"kernel_bug", "kernel_oops", "gpf", "null_deref", "stack_overflow"} -> 3
    [] class \in {"page_fault", "divide_error"} -> 2
    [] OTHER -> 1

PanicModules == {"mlx5_core", "nvme", "dm_multipath", "iscsi", "btrfs", "xfs"}

Capped(n, cap) == IF n < cap THEN n ELSE cap

\* The score without that of the error class, and without its cap.
OtherFactors(fp, criticalErrors, siblings) ==
  (IF fp.module \in PanicModules THEN 20 ELSE 0)
  + (IF fp.depth > 10 THEN 10 ELSE 0)
  + 15 * criticalErrors
  + Capped(5 * siblings, 25)

Score(fp, criticalErrors, siblings) ==
  Capped(15 * ErrorBase(fp.class) + OtherFactors(fp, criticalErrors, siblings), 100)

Level(score) ==
  IF score >= 80 THEN CRITICAL ELSE IF score >= 60 THEN HIGH ELSE IF score >= 35 THEN MEDIUM ELSE LOW

AssessedLevel(fp, criticalErrors, siblings) == Level(Score(fp, criticalErrors, siblings))

===============================================================================
