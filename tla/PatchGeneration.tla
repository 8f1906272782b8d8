---------------------------- MODULE PatchGeneration ----------------------------
(***************************************************************************)
(* kcrash/patch/generator.py, kpatch.py and validator.py as the pipeline   *)
(* calls them: the code a generator may return and what the syntax check   *)
(* says of it.  A text is who wrote it and the three things the check      *)
(* looks for.  Prompts, and which of the templates fits, are left out.     *)
(***************************************************************************)
EXTENDS Integers

Text(from, bpf, ptRegs, balanced) ==
  [from |-> from, bpf |-> bpf, ptRegs |-> ptRegs, balanced |-> balanced]

\* Every template of TEMPLATE_MAP, and the generic one, is a BPF program.
EbpfTemplate == Text("template", TRUE, TRUE, TRUE)

\* A kernel module: no BPF helper and no register access.
KpatchTemplate == Text("template", FALSE, FALSE, TRUE)

\* A message with its fences taken off, perhaps with nothing left.
Messages ==
  {Text("llm", bpf, ptRegs, balanced) : bpf \in BOOLEAN, ptRegs \in BOOLEAN, balanced \in BOOLEAN}
    \union {Text("none", FALSE, FALSE, TRUE)}

\* The LLM's code, or when the call fails the template.  The service being up
\* does not mean that this call succeeds.
EbpfGenerate(llmUp)   == {EbpfTemplate}   \union IF llmUp THEN Messages ELSE {}
KpatchGenerate(llmUp) == {KpatchTemplate} \union IF llmUp THEN Messages ELSE {}

\* validate_syntax_only, which is asked about both types of patch.
SyntaxOk(code) == code.bpf /\ code.ptRegs /\ code.balanced

===============================================================================
