----------------------------- MODULE MCLLMClient -----------------------------
(***************************************************************************)
(* Two threads, a limit of two calls per window of two ticks, one retry, a *)
(* tick of lag: the window fills, both threads sleep and both retry.       *)
(* Callers start a call with up to one grant in the window, so that three  *)
(* come together when the second thread or a retry is added.               *)
(***************************************************************************)
EXTENDS LLMClient

==============================================================================
