---------------------------- MODULE MCEventStream ----------------------------
(***************************************************************************)
(* One producer and two events, which overrun a queue of one and make a    *)
(* full batch or two that are flushed by the interval; two workers overlap *)
(* after a stop() that timed out or a second start(); one callable is      *)
(* registered up to two times, at any moment, also while a batch is being  *)
(* handed out.                                                             *)
(* EventStreamProofs has the safety properties for every instance.         *)
(***************************************************************************)
EXTENDS EventStream

==============================================================================
