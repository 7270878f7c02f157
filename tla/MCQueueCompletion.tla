-------------------------- MODULE MCQueueCompletion -------------------------
(***************************************************************************)
(* QueueCompletion for TLC: webhook handler tasks are interchangeable.     *)
(***************************************************************************)
EXTENDS QueueCompletion, TLC

HookSymmetry == Permutations(Hooks)
=============================================================================
