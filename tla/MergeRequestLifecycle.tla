------------------------ MODULE MergeRequestLifecycle -----------------------
(***************************************************************************)
(* What the queue promises about one merge request, whoever acts on it.    *)
(*                                                                         *)
(* A merge request goes through lifecycles.  A lifecycle is in the queue,  *)
(* perhaps marked removed there, until an outcome is frozen for it; then   *)
(* the outcome is told, and only after that the lifecycle makes room,      *)
(* either for none or for the next one.  Only a lifecycle that has no      *)
(* outcome yet may be discarded untold.                                    *)
(*                                                                         *)
(* QueueCompletion (how a lifecycle ends) and Processing (how it gets      *)
(* there) both implement this specification.                               *)
(***************************************************************************)
EXTENDS Integers

CONSTANTS None, Results     \* Results: the outcomes that can be frozen

VARIABLES
    phase,      \* "out" of the queue, "queued", "removed", or "ending"
    current,    \* the lifecycle in the queue, 0 when there is none
    started,    \* lifecycles started so far
    outcome,    \* the frozen outcome of the current lifecycle
    told        \* lifecycles whose outcome was told

vars == <<phase, current, started, outcome, told>>

Init ==
    /\ phase \in {"out", "queued"}
    /\ started \in Nat
    /\ current = IF phase = "out" THEN 0 ELSE started
    /\ outcome = None
    /\ told = {}

Undecided == phase \in {"queued", "removed"}

(* A new lifecycle takes the place of none, or of one that was given up. *)
Enqueue ==
    /\ phase' = "queued"
    /\ started' = started + 1
    /\ current' = started'
    /\ outcome' = None
    /\ UNCHANGED told

Leave ==
    /\ phase' = "out"
    /\ current' = 0
    /\ outcome' = None
    /\ UNCHANGED <<started, told>>

Begin == phase \in {"out", "removed"} /\ Enqueue

(* The mark "removed" is set and, by a late status write, taken off again. *)
Mark ==
    /\ Undecided
    /\ phase' \in {"queued", "removed"}
    /\ UNCHANGED <<current, started, outcome, told>>

Discard == Undecided /\ Leave

Freeze(result) ==
    /\ Undecided
    /\ phase' = "ending"
    /\ outcome' = result
    /\ UNCHANGED <<current, started, told>>

Tell ==
    /\ phase = "ending"
    /\ told' = told \cup {current}
    /\ UNCHANGED <<phase, current, started, outcome>>

(* Archived, and renewed when a user asked for it meanwhile. *)
Finish ==
    /\ phase = "ending"
    /\ current \in told
    /\ Leave \/ Enqueue

Next ==
    \/ Begin \/ Mark \/ Discard
    \/ \E result \in Results : Freeze(result)
    \/ Tell \/ Finish

Spec == Init /\ [][Next]_vars
=============================================================================
