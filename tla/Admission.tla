----------------------------- MODULE Admission ------------------------------
(***************************************************************************)
(* The requeue request a merge-request row carries (column requeue_request)*)
(* and how a label event changes it: core/queue.py _write_requeue,         *)
(* _merge_requeue, cancel_requeue, and models/completion.py.               *)
(*                                                                         *)
(* The two trigger labels (queue label, hotfix label) are one label here:  *)
(* "wanted" says whether the request knows any trigger to restore, and the *)
(* label snapshots, titles and branches of "params" are left out.  A       *)
(* message is identified by the instant at which GitLab made the change,   *)
(* which the bot only sees through the truncated timestamp of its clock.   *)
(***************************************************************************)
EXTENDS EventOrder

(* A durable request; None is SQL's NULL. *)
Intents(Msgs, Instants) ==
    [ clock     : [at : Instants, width : Nat \ {0}],  \* requested_at, precision_us
      wanted    : BOOLEAN,            \* "triggers" and "params" are present
      cancelled : SUBSET Instants,    \* cancelled_events
      seen      : SUBSET Msgs,        \* seen_messages
      key       : Msgs \cup {None},   \* admission_key
      applied   : Instants \cup {None} ]   \* applied_at

ASSUME NoneIsNoRequest == None \notin Intents(Nat, Nat)

(* Seeded fault: once the bot touched the label no cancellation is a user's. *)
CancelledUnlessBotActed(intent, ownInstants) ==
    intent.cancelled # {} /\ ownInstants = {}

(* requeue_is_cancelled: a cancellation the bot did not cause itself. *)
RequeueIsCancelled(intent, ownInstants) == ~(intent.cancelled \subseteq ownInstants)

(* compare_event(incoming, previous), where an absent request has no clock. *)
OrderAgainst(clock, prev) ==
    IF prev = None THEN 0 ELSE CompareEvent(clock, prev.clock)

Uncancelled(prev) == prev # None /\ prev.cancelled = {}

(* Seeded fault: an enqueue is final, even a later cancellation is dropped. *)
RequeueNeverCancelled(msg, clock, cancelling, prev) ==
    \/ prev # None /\ msg \in prev.seen
    \/ OrderAgainst(clock, prev) < 0
    \/ cancelling /\ Uncancelled(prev)

(* Seeded fault: among overlapping changes the one delivered last wins. *)
RequeueLastOneWins(msg, clock, cancelling, prev) ==
    \/ prev # None /\ msg \in prev.seen
    \/ OrderAgainst(clock, prev) < 0

(* Seeded fault: source order is not looked at. *)
RequeueInDeliveryOrder(msg, clock, cancelling, prev) ==
    cancelling /\ Uncancelled(prev) /\ OrderAgainst(clock, prev) = 0

(* The early returns of _write_requeue: the event changes nothing. *)
RequeueUnchanged(msg, clock, cancelling, prev) ==
    \/ prev # None /\ msg \in prev.seen
    \/ OrderAgainst(clock, prev) < 0
    \/ OrderAgainst(clock, prev) = 0 /\ cancelling /\ Uncancelled(prev)

Seen(prev) == IF prev = None THEN {} ELSE prev.seen

(* _merge_requeue for a cancellation: {**previous, **incoming}. *)
CancelledRequeue(msg, clock, prev) ==
    [ clock     |-> clock,
      wanted    |-> prev # None /\ prev.wanted,
      cancelled |-> {clock.at},
      seen      |-> Seen(prev) \cup {msg},
      key       |-> IF prev = None THEN None ELSE prev.key,
      applied   |-> None ]

(* Seeded fault: a merged enqueue keeps an instant but not its precision. *)
EnqueuedAtAPoint(msg, clock, prev) ==
    [ clock     |-> IF Uncancelled(prev) /\ OrderAgainst(clock, prev) = 0
                    THEN [at |-> Earlier(clock.at, prev.clock.at), width |-> 0]
                    ELSE clock,
      wanted    |-> TRUE,
      cancelled |-> {},
      seen      |-> Seen(prev) \cup {msg},
      key       |-> msg,
      applied   |-> None ]

(* _merge_requeue for an enqueue: a fresh request, widened over an equal one. *)
EnqueuedRequeue(msg, clock, prev) ==
    [ clock     |-> IF Uncancelled(prev) /\ OrderAgainst(clock, prev) = 0
                    THEN PreserveUncertainty(clock, prev.clock)
                    ELSE clock,
      wanted    |-> TRUE,
      cancelled |-> {},
      seen      |-> Seen(prev) \cup {msg},
      key       |-> msg,
      applied   |-> None ]

(* _write_requeue: the request after the event. *)
WriteRequeue(msg, clock, cancelling, prev) ==
    IF RequeueUnchanged(msg, clock, cancelling, prev) THEN prev
    ELSE IF cancelling THEN CancelledRequeue(msg, clock, prev)
    ELSE EnqueuedRequeue(msg, clock, prev)
=============================================================================
