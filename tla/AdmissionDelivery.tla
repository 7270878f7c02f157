-------------------------- MODULE AdmissionDelivery -------------------------
(***************************************************************************)
(* One pending row and the webhooks of one user who toggles the trigger    *)
(* label: GitLab may deliver each webhook late, several times, and in any  *)
(* order, and every delivery runs _write_requeue on the row's request.     *)
(*                                                                         *)
(* Redelivery is unrestricted because the retry queue dispatches at least  *)
(* once; order is unrestricted because deliveries are concurrent requests. *)
(***************************************************************************)
EXTENDS Admission, FiniteSets

CONSTANTS
    MaxInstant,     \* bound: the user makes at most this many changes
    Widths          \* timestamp precisions GitLab may report

ASSUME DeliveryBounds == MaxInstant \in Nat /\ Widths \subseteq Nat \ {0}

VARIABLES
    now,        \* the instant of the user's last change
    label,      \* is the trigger label on the merge request in GitLab?
    sent,       \* webhooks GitLab emitted
    delivered,  \* webhooks delivered at least once (history variable)
    intent      \* requeue_request of the pending row

vars == <<now, label, sent, delivered, intent>>

Events == [msg : Nat, kind : {"add", "remove"}, clock : [at : Nat, width : Nat \ {0}]]

(* The reported timestamp is the instant truncated to the precision. *)
Truncated(t, width) == t - (t % width)

TypeOK ==
    /\ now \in 0 .. MaxInstant
    /\ label \in BOOLEAN
    /\ sent \subseteq Events
    /\ delivered \subseteq sent
    /\ intent \in Intents(Nat, Nat) \cup {None}

Init ==
    /\ now = 0
    /\ label = TRUE
    /\ sent = {}
    /\ delivered = {}
    /\ intent = None

Toggle(width) ==
    /\ now < MaxInstant
    /\ now' = now + 1
    /\ label' = ~label
    /\ sent' = sent \cup
         {[msg |-> now', kind |-> IF label THEN "remove" ELSE "add",
           clock |-> [at |-> Truncated(now', width), width |-> width]]}
    /\ UNCHANGED <<delivered, intent>>

Deliver(e) ==
    /\ intent' = WriteRequeue(e.msg, e.clock, e.kind = "remove", intent)
    /\ delivered' = delivered \cup {e}
    /\ UNCHANGED <<now, label, sent>>

Next ==
    \/ \E width \in Widths : Toggle(width)
    \/ \E e \in sent : Deliver(e)

Spec == Init /\ [][Next]_vars
-----------------------------------------------------------------------------
Wanted == intent # None /\ intent.cancelled = {}

ProvedLater(r, e) == DefinitelyBefore(e.clock.at, e.clock.width, r.clock.at)

Adds    == {e \in delivered : e.kind = "add"}
Removes == {e \in delivered : e.kind = "remove"}

(***************************************************************************)
(* event_order.py: "With overlapping intervals an enqueue wins over a      *)
(* cancellation."  An enqueue that reached the row and that no delivered   *)
(* cancellation is proved to follow is still wanted, whatever the order    *)
(* and the number of the deliveries.                                       *)
(***************************************************************************)
UnrefutedEnqueueWins ==
    \A e \in Adds : (\A r \in Removes : ~ProvedLater(r, e)) => Wanted

(***************************************************************************)
(* event_order.py: "Nonoverlapping intervals establish order."  A request  *)
(* is not kept alive when one cancellation is proved to follow every       *)
(* enqueue the row has seen.                                               *)
(***************************************************************************)
ProvedCancelWins ==
    (\E r \in Removes : \A e \in Adds : ProvedLater(r, e)) => ~Wanted

(***************************************************************************)
(* event_order.py: "Message identity still makes redelivery idempotent."   *)
(* Delivering a webhook again never turns a wanted request into a          *)
(* cancelled one or back.                                                  *)
(***************************************************************************)
RedeliveryKeepsVerdict ==
    [][\A e \in delivered : Deliver(e) => (Wanted' <=> Wanted)]_vars
=============================================================================
