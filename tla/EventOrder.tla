----------------------------- MODULE EventOrder -----------------------------
(***************************************************************************)
(* Source timestamps as intervals (models/event_order.py).                 *)
(*                                                                         *)
(* GitLab reports the instant of a change truncated to some precision, so  *)
(* the bot never learns the instant itself: it learns the lower end "at"   *)
(* and the length "width" of an interval that contains it.  A clock is     *)
(* that pair.  "at" is None when the payload carried no timestamp.         *)
(***************************************************************************)
EXTENDS Integers

CONSTANT
    None        \* Python's None: no timestamp, no row, no request

ASSUME NoneIsNoInstant == None \notin Int

Clocks == [at : Int \cup {None}, width : Nat \ {0}]

(* definitely_before: the whole interval lies before the boundary. *)
DefinitelyBefore(at, width, boundary) == at + width =< boundary

(* compare_event: -1 and 1 are proved orders, 0 is "overlapping or unknown". *)
CompareEvent(incoming, saved) ==
    IF incoming.at = None \/ saved.at = None THEN 0
    ELSE IF DefinitelyBefore(incoming.at, incoming.width, saved.at) THEN -1
    ELSE IF DefinitelyBefore(saved.at, saved.width, incoming.at) THEN 1
    ELSE 0

Earlier(a, b) == IF a =< b THEN a ELSE b
Later(a, b)   == IF a =< b THEN b ELSE a

(* preserve_uncertainty: two merged enqueues keep the union of both clocks. *)
PreserveUncertainty(incoming, saved) ==
    IF incoming.at = None \/ saved.at = None
    THEN [at |-> None, width |-> incoming.width]
    ELSE LET lower == Earlier(incoming.at, saved.at)
             upper == Later(incoming.at + incoming.width, saved.at + saved.width)
         IN  [at |-> lower, width |-> upper - lower]
=============================================================================
