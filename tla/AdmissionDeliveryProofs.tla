---------------------- MODULE AdmissionDeliveryProofs -----------------------
(***************************************************************************)
(* Proofs about event order and about the requeue request under late,      *)
(* repeated and reordered webhooks, for every number of changes and every  *)
(* set of timestamp precisions.                                            *)
(***************************************************************************)
EXTENDS AdmissionDelivery, TLAPS

KnownClocks == [at : Int, width : Nat \ {0}]

Upper(clock) == clock.at + clock.width

(* The instant lies in the interval a clock stands for. *)
Within(t, clock) == clock.at =< t /\ t < Upper(clock)

(***************************************************************************)
(* compare_event (models/event_order.py): whatever the instants were that  *)
(* GitLab truncated, a proved order is their order.                        *)
(***************************************************************************)
THEOREM CompareEventIsSound ==
    ASSUME NEW c \in KnownClocks, NEW d \in KnownClocks, NEW t \in Int, NEW u \in Int,
           Within(t, c), Within(u, d)
    PROVE  /\ CompareEvent(c, d) = -1 => t < u
           /\ CompareEvent(c, d) = 1 => u < t
BY NoneIsNoInstant DEF KnownClocks, Within, Upper, CompareEvent, DefinitelyBefore

(***************************************************************************)
(* preserve_uncertainty: "Merging overlapping enqueues cannot make either  *)
(* source clock more precise".  The merged clock is a clock, and it admits *)
(* every instant that either source clock admits.                          *)
(***************************************************************************)
THEOREM UncertaintyIsPreserved ==
    ASSUME NEW c \in KnownClocks, NEW d \in KnownClocks, NEW t \in Int,
           Within(t, c) \/ Within(t, d)
    PROVE  /\ PreserveUncertainty(c, d) \in KnownClocks
           /\ Within(t, PreserveUncertainty(c, d))
BY NoneIsNoInstant DEF KnownClocks, Within, Upper, PreserveUncertainty, Earlier, Later
-----------------------------------------------------------------------------
(* The inductive invariant. *)

Unrefuted(e) == \A r \in Removes : ~ProvedLater(r, e)

(* One change, one message. *)
OneMessageEach ==
    /\ \A e \in sent : e.msg =< now
    /\ \A e, f \in sent : e.msg = f.msg => e = f

SeenWasDelivered ==
    /\ intent = None => delivered = {}
    /\ intent # None => \A m \in intent.seen : \E e \in delivered : e.msg = m

(* A cancelled request carries the clock of a delivered cancellation. *)
CancelIsBacked ==
    intent # None /\ intent.cancelled # {} => \E r \in Removes : r.clock = intent.clock

(* Nothing ends later than the clock of a wanted request, of the enqueues    *)
(* that no cancellation is proved to follow.                                 *)
EnqueueIsCovered ==
    \A e \in Adds : Unrefuted(e) => Wanted /\ Upper(e.clock) =< Upper(intent.clock)

IInv == TypeOK /\ OneMessageEach /\ SeenWasDelivered /\ CancelIsBacked /\ EnqueueIsCovered

(* Truncation does not leave the natural numbers. *)
LEMMA TruncatedType ==
    ASSUME NEW t \in Nat, NEW w \in Nat \ {0}
    PROVE  Truncated(t, w) \in Nat
<1>1. t % w \in Nat /\ t % w =< t
  OBVIOUS
<1> QED BY <1>1 DEF Truncated

(* The invariant holds before the first change. *)
LEMMA InitIInv == Init => IInv
BY DeliveryBounds DEF Init, IInv, TypeOK, OneMessageEach, SeenWasDelivered, CancelIsBacked, EnqueueIsCovered,
       Adds, Removes

(* A change the user makes disturbs the messages only. *)
LEMMA ToggleStep == ASSUME IInv, NEW width \in Widths, Toggle(width) PROVE IInv'
<1> DEFINE kind  == IF label THEN "remove" ELSE "add"
           clock == [at |-> Truncated(now', width), width |-> width]
           e     == [msg |-> now', kind |-> kind, clock |-> clock]
<1>1. now' = now + 1 /\ now < MaxInstant /\ now \in Nat /\ width \in Nat \ {0}
  BY DeliveryBounds DEF Toggle, IInv, TypeOK
<1>2. sent' = sent \cup {e} /\ delivered' = delivered /\ intent' = intent /\ label' = ~label
  BY DEF Toggle
<1>3. kind \in {"add", "remove"}
  OBVIOUS
<1>4. clock \in [at : Nat, width : Nat \ {0}]
  BY <1>1, TruncatedType
<1>5. e \in Events
  <2> HIDE DEF kind, clock
  <2> QED BY <1>1, <1>3, <1>4 DEF Events
<1>6. e.msg = now + 1
  BY <1>1
<1> HIDE DEF e
<1>7. TypeOK'
  <2>1. now' \in 0 .. MaxInstant BY <1>1, DeliveryBounds
  <2>2. label' \in BOOLEAN BY <1>2
  <2>3. sent' \subseteq Events /\ delivered' \subseteq sent'
    BY <1>2, <1>5 DEF IInv, TypeOK
  <2> QED BY <2>1, <2>2, <2>3, <1>2 DEF IInv, TypeOK
<1>8. OneMessageEach'
  <2>1. \A f \in sent : f.msg \in Nat /\ f.msg =< now
    BY DEF IInv, TypeOK, Events, OneMessageEach
  <2> QED BY <2>1, <1>1, <1>2, <1>6 DEF IInv, OneMessageEach
<1>9. (SeenWasDelivered /\ CancelIsBacked /\ EnqueueIsCovered)'
  BY <1>2 DEF IInv, SeenWasDelivered, CancelIsBacked, EnqueueIsCovered, Adds, Removes, Wanted,
              Unrefuted, ProvedLater
<1> QED BY <1>7, <1>8, <1>9 DEF IInv

(* The request after the event: unchanged, cancelled by it, or made by it. *)
LEMMA RequestAfter ==
    ASSUME IInv, NEW e \in sent, Deliver(e)
    PROVE  /\ e \in Events /\ e.clock.at \in Nat /\ e.clock.width \in Nat \ {0} /\ e.msg \in Nat
           /\ delivered' = delivered \cup {e} /\ sent' = sent /\ now' = now /\ label' = label
           /\ IF RequeueUnchanged(e.msg, e.clock, e.kind = "remove", intent) THEN intent' = intent
              ELSE IF e.kind = "remove" THEN intent' = CancelledRequeue(e.msg, e.clock, intent)
              ELSE intent' = EnqueuedRequeue(e.msg, e.clock, intent)
BY DEF Deliver, WriteRequeue, IInv, TypeOK, Events

(* A delivery adds its message to the delivered ones of its kind. *)
LEMMA DeliveredSets ==
    ASSUME IInv, NEW e \in sent, Deliver(e)
    PROVE  /\ e.kind = "add" => Adds' = Adds \cup {e} /\ Removes' = Removes
           /\ e.kind = "remove" => Adds' = Adds /\ Removes' = Removes \cup {e}
<1>1. delivered' = delivered \cup {e} BY DEF Deliver
<1> QED BY <1>1 DEF Adds, Removes

(* The event is ignored. *)
LEMMA IgnoredStep ==
    ASSUME IInv, NEW e \in sent, Deliver(e),
           RequeueUnchanged(e.msg, e.clock, e.kind = "remove", intent)
    PROVE  IInv'
<1>1. /\ e \in Events /\ e.clock.at \in Nat /\ e.clock.width \in Nat \ {0} /\ e.msg \in Nat
      /\ delivered' = delivered \cup {e} /\ sent' = sent /\ now' = now /\ label' = label
      /\ intent' = intent
  BY RequestAfter
<1>2. intent # None
  BY DEF RequeueUnchanged, OrderAgainst, Uncancelled
<1>3. intent \in Intents(Nat, Nat) /\ intent.clock.at \in Nat /\ intent.clock.width \in Nat \ {0}
  BY <1>2 DEF IInv, TypeOK, Intents
<1>4. TypeOK' /\ OneMessageEach' /\ SeenWasDelivered'
  BY <1>1, <1>2 DEF IInv, TypeOK, OneMessageEach, SeenWasDelivered
<1>5. CancelIsBacked'
  BY <1>1 DEF IInv, CancelIsBacked, Removes
<1>6. EnqueueIsCovered'
  <2> SUFFICES ASSUME NEW f \in Adds', Unrefuted(f)'
               PROVE  Wanted /\ Upper(f.clock) =< Upper(intent.clock)
    BY <1>1 DEF EnqueueIsCovered, Wanted
  <2>1. Unrefuted(f)
    BY <1>1 DEF Unrefuted, Removes, ProvedLater
  <2>2. CASE f \in Adds
    BY <2>1, <2>2 DEF IInv, EnqueueIsCovered
  <2>3. CASE f \notin Adds
    <3>1. f = e /\ e.kind = "add" /\ e \notin delivered
      BY <2>3, <1>1 DEF Adds
    <3>2. e.msg \notin intent.seen
      <4>1. \A g \in delivered : g.msg = e.msg => g = e
        BY DEF IInv, OneMessageEach, TypeOK
      <4> QED BY <3>1, <4>1, <1>2 DEF IInv, SeenWasDelivered
    <3>3. e.clock.at + e.clock.width =< intent.clock.at
      BY <3>1, <3>2, <1>1, <1>2, <1>3, NoneIsNoInstant
         DEF RequeueUnchanged, OrderAgainst, CompareEvent, DefinitelyBefore
    <3>4. CASE intent.cancelled # {}
      <4>1. PICK r \in Removes : r.clock = intent.clock
        BY <3>4, <1>2 DEF IInv, CancelIsBacked
      <4>2. ProvedLater(r, e)
        BY <4>1, <3>3 DEF ProvedLater, DefinitelyBefore
      <4> QED BY <2>1, <3>1, <4>1, <4>2 DEF Unrefuted
    <3>5. CASE intent.cancelled = {}
      BY <3>5, <3>1, <3>3, <1>1, <1>2, <1>3 DEF Wanted, Upper
    <3> QED BY <3>4, <3>5
  <2> QED BY <2>2, <2>3
<1> QED BY <1>4, <1>5, <1>6 DEF IInv

(* The event is a cancellation, and it is taken. *)
LEMMA CancelStep ==
    ASSUME IInv, NEW e \in sent, Deliver(e), e.kind = "remove",
           ~RequeueUnchanged(e.msg, e.clock, e.kind = "remove", intent)
    PROVE  IInv'
<1>1. /\ e \in Events /\ e.clock.at \in Nat /\ e.clock.width \in Nat \ {0} /\ e.msg \in Nat
      /\ delivered' = delivered \cup {e} /\ sent' = sent /\ now' = now /\ label' = label
      /\ intent' = CancelledRequeue(e.msg, e.clock, intent)
  BY RequestAfter
<1>2. /\ intent' \in Intents(Nat, Nat) /\ intent' # None
      /\ intent'.clock = e.clock /\ intent'.cancelled = {e.clock.at}
      /\ intent'.seen = Seen(intent) \cup {e.msg}
  <2>1. intent' \in Intents(Nat, Nat)
    BY <1>1 DEF CancelledRequeue, Intents, Seen, IInv, TypeOK, Events
  <2> QED BY <1>1, <2>1, NoneIsNoRequest DEF CancelledRequeue
<1>3. TypeOK' /\ OneMessageEach'
  BY <1>1, <1>2 DEF IInv, TypeOK, OneMessageEach
<1>4. SeenWasDelivered'
  BY <1>1, <1>2 DEF IInv, SeenWasDelivered, Seen
<1>5. CancelIsBacked'
  BY <1>1, <1>2 DEF CancelIsBacked, Removes
<1>6. EnqueueIsCovered'
  <2> SUFFICES ASSUME NEW f \in Adds', Unrefuted(f)' PROVE FALSE
    BY DEF EnqueueIsCovered
  <2>1. f \in Adds /\ Unrefuted(f) /\ ~ProvedLater(e, f)
    BY <1>1 DEF Adds, Unrefuted, Removes, ProvedLater
  <2>2. Wanted /\ Upper(f.clock) =< Upper(intent.clock)
    BY <2>1 DEF IInv, EnqueueIsCovered
  <2>3. /\ intent # None /\ intent.cancelled = {}
        /\ intent.clock.at \in Nat /\ intent.clock.width \in Nat \ {0}
    BY <2>2 DEF Wanted, IInv, TypeOK, Intents
  <2>4. f.clock.at \in Nat /\ f.clock.width \in Nat \ {0}
    BY <2>1 DEF Adds, IInv, TypeOK, Events
  <2>5. CompareEvent(e.clock, intent.clock) = 1
    BY <2>3, <1>1, NoneIsNoInstant
       DEF RequeueUnchanged, OrderAgainst, Uncancelled, CompareEvent
  <2>6. Upper(intent.clock) =< e.clock.at
    BY <2>5, <2>3, <1>1, NoneIsNoInstant DEF CompareEvent, DefinitelyBefore, Upper
  <2>7. ProvedLater(e, f)
    BY <2>2, <2>3, <2>4, <2>6, <1>1 DEF ProvedLater, DefinitelyBefore, Upper
  <2> QED BY <2>1, <2>7
<1> QED BY <1>3, <1>4, <1>5, <1>6 DEF IInv

(* The event is an enqueue, and it is taken. *)
LEMMA EnqueueStep ==
    ASSUME IInv, NEW e \in sent, Deliver(e), e.kind = "add",
           ~RequeueUnchanged(e.msg, e.clock, e.kind = "remove", intent)
    PROVE  IInv'
<1> DEFINE widened == Uncancelled(intent) /\ OrderAgainst(e.clock, intent) = 0
<1>1. /\ e \in Events /\ e.clock.at \in Nat /\ e.clock.width \in Nat \ {0} /\ e.msg \in Nat
      /\ delivered' = delivered \cup {e} /\ sent' = sent /\ now' = now /\ label' = label
      /\ intent' = EnqueuedRequeue(e.msg, e.clock, intent)
  BY RequestAfter
<1>2. Uncancelled(intent) =>
        intent \in Intents(Nat, Nat) /\ intent.clock.at \in Nat /\ intent.clock.width \in Nat \ {0}
  BY DEF Uncancelled, IInv, TypeOK, Intents
<1> DEFINE union == PreserveUncertainty(e.clock, intent.clock)
<1>3. Uncancelled(intent) =>
        /\ union \in [at : Nat, width : Nat \ {0}]
        /\ Upper(e.clock) =< Upper(union) /\ Upper(intent.clock) =< Upper(union)
  BY <1>1, <1>2, NoneIsNoInstant DEF PreserveUncertainty, Earlier, Later, Upper
<1>4. /\ intent'.clock = (IF widened THEN union ELSE e.clock)
      /\ intent'.cancelled = {} /\ intent'.seen = Seen(intent) \cup {e.msg}
      /\ intent'.wanted = TRUE /\ intent'.key = e.msg /\ intent'.applied = None
  BY <1>1 DEF EnqueuedRequeue
<1>5. e.clock \in [at : Nat, width : Nat \ {0}]
  BY <1>1 DEF Events
<1>6. intent' \in Intents(Nat, Nat) /\ intent' # None
  <2>1. (IF widened THEN union ELSE e.clock) \in [at : Nat, width : Nat \ {0}]
    BY <1>3, <1>5
  <2>2. Seen(intent) \cup {e.msg} \in SUBSET Nat
    BY <1>1 DEF Seen, IInv, TypeOK, Intents
  <2>3. intent' \in Intents(Nat, Nat)
    <3> HIDE DEF widened, union
    <3> QED BY <1>1, <2>1, <2>2 DEF EnqueuedRequeue, Intents, widened, union
  <2> QED BY <2>3, NoneIsNoRequest
<1>7. Wanted'
  BY <1>4, <1>6 DEF Wanted
<1>8. TypeOK' /\ OneMessageEach'
  BY <1>1, <1>6 DEF IInv, TypeOK, OneMessageEach
<1>9. SeenWasDelivered'
  BY <1>1, <1>4, <1>6 DEF IInv, SeenWasDelivered, Seen
<1>10. CancelIsBacked'
  BY <1>4 DEF CancelIsBacked
<1>11. EnqueueIsCovered'
  <2> SUFFICES ASSUME NEW f \in Adds', Unrefuted(f)'
               PROVE  Upper(f.clock) =< Upper(intent'.clock)
    BY <1>7 DEF EnqueueIsCovered, Upper
  <2>1. CASE f = e
    BY <2>1, <1>1, <1>3, <1>4 DEF Upper
  <2>2. CASE f # e
    <3>1. f \in Adds /\ Unrefuted(f)
      BY <2>2, <1>1 DEF Adds, Unrefuted, Removes, ProvedLater
    <3>2. Wanted /\ Upper(f.clock) =< Upper(intent.clock)
      BY <3>1 DEF IInv, EnqueueIsCovered
    <3>3. Uncancelled(intent) /\ intent # None
      BY <3>2 DEF Wanted, Uncancelled
    <3>4. f.clock.at \in Nat /\ f.clock.width \in Nat \ {0}
      BY <3>1 DEF Adds, IInv, TypeOK, Events
    <3>5. CASE widened
      <4>1. Upper(union) \in Int /\ Upper(intent.clock) \in Int /\ Upper(f.clock) \in Int
        BY <1>2, <1>3, <3>3, <3>4 DEF Upper
      <4> HIDE DEF union
      <4> QED BY <4>1, <3>2, <3>3, <3>5, <1>3, <1>4
    <3>6. CASE ~widened
      <4>1. CompareEvent(e.clock, intent.clock) = 1
        BY <3>3, <3>6, <1>1, <1>2, NoneIsNoInstant DEF RequeueUnchanged, OrderAgainst, CompareEvent
      <4>2. Upper(intent.clock) =< e.clock.at
        BY <4>1, <3>3, <1>1, <1>2, NoneIsNoInstant DEF CompareEvent, DefinitelyBefore, Upper
      <4> QED BY <4>2, <3>2, <3>3, <3>4, <3>6, <1>1, <1>2, <1>4 DEF Upper
    <3> QED BY <3>5, <3>6
  <2> QED BY <2>1, <2>2
<1> QED BY <1>8, <1>9, <1>10, <1>11 DEF IInv

(* IInv is inductive. *)
LEMMA NextIInv == IInv /\ [Next]_vars => IInv'
<1> SUFFICES ASSUME IInv, [Next]_vars PROVE IInv'
  OBVIOUS
<1>1. CASE \E width \in Widths : Toggle(width)
  BY <1>1, ToggleStep
<1>2. ASSUME NEW e \in sent, Deliver(e) PROVE IInv'
  <2>1. e.kind = "add" \/ e.kind = "remove"
    BY DEF IInv, TypeOK, Events
  <2> QED BY <2>1, <1>2, IgnoredStep, CancelStep, EnqueueStep
<1>3. CASE UNCHANGED vars
  BY <1>3 DEF vars, IInv, TypeOK, OneMessageEach, SeenWasDelivered, CancelIsBacked,
              EnqueueIsCovered, Adds, Removes, Wanted, Unrefuted, ProvedLater
<1> QED BY <1>1, <1>2, <1>3 DEF Next
-----------------------------------------------------------------------------
(***************************************************************************)
(* The row's request and the messages keep their types however late, often *)
(* and disordered the webhooks arrive.                                     *)
(***************************************************************************)
THEOREM DeliveryTypeCorrect == Spec => []TypeOK
<1>1. IInv => TypeOK BY DEF IInv
<1> QED BY <1>1, InitIInv, NextIInv, PTL DEF Spec

(***************************************************************************)
(* event_order.py: "With overlapping intervals an enqueue wins over a      *)
(* cancellation."  For every number of changes, every mix of timestamp     *)
(* precisions and every order and number of deliveries, an enqueue that    *)
(* reached the row and that no delivered cancellation is proved to follow  *)
(* is still wanted.                                                        *)
(***************************************************************************)
THEOREM EnqueueIsNeverLost == Spec => []UnrefutedEnqueueWins
<1>1. IInv => UnrefutedEnqueueWins
  BY DEF IInv, EnqueueIsCovered, Unrefuted, UnrefutedEnqueueWins
<1> QED BY <1>1, InitIInv, NextIInv, PTL DEF Spec
-----------------------------------------------------------------------------
(* GitLab reports every change with one and the same precision.  Intervals   *)
(* are then aligned: two of them are equal or one provably precedes the      *)
(* other.  With two precisions "overlapping" is not transitive, and neither  *)
(* ProvedCancelWins nor RedeliveryKeepsVerdict holds.                        *)
UniformPrecision == \A v, w \in Widths : v = w

(* An interval of a truncated instant. *)
Aligned(clock) ==
    /\ clock.width \in Widths
    /\ \E k \in Int : clock.at = k * clock.width

(* What became of a delivered change: the request took it, a later one made  *)
(* it irrelevant, or it is a cancellation that an enqueue of its interval    *)
(* defeats.                                                                  *)
Settled(d) ==
    /\ d.clock.at =< intent.clock.at
    /\ \/ d.msg \in intent.seen
       \/ d.clock.at < intent.clock.at
       \/ d.kind = "remove" /\ Wanted

MessagesAligned == \A e \in sent : Aligned(e.clock)

RequestAligned == intent # None => Aligned(intent.clock)

WantedIsBacked == Wanted => \E e \in Adds : e.clock = intent.clock

AllSettled == \A d \in delivered : intent # None /\ Settled(d)

UniformInv == MessagesAligned /\ RequestAligned /\ WantedIsBacked /\ AllSettled

(* Of two multiples of w the smaller one is smaller by w at least. *)
LEMMA MultiplesApart ==
    ASSUME NEW w \in Nat \ {0}, NEW k \in Int, NEW l \in Int, k * w < l * w
    PROVE  k * w + w =< l * w
<1>1. k < l
  <2>1. CASE l =< k
    <3>1. (k - l) * w >= 0 BY <2>1
    <3>2. (k - l) * w = k * w - l * w OBVIOUS
    <3> QED BY <3>1, <3>2
  <2> QED BY <2>1
<1>2. (l - k - 1) * w >= 0 BY <1>1
<1>3. (l - k - 1) * w = l * w - k * w - w OBVIOUS
<1> QED BY <1>2, <1>3

(* Aligned intervals of one width are equal or ordered. *)
LEMMA AlignedOrder ==
    ASSUME UniformPrecision, NEW c \in KnownClocks, NEW d \in KnownClocks,
           Aligned(c), Aligned(d)
    PROVE  /\ c.width = d.width
           /\ c.at < d.at => c.at + c.width =< d.at
           /\ CompareEvent(c, d) < 0 <=> c.at < d.at
           /\ CompareEvent(c, d) = 0 <=> c.at = d.at
<1>1. c.at \in Int /\ d.at \in Int /\ c.width \in Nat \ {0} /\ c.width = d.width
  BY DEF KnownClocks, Aligned, UniformPrecision
<1> DEFINE w == c.width
<1>2. PICK k \in Int : c.at = k * w BY <1>1 DEF Aligned
<1>3. PICK l \in Int : d.at = l * w BY <1>1 DEF Aligned
<1> HIDE DEF w
<1>4. w \in Nat \ {0} BY <1>1 DEF w
<1>5. c.at < d.at => c.at + w =< d.at BY <1>2, <1>3, <1>4, MultiplesApart
<1>6. d.at < c.at => d.at + w =< c.at BY <1>2, <1>3, <1>4, MultiplesApart
<1> QED BY <1>1, <1>5, <1>6, NoneIsNoInstant DEF w, CompareEvent, DefinitelyBefore

(* Truncation aligns. *)
LEMMA TruncationAligns ==
    ASSUME NEW t \in Nat, NEW width \in Widths
    PROVE  Aligned([at |-> Truncated(t, width), width |-> width])
<1>1. width \in Nat \ {0} BY DeliveryBounds
<1>2. t \div width \in Int /\ t - (t % width) = (t \div width) * width BY <1>1
<1> QED BY <1>2 DEF Aligned, Truncated

(* Clocks of messages and of the request carry a timestamp. *)
LEMMA DeliveredClocks ==
    ASSUME IInv
    PROVE  /\ \A e \in sent : e.clock \in KnownClocks
           /\ intent # None => intent.clock \in KnownClocks
BY DEF IInv, TypeOK, Events, Intents, KnownClocks

(* Nothing was delivered before the first change. *)
LEMMA InitUniform == Init => UniformInv
BY DEF Init, UniformInv, MessagesAligned, RequestAligned, WantedIsBacked, AllSettled, Wanted

(* A change emits one aligned message. *)
LEMMA ToggleUniform ==
    ASSUME IInv, UniformInv, NEW width \in Widths, Toggle(width)
    PROVE  UniformInv'
<1>1. now + 1 \in Nat BY DEF IInv, TypeOK
<1>2. delivered' = delivered /\ intent' = intent /\ now' = now + 1 BY DEF Toggle
<1>3. MessagesAligned'
  <2>1. Aligned([at |-> Truncated(now + 1, width), width |-> width])
    BY <1>1, TruncationAligns
  <2> SUFFICES ASSUME NEW e \in sent' PROVE Aligned(e.clock) BY DEF MessagesAligned
  <2>2. e \in sent \/ e.clock = [at |-> Truncated(now + 1, width), width |-> width]
    BY <1>2 DEF Toggle
  <2> QED BY <2>1, <2>2 DEF UniformInv, MessagesAligned
<1> QED BY <1>2, <1>3 DEF UniformInv, RequestAligned, WantedIsBacked, AllSettled, Wanted, Adds, Settled

(* A settled change is one that its redelivery does not change. *)
LEMMA SettledIsUnchanged ==
    ASSUME IInv, UniformInv, UniformPrecision, NEW e \in delivered
    PROVE  RequeueUnchanged(e.msg, e.clock, e.kind = "remove", intent)
<1>1. e \in sent /\ intent # None /\ Settled(e)
  BY DEF IInv, TypeOK, UniformInv, AllSettled
<1>2. /\ e.clock.at < intent.clock.at => CompareEvent(e.clock, intent.clock) < 0
      /\ e.clock.at = intent.clock.at => CompareEvent(e.clock, intent.clock) = 0
  BY <1>1, DeliveredClocks, AlignedOrder DEF UniformInv, MessagesAligned, RequestAligned
<1>3. e.clock.at \in Int /\ intent.clock.at \in Int
  BY <1>1, DeliveredClocks DEF KnownClocks
<1> QED BY <1>1, <1>2, <1>3 DEF Settled, Wanted, RequeueUnchanged, OrderAgainst, Uncancelled

(* A delivery that changes nothing settles its message. *)
LEMMA IgnoredUniform ==
    ASSUME IInv, UniformInv, UniformPrecision, NEW e \in sent, Deliver(e),
           RequeueUnchanged(e.msg, e.clock, e.kind = "remove", intent)
    PROVE  UniformInv'
<1>1. delivered' = delivered \cup {e} /\ sent' = sent /\ intent' = intent
  BY RequestAfter
<1>2. intent # None
  BY DEF RequeueUnchanged, OrderAgainst, Uncancelled
<1>3. /\ CompareEvent(e.clock, intent.clock) < 0 <=> e.clock.at < intent.clock.at
      /\ CompareEvent(e.clock, intent.clock) = 0 <=> e.clock.at = intent.clock.at
  BY <1>2, DeliveredClocks, AlignedOrder DEF UniformInv, MessagesAligned, RequestAligned
<1>4. e.clock.at \in Int /\ intent.clock.at \in Int
  BY <1>2, DeliveredClocks DEF KnownClocks
<1>5. Settled(e)
  <2>1. CASE e.msg \in intent.seen
    <3>1. PICK d \in delivered : d.msg = e.msg BY <2>1, <1>2 DEF IInv, SeenWasDelivered
    <3>2. d = e BY <3>1 DEF IInv, OneMessageEach, TypeOK
    <3> QED BY <3>1, <3>2 DEF UniformInv, AllSettled
  <2>2. CASE e.msg \notin intent.seen
    BY <2>2, <1>2, <1>3, <1>4 DEF RequeueUnchanged, OrderAgainst, Uncancelled, Settled, Wanted
  <2> QED BY <2>1, <2>2
<1> QED BY <1>1, <1>2, <1>5
        DEF UniformInv, MessagesAligned, RequestAligned, WantedIsBacked, AllSettled, Wanted, Adds, Settled

(* A delivery the request takes moves it to the message's interval, which is *)
(* not before any interval delivered so far.                                 *)
LEMMA TakenUniform ==
    ASSUME IInv, UniformInv, UniformPrecision, NEW e \in sent, Deliver(e),
           ~RequeueUnchanged(e.msg, e.clock, e.kind = "remove", intent)
    PROVE  UniformInv'
<1>1. /\ e \in Events /\ delivered' = delivered \cup {e} /\ sent' = sent
      /\ IF e.kind = "remove" THEN intent' = CancelledRequeue(e.msg, e.clock, intent)
         ELSE intent' = EnqueuedRequeue(e.msg, e.clock, intent)
  BY RequestAfter
<1>2. Aligned(e.clock) /\ e.clock \in KnownClocks
  BY DeliveredClocks DEF UniformInv, MessagesAligned
<1>3. intent # None =>
        /\ intent.clock \in KnownClocks /\ intent.clock.width = e.clock.width
        /\ CompareEvent(e.clock, intent.clock) < 0 <=> e.clock.at < intent.clock.at
        /\ CompareEvent(e.clock, intent.clock) = 0 <=> e.clock.at = intent.clock.at
  BY <1>2, DeliveredClocks, AlignedOrder DEF UniformInv, RequestAligned
<1>4. e.clock.at \in Int /\ e.clock.width \in Nat \ {0} /\ (intent # None => intent.clock.at \in Int)
  BY <1>2, <1>3 DEF KnownClocks
<1>5. intent # None => intent.clock.at =< e.clock.at
  BY <1>3, <1>4 DEF RequeueUnchanged, OrderAgainst
<1>6. /\ intent'.clock = e.clock
      /\ intent'.seen = Seen(intent) \cup {e.msg}
      /\ intent'.cancelled = IF e.kind = "remove" THEN {e.clock.at} ELSE {}
  <2>1. CASE e.kind = "remove" BY <2>1, <1>1 DEF CancelledRequeue
  <2>2. CASE e.kind # "remove"
    <3>1. e.clock \in [at : Nat, width : Nat \ {0}] BY <1>1 DEF Events
    <3>2. Uncancelled(intent) /\ OrderAgainst(e.clock, intent) = 0 =>
            PreserveUncertainty(e.clock, intent.clock) = e.clock
      <4> SUFFICES ASSUME intent # None, intent.clock.at = e.clock.at
                   PROVE  PreserveUncertainty(e.clock, intent.clock) = e.clock
        BY <1>3 DEF Uncancelled, OrderAgainst
      <4> QED BY <1>3, <1>4, <3>1, NoneIsNoInstant DEF PreserveUncertainty, Earlier, Later
    <3> QED BY <2>2, <3>2, <1>1 DEF EnqueuedRequeue
  <2> QED BY <2>1, <2>2
<1>7. intent' # None
  <2>1. IInv' BY <1>1, CancelStep, EnqueueStep DEF Events
  <2> QED BY <2>1, <1>1 DEF IInv, SeenWasDelivered
<1>8. Wanted' <=> e.kind # "remove"
  BY <1>6, <1>7 DEF Wanted
<1>9. WantedIsBacked'
  BY <1>1, <1>6, <1>8 DEF WantedIsBacked, Adds, Events
<1>10. AllSettled'
  <2> SUFFICES ASSUME NEW d \in delivered' PROVE Settled(d)'
    BY <1>7 DEF AllSettled
  <2>1. CASE d = e
    BY <2>1, <1>4, <1>6 DEF Settled
  <2>2. CASE d # e
    <3>1. d \in delivered /\ intent # None /\ Settled(d) /\ d.clock.at \in Int
      BY <2>2, <1>1, DeliveredClocks DEF UniformInv, AllSettled, IInv, TypeOK, KnownClocks
    <3>2. CASE intent.clock.at < e.clock.at
      BY <3>1, <3>2, <1>4, <1>6 DEF Settled
    <3>3. CASE intent.clock.at = e.clock.at
      <4>1. Wanted => e.kind # "remove"
        BY <3>1, <3>3, <1>3 DEF Wanted, RequeueUnchanged, OrderAgainst, Uncancelled
      <4> QED BY <3>1, <3>3, <4>1, <1>4, <1>6, <1>8 DEF Settled, Seen
    <3> QED BY <3>1, <3>2, <3>3, <1>4, <1>5
  <2> QED BY <2>1, <2>2
<1> QED BY <1>1, <1>2, <1>6, <1>9, <1>10 DEF UniformInv, MessagesAligned, RequestAligned

(* With one precision UniformInv is inductive, relative to IInv. *)
LEMMA NextUniform == ASSUME UniformPrecision PROVE IInv /\ UniformInv /\ [Next]_vars => UniformInv'
<1> SUFFICES ASSUME IInv, UniformInv, [Next]_vars PROVE UniformInv'
  OBVIOUS
<1>1. CASE \E width \in Widths : Toggle(width) BY <1>1, ToggleUniform
<1>2. CASE \E e \in sent : Deliver(e) BY <1>2, IgnoredUniform, TakenUniform
<1>3. CASE UNCHANGED vars
  BY <1>3 DEF vars, UniformInv, MessagesAligned, RequestAligned, WantedIsBacked, AllSettled,
              Wanted, Adds, Settled
<1> QED BY <1>1, <1>2, <1>3 DEF Next

(***************************************************************************)
(* event_order.py: "Nonoverlapping intervals establish order."  While      *)
(* GitLab reports one precision, no order and no number of deliveries      *)
(* keeps a request alive whose enqueues one delivered cancellation is      *)
(* proved to follow.                                                       *)
(***************************************************************************)
THEOREM ProvedCancelIsNeverLost == ASSUME UniformPrecision PROVE Spec => []ProvedCancelWins
<1>1. IInv /\ UniformInv => ProvedCancelWins
  <2> SUFFICES ASSUME IInv, UniformInv, NEW r \in Removes, \A e \in Adds : ProvedLater(r, e), Wanted
               PROVE  FALSE
    BY DEF ProvedCancelWins
  <2>1. PICK e \in Adds : e.clock = intent.clock BY DEF UniformInv, WantedIsBacked
  <2>2. r \in delivered /\ intent # None /\ Settled(r)
    BY DEF Removes, UniformInv, AllSettled
  <2>3. r.clock \in KnownClocks /\ intent.clock \in KnownClocks
    BY <2>2, DeliveredClocks DEF IInv, TypeOK
  <2>4. intent.clock.at + intent.clock.width =< r.clock.at
    BY <2>1 DEF ProvedLater, DefinitelyBefore
  <2> QED BY <2>2, <2>3, <2>4 DEF Settled, KnownClocks
<1> QED BY <1>1, InitIInv, NextIInv, InitUniform, NextUniform, PTL DEF Spec

(***************************************************************************)
(* event_order.py: "Message identity still makes redelivery idempotent."   *)
(* While GitLab reports one precision, delivering a webhook again neither  *)
(* revives nor cancels the request, although later changes may have        *)
(* arrived since.                                                          *)
(***************************************************************************)
THEOREM RedeliveryIsIdempotent == ASSUME UniformPrecision PROVE Spec => RedeliveryKeepsVerdict
<1>1. ASSUME IInv, UniformInv, NEW e \in delivered, Deliver(e) PROVE Wanted' <=> Wanted
  <2>1. intent' = intent BY <1>1, SettledIsUnchanged DEF Deliver, WriteRequeue
  <2> QED BY <2>1 DEF Wanted
<1>2. IInv /\ UniformInv =>
        [\A e \in delivered : Deliver(e) => (Wanted' <=> Wanted)]_vars
  BY <1>1
<1> QED BY <1>2, InitIInv, NextIInv, InitUniform, NextUniform, PTL DEF Spec, RedeliveryKeepsVerdict
-----------------------------------------------------------------------------
(* What the delivered webhooks say, read as a set: some enqueue among them   *)
(* is not provably followed by a cancellation among them.                    *)
DeliveriesWant == \E e \in Adds : \A r \in Removes : ~ProvedLater(r, e)

(***************************************************************************)
(* _merge_requeue folds webhooks in the order they happen to arrive, yet   *)
(* while GitLab reports one precision its verdict depends only on which    *)
(* ones have arrived: any two orders, with any repetitions, that deliver   *)
(* the same webhooks leave the same answer to "is the merge request to be  *)
(* queued again".                                                          *)
(***************************************************************************)
THEOREM DeliveryOrderDoesNotMatter ==
    ASSUME UniformPrecision PROVE Spec => [](Wanted <=> DeliveriesWant)
<1>1. IInv /\ DeliveriesWant => Wanted
  BY DEF IInv, EnqueueIsCovered, Unrefuted, DeliveriesWant
<1>2. ASSUME IInv, UniformInv, Wanted PROVE DeliveriesWant
  <2>1. PICK e \in Adds : e.clock = intent.clock BY <1>2 DEF UniformInv, WantedIsBacked
  <2>2. SUFFICES ASSUME NEW r \in Removes, ProvedLater(r, e) PROVE FALSE
    BY DEF DeliveriesWant
  <2>3. r \in delivered /\ intent # None /\ Settled(r)
    BY <1>2 DEF Removes, UniformInv, AllSettled
  <2>4. r.clock \in KnownClocks /\ intent.clock \in KnownClocks
    BY <1>2, <2>3, DeliveredClocks DEF IInv, TypeOK
  <2>5. intent.clock.at + intent.clock.width =< r.clock.at
    BY <2>1, <2>2 DEF ProvedLater, DefinitelyBefore
  <2> QED BY <2>3, <2>4, <2>5 DEF Settled, KnownClocks
<1>3. IInv /\ UniformInv => (Wanted <=> DeliveriesWant)
  BY <1>1, <1>2
<1> QED BY <1>3, InitIInv, NextIInv, InitUniform, NextUniform, PTL DEF Spec
=============================================================================
