-------------------------- MODULE RetryQueueProofs --------------------------
(***************************************************************************)
(* A stored webhook is in exactly one place, for any number of workers,    *)
(* deliveries, operators, requeues and faults.                             *)
(*                                                                         *)
(* Three things carry the proof.  Ids are never given out twice, so a      *)
(* worker's batch and an operator's page name the row they were read from  *)
(* or none (BatchesAreTrue, LettersAreTrue).  A row that is due exists     *)
(* (DuesAreStored), so that what a worker fetches are rows.  And the two   *)
(* tables and the settled deliveries partition what was stored (OnePlace). *)
(***************************************************************************)
EXTENDS RetryQueue, FiniteSetTheorems, TLAPS

RowsAreTrue ==
    /\ \A r, s \in retry : r.id = s.id => r = s
    /\ \A r \in retry : r.id =< lastIds.retry

LettersAreTrue ==
    /\ dlq \subseteq seen
    /\ \A l, m \in seen : l.id = m.id => l = m
    /\ \A l \in seen : l.id =< lastIds.dlq

DuesAreStored ==
    /\ \A i \in DOMAIN ready : IsStored(ready[i])
    /\ \A i, j \in DOMAIN ready : ready[i] = ready[j] => i = j

(* What a worker holds was read from the row with this id. *)
TrueItem(item, rows, last) ==
    /\ item.id =< last
    /\ \A r \in rows : r.id = item.id => r.delivery = item.delivery

Trusted(item) == TrueItem(item, retry, lastIds.retry)

BatchesAreTrue ==
    \A w \in Workers :
       /\ workers[w].step # "fetch" => workers[w].batch # <<>>
       /\ \A i \in DOMAIN workers[w].batch : Trusted(workers[w].batch[i])

OnePlace ==
    /\ \A r, s \in retry : r.delivery = s.delivery => r = s
    /\ \A l, m \in dlq : l.delivery = m.delivery => l = m
    /\ \A r \in retry, l \in dlq : r.delivery # l.delivery
    /\ \A r \in retry : r.delivery \in 1 .. stored /\ r.delivery \notin settled
    /\ \A l \in dlq : l.delivery \in 1 .. stored /\ l.delivery \notin settled
    /\ settled \subseteq 1 .. stored
    /\ \A d \in 1 .. stored : \/ d \in settled
                              \/ \E r \in retry : r.delivery = d
                              \/ \E l \in dlq : l.delivery = d

IInv == TypeOK /\ RowsAreTrue /\ LettersAreTrue /\ DuesAreStored /\ BatchesAreTrue /\ OnePlace
-----------------------------------------------------------------------------
(* The operators of the tables *)

(* Dropping an id from the due ones keeps the others, once each. *)
LEMMA NotDueDrops ==
    ASSUME ready \in Seq(Nat), DuesAreStored, NEW STATE id
    PROVE  /\ NotDue(id) \in Seq(Nat)
           /\ \A i \in DOMAIN NotDue(id) : NotDue(id)[i] # id /\ IsStored(NotDue(id)[i])
           /\ \A i, j \in DOMAIN NotDue(id) : NotDue(id)[i] = NotDue(id)[j] => i = j
<1>1. CASE ~IsDue(id)
  BY <1>1 DEF NotDue, IsDue, DuesAreStored
<1>2. CASE IsDue(id)
  <2> DEFINE at == CHOOSE i \in DOMAIN ready : ready[i] = id
             rest == [i \in 1 .. Len(ready) - 1 |-> ready[IF i < at THEN i ELSE i + 1]]
  <2>1. at \in 1 .. Len(ready) /\ ready[at] = id
    BY <1>2 DEF IsDue
  <2>2. NotDue(id) = rest
    BY <1>2 DEF NotDue
  <2> HIDE DEF at
  <2>3. \A i \in 1 .. Len(ready) - 1 : (IF i < at THEN i ELSE i + 1) \in (1 .. Len(ready)) \ {at}
    BY <2>1
  <2>4. Len(ready) - 1 \in Nat /\ rest \in Seq(Nat) /\ DOMAIN rest = 1 .. Len(ready) - 1
    BY <2>1, <2>3
  <2>5. \A i \in DOMAIN rest : rest[i] # id /\ IsStored(rest[i])
    BY <2>1, <2>3, <2>4 DEF DuesAreStored
  <2>6. \A i, j \in DOMAIN rest : rest[i] = rest[j] => i = j
    BY <2>1, <2>3, <2>4 DEF DuesAreStored
  <2> QED BY <2>2, <2>4, <2>5, <2>6
<1> QED BY <1>1, <1>2

(* The due rows after a row left the table. *)
LEMMA RemovalKeepsDues ==
    ASSUME IInv, NEW STATE id, retry' = Without(id), ready' = NotDue(id)
    PROVE  ready' \in Seq(Nat) /\ DuesAreStored'
<1>1. \A i : IsStored(i) /\ i # id => IsStored(i)'
  BY DEF IsStored, Without
<1> QED BY <1>1, NotDueDrops DEF IInv, TypeOK, DuesAreStored

(* What a worker does with its batch keeps it true. *)
LEMMA TurnToKeepsBatches ==
    ASSUME IInv, NEW w \in Workers, NEW STATE batch, batch \in Seq(Rows), TurnTo(w, batch),
           \A i \in DOMAIN batch : TrueItem(batch[i], retry', lastIds'.retry),
           \A item \in Rows : Trusted(item) => TrueItem(item, retry', lastIds'.retry)
    PROVE  workers' \in [Workers -> [step : Steps, batch : Seq(Rows), configured : BOOLEAN]]
           /\ BatchesAreTrue'
<1>1. workers \in [Workers -> [step : Steps, batch : Seq(Rows), configured : BOOLEAN]]
  BY DEF IInv, TypeOK
<1>2. workers' \in [Workers -> [step : Steps, batch : Seq(Rows), configured : BOOLEAN]]
  BY <1>1 DEF TurnTo, Steps
<1>3. ASSUME NEW v \in Workers
      PROVE  /\ workers'[v].step # "fetch" => workers'[v].batch # <<>>
             /\ \A i \in DOMAIN workers'[v].batch :
                   TrueItem(workers'[v].batch[i], retry', lastIds'.retry)
  <2>1. CASE v = w
    BY <1>1, <2>1 DEF TurnTo
  <2>2. CASE v # w
    <3>1. workers'[v] = workers[v] /\ workers[v].batch \in Seq(Rows)
      BY <1>1, <2>2 DEF TurnTo
    <3>2. \A i \in DOMAIN workers[v].batch : workers[v].batch[i] \in Rows
      BY <3>1
    <3> QED BY <3>1, <3>2 DEF IInv, BatchesAreTrue
  <2> QED BY <2>1, <2>2
<1> QED BY <1>2, <1>3 DEF BatchesAreTrue, Trusted

(* The item a worker is busy with, and what is left after it. *)
LEMMA BusyItem ==
    ASSUME IInv, NEW w \in Workers, workers[w].step # "fetch"
    PROVE  /\ Item(w) \in Rows /\ Trusted(Item(w))
           /\ Tail(workers[w].batch) \in Seq(Rows)
           /\ \A i \in DOMAIN Tail(workers[w].batch) :
                 /\ Tail(workers[w].batch)[i] \in Rows
                 /\ Trusted(Tail(workers[w].batch)[i])
<1>1. workers[w].batch \in Seq(Rows) /\ workers[w].batch # <<>>
  BY DEF IInv, TypeOK, BatchesAreTrue
<1>2. Item(w) = workers[w].batch[1] /\ 1 \in DOMAIN workers[w].batch
  BY <1>1 DEF Item
<1>3. Item(w) \in Rows /\ Trusted(Item(w))
  BY <1>1, <1>2 DEF IInv, BatchesAreTrue
<1>4. Tail(workers[w].batch) \in Seq(Rows)
  BY <1>1
<1>5. \A i \in DOMAIN Tail(workers[w].batch) :
         /\ i + 1 \in DOMAIN workers[w].batch
         /\ Tail(workers[w].batch)[i] = workers[w].batch[i + 1]
  BY <1>1
<1>6. \A i \in DOMAIN Tail(workers[w].batch) : Trusted(Tail(workers[w].batch)[i])
  BY <1>5 DEF IInv, BatchesAreTrue
<1> QED BY <1>3, <1>4, <1>6
-----------------------------------------------------------------------------
(* Each transaction keeps the tables in order, and batches true of them *)

TablesType ==
    /\ retry \subseteq Rows /\ dlq \subseteq Letters /\ seen \subseteq Letters
    /\ ready \in Seq(Nat)
    /\ lastIds \in [retry : Nat, dlq : Nat]
    /\ stored \in Nat /\ settled \subseteq Nat

TablesInOrder == TablesType /\ RowsAreTrue /\ LettersAreTrue /\ DuesAreStored /\ OnePlace

TrustKept == \A item \in Rows : Trusted(item) => TrueItem(item, retry', lastIds'.retry)

(* The move to the dead letters. *)
LEMMA MoveKeepsOrder ==
    ASSUME IInv, NEW STATE id, MoveToDlq(id), stored' = stored, settled' = settled
    PROVE  TablesInOrder' /\ TrustKept
<1>1. PICK r \in retry :
         /\ r.id = id /\ retry' = Without(id) /\ ready' = NotDue(id)
         /\ dlq' = dlq \cup {[id |-> lastIds.dlq + 1, delivery |-> r.delivery]}
         /\ seen' = seen \cup {[id |-> lastIds.dlq + 1, delivery |-> r.delivery]}
         /\ lastIds' = [lastIds EXCEPT !.dlq = lastIds.dlq + 1]
  BY DEF MoveToDlq, FreshId
<1>2. TypeOK /\ r \in Rows /\ lastIds \in [retry : Nat, dlq : Nat]
  BY DEF IInv, TypeOK
<1>3. ready' \in Seq(Nat) /\ DuesAreStored'
  <2>1. retry' = Without(id) /\ ready' = NotDue(id)
    BY <1>1
  <2> QED BY <2>1, RemovalKeepsDues
<1>4. TablesType'
  <2>1. lastIds.dlq + 1 \in Nat /\ r.delivery \in Nat
    BY <1>2 DEF Rows
  <2>2. dlq' \subseteq Letters /\ seen' \subseteq Letters
    BY <1>1, <1>2, <2>1 DEF TypeOK, Letters
  <2>3. retry' \subseteq Rows /\ lastIds' \in [retry : Nat, dlq : Nat]
    BY <1>1, <1>2, <2>1 DEF TypeOK, Without
  <2> QED BY <1>2, <1>3, <2>2, <2>3 DEF TablesType, TypeOK
<1>5. RowsAreTrue' /\ TrustKept
  BY <1>1, <1>2 DEF IInv, RowsAreTrue, Without, TrustKept, TrueItem, Trusted
<1>6. LettersAreTrue'
  BY <1>1, <1>2 DEF IInv, LettersAreTrue, TypeOK, Letters
<1>7. OnePlace'
  <2> DEFINE letter == [id |-> lastIds.dlq + 1, delivery |-> r.delivery]
  <2>1. retry' = Without(id) /\ dlq' = dlq \cup {letter} /\ letter.delivery = r.delivery
    BY <1>1
  <2> HIDE DEF letter
  <2>2. \A s \in retry' : s \in retry /\ s # r /\ s.delivery # r.delivery
    BY <1>1, <2>1 DEF Without, IInv, OnePlace
  <2>3. \A l \in dlq' : l \in dlq \/ l = letter
    BY <2>1
  <2>4. \A l \in dlq : l.delivery # r.delivery
    BY <1>1 DEF IInv, OnePlace
  <2>5. \A d \in 1 .. stored :
           d \in settled \/ (\E s \in retry' : s.delivery = d) \/ (\E l \in dlq' : l.delivery = d)
    <3>1. \A s \in retry : s \in retry' \/ s = r
      BY <1>1, <2>1 DEF Without, IInv, RowsAreTrue
    <3>2. letter \in dlq' /\ dlq \subseteq dlq'
      BY <2>1
    <3> SUFFICES ASSUME NEW d \in 1 .. stored, d \notin settled
                 PROVE  (\E s \in retry' : s.delivery = d) \/ (\E l \in dlq' : l.delivery = d)
      OBVIOUS
    <3>3. (\E s \in retry : s.delivery = d) \/ (\E l \in dlq : l.delivery = d)
      BY DEF IInv, OnePlace
    <3>4. CASE \E l \in dlq : l.delivery = d
      BY <3>2, <3>4
    <3>5. CASE \E s \in retry : s.delivery = d
      BY <2>1, <3>1, <3>2, <3>5
    <3> QED BY <3>3, <3>4, <3>5
  <2> QED BY <1>1, <2>1, <2>2, <2>3, <2>4, <2>5 DEF IInv, OnePlace
<1> QED BY <1>3, <1>4, <1>5, <1>6, <1>7 DEF TablesInOrder

(* A failed attempt, counted or the last one. *)
LEMMA CountKeepsOrder ==
    ASSUME IInv, NEW STATE item, CountAndReschedule(item), stored' = stored, settled' = settled
    PROVE  TablesInOrder' /\ TrustKept
<1>1. PICK r \in retry :
         \/ MoveToDlq(r.id)
         \/ /\ retry' = Without(r.id) \cup {[r EXCEPT !.attempts = r.attempts + 1]}
            /\ ready' = NotDue(r.id)
            /\ dlq' = dlq /\ lastIds' = lastIds /\ seen' = seen
  BY DEF CountAndReschedule, CountFailure
<1>2. CASE MoveToDlq(r.id)
  BY <1>2, MoveKeepsOrder
<1>3. CASE /\ retry' = Without(r.id) \cup {[r EXCEPT !.attempts = r.attempts + 1]}
           /\ ready' = NotDue(r.id)
           /\ dlq' = dlq /\ lastIds' = lastIds /\ seen' = seen
  <2> DEFINE q == [r EXCEPT !.attempts = r.attempts + 1]
  <2>1. TypeOK /\ r \in Rows /\ lastIds \in [retry : Nat, dlq : Nat]
    BY DEF IInv, TypeOK
  <2>2. q \in Rows /\ q.id = r.id /\ q.delivery = r.delivery
    BY <2>1 DEF Rows
  <2> HIDE DEF q
  <2>3. retry' = Without(r.id) \cup {q}
    BY <1>3 DEF q
  <2>4. \A i : IsStored(i) => IsStored(i)'
    BY <2>2, <2>3 DEF IsStored, Without
  <2>5. ready' \in Seq(Nat) /\ DuesAreStored'
    BY <1>3, <2>1, <2>4, NotDueDrops DEF IInv, TypeOK, DuesAreStored
  <2>6. TablesType'
    BY <1>3, <2>1, <2>2, <2>3, <2>5 DEF TablesType, TypeOK, Without
  <2>7. RowsAreTrue' /\ TrustKept
    BY <1>3, <2>1, <2>2, <2>3 DEF IInv, RowsAreTrue, Without, TrustKept, TrueItem, Trusted
  <2>8. LettersAreTrue'
    BY <1>3 DEF IInv, LettersAreTrue
  <2>9. OnePlace'
    BY <1>3, <2>1, <2>2, <2>3 DEF IInv, OnePlace, RowsAreTrue, Without
  <2> QED BY <2>5, <2>6, <2>7, <2>8, <2>9 DEF TablesInOrder
<1> QED BY <1>1, <1>2, <1>3

(* A new row, for a new delivery or for one that was a dead letter. *)
LEMMA InsertKeepsOrder ==
    ASSUME IInv, NEW STATE delivery, delivery \in Nat, InsertRetry(delivery),
           ready' = ready, seen' = seen, dlq' \subseteq dlq,
           stored' \in Nat, settled' = settled
    PROVE  TablesType' /\ RowsAreTrue' /\ LettersAreTrue' /\ DuesAreStored' /\ TrustKept
<1> DEFINE new == [id |-> lastIds.retry + 1, delivery |-> delivery, attempts |-> 0]
<1>1. TypeOK /\ lastIds \in [retry : Nat, dlq : Nat]
  BY DEF IInv, TypeOK
<1>2. new \in Rows /\ new.id = lastIds.retry + 1
  BY <1>1 DEF Rows
<1>3. retry' = retry \cup {new} /\ lastIds' = [lastIds EXCEPT !.retry = lastIds.retry + 1]
  BY DEF InsertRetry, FreshId
<1> HIDE DEF new
<1>4. TablesType'
  BY <1>1, <1>2, <1>3 DEF TablesType, TypeOK
<1>5. RowsAreTrue' /\ TrustKept
  BY <1>1, <1>2, <1>3 DEF IInv, TypeOK, RowsAreTrue, TrustKept, TrueItem, Trusted, Rows
<1>6. LettersAreTrue'
  BY <1>1, <1>3 DEF IInv, LettersAreTrue
<1>7. DuesAreStored'
  BY <1>3 DEF IInv, DuesAreStored, IsStored
<1> QED BY <1>4, <1>5, <1>6, <1>7
-----------------------------------------------------------------------------
(* Steps *)

Settled == workers' \in [Workers -> [step : Steps, batch : Seq(Rows), configured : BOOLEAN]]
           /\ tries' \in [1 .. MaxStored + MaxRequeues -> Nat] /\ faults' \in Nat

(* Tables in order, true batches and the types of the rest are the invariant. *)
LEMMA Assemble ==
    ASSUME TablesInOrder', BatchesAreTrue', Settled
    PROVE  IInv'
BY DEF TablesInOrder, TablesType, Settled, IInv, TypeOK

LEMMA TablesNow == ASSUME IInv PROVE TablesInOrder
BY DEF IInv, TypeOK, TablesInOrder, TablesType

(* When no worker moves, its batch stays true. *)
LEMMA IdleKeepsBatches ==
    ASSUME IInv, workers' = workers, TrustKept
    PROVE  BatchesAreTrue'
<1>1. \A w \in Workers : \A i \in DOMAIN workers[w].batch : workers[w].batch[i] \in Rows
  BY DEF IInv, TypeOK
<1> QED BY <1>1 DEF IInv, BatchesAreTrue, TrustKept, Trusted

(* When the tables stay, so does what the batches say. *)
LEMMA SameTables ==
    ASSUME IInv, UNCHANGED tables, stored' = stored
    PROVE  TablesInOrder' /\ TrustKept
BY TablesNow DEF tables, TablesInOrder, TablesType, RowsAreTrue, LettersAreTrue, DuesAreStored,
   IsStored, OnePlace, TrustKept, Trusted, TrueItem

(* A worker that turns to its next row, or gives up its batch. *)
LEMMA NextItemKeeps ==
    ASSUME IInv, NEW w \in Workers, workers[w].step # "fetch", NextItem(w),
           TablesInOrder', TrustKept, tries' = tries, faults' = faults
    PROVE  IInv'
<1>1. /\ Tail(workers[w].batch) \in Seq(Rows)
      /\ \A i \in DOMAIN Tail(workers[w].batch) :
            TrueItem(Tail(workers[w].batch)[i], retry', lastIds'.retry)
  BY BusyItem DEF TrustKept
<1>2. Settled /\ BatchesAreTrue'
  BY <1>1, TurnToKeepsBatches DEF NextItem, TrustKept, Settled, IInv, TypeOK
<1> QED BY <1>2, Assemble

LEMMA DropBatchKeeps ==
    ASSUME IInv, NEW w \in Workers, DropBatch(w),
           TablesInOrder', TrustKept, tries' = tries, faults' \in Nat
    PROVE  IInv'
<1>1. << >> \in Seq(Rows) /\ \A i \in DOMAIN << >> : TrueItem(<< >>[i], retry', lastIds'.retry)
  OBVIOUS
<1>2. Settled /\ BatchesAreTrue'
  BY <1>1, TurnToKeepsBatches DEF DropBatch, TrustKept, Settled, IInv, TypeOK
<1> QED BY <1>2, Assemble

(* A worker that goes on with the same row. *)
LEMMA StepKeeps ==
    ASSUME IInv, NEW w \in Workers, workers[w].step # "fetch", NEW STATE step, step \in Steps,
           To(w, step), TablesInOrder', TrustKept,
           tries' \in [1 .. MaxStored + MaxRequeues -> Nat], faults' \in Nat
    PROVE  IInv'
<1>1. workers \in [Workers -> [step : Steps, batch : Seq(Rows), configured : BOOLEAN]]
  BY DEF IInv, TypeOK
<1>2. workers' \in [Workers -> [step : Steps, batch : Seq(Rows), configured : BOOLEAN]]
  BY <1>1 DEF To
<1>3. \A v \in Workers : /\ workers'[v].batch = workers[v].batch
                         /\ workers'[v].step # "fetch" => workers[v].step # "fetch"
  BY <1>1 DEF To
<1>4. \A v \in Workers : \A i \in DOMAIN workers[v].batch : workers[v].batch[i] \in Rows
  BY <1>1
<1>5. BatchesAreTrue'
  BY <1>3, <1>4 DEF IInv, BatchesAreTrue, TrustKept, Trusted
<1> QED BY <1>2, <1>5, Assemble DEF Settled
-----------------------------------------------------------------------------
(* One lemma per action that changes more than a worker's step *)

LEMMA StoreWebhookKeeps == ASSUME IInv, StoreWebhook PROVE IInv'
<1>1. /\ InsertRetry(stored + 1) /\ stored' = stored + 1 /\ stored \in Nat
      /\ dlq' = dlq /\ ready' = ready /\ seen' = seen /\ settled' = settled
      /\ workers' = workers /\ tries' = tries /\ faults' = faults
  BY DEF StoreWebhook, IInv, TypeOK
<1>2. TablesType' /\ RowsAreTrue' /\ LettersAreTrue' /\ DuesAreStored' /\ TrustKept
  BY <1>1, InsertKeepsOrder
<1>3. OnePlace'
  <2> DEFINE new == [id |-> lastIds.retry + 1, delivery |-> stored + 1, attempts |-> 0]
  <2>1. retry' = retry \cup {new} /\ new.delivery = stored + 1
    BY <1>1 DEF InsertRetry, FreshId
  <2> HIDE DEF new
  <2>2. 1 .. stored' = 1 .. stored \cup {stored + 1} /\ stored + 1 \notin 1 .. stored
    BY <1>1
  <2> QED BY <1>1, <2>1, <2>2 DEF IInv, OnePlace
<1>4. BatchesAreTrue' /\ Settled
  BY <1>1, <1>2, IdleKeepsBatches DEF Settled, IInv, TypeOK
<1> QED BY <1>2, <1>3, <1>4, Assemble DEF TablesInOrder

LEMMA BecomesDueKeeps == ASSUME IInv, BecomesDue PROVE IInv'
<1>1. PICK r \in retry : ~IsDue(r.id) /\ ready' = Append(ready, r.id)
  BY DEF BecomesDue
<1>2. /\ retry' = retry /\ dlq' = dlq /\ lastIds' = lastIds /\ seen' = seen
      /\ stored' = stored /\ settled' = settled
      /\ workers' = workers /\ tries' = tries /\ faults' = faults
  BY DEF BecomesDue
<1>3. r.id \in Nat /\ ready \in Seq(Nat)
  BY DEF IInv, TypeOK, Rows
<1>4. /\ ready' \in Seq(Nat) /\ Len(ready') = Len(ready) + 1
      /\ \A i \in 1 .. Len(ready) : ready'[i] = ready[i]
      /\ ready'[Len(ready) + 1] = r.id
  BY <1>1, <1>3
<1>5. DuesAreStored'
  <2>1. DOMAIN ready = 1 .. Len(ready) /\ DOMAIN ready' = 1 .. Len(ready) + 1 /\ Len(ready) \in Nat
    BY <1>3, <1>4
  <2>2. \A i \in 1 .. Len(ready) : ready[i] # r.id
    BY <1>1, <2>1 DEF IsDue
  <2>3. \A i, j \in 1 .. Len(ready) : ready[i] = ready[j] => i = j
    BY <2>1 DEF IInv, DuesAreStored
  <2>4. \A i \in DOMAIN ready' : i \in 1 .. Len(ready) \/ i = Len(ready) + 1
    BY <2>1
  <2>5. \A i, j \in DOMAIN ready' : ready'[i] = ready'[j] => i = j
    BY <1>4, <2>2, <2>3, <2>4
  <2>6. \A i \in DOMAIN ready' : \E s \in retry : s.id = ready'[i]
    BY <1>4, <2>1, <2>4 DEF IInv, DuesAreStored, IsStored
  <2> QED BY <1>2, <2>5, <2>6 DEF DuesAreStored, IsStored
<1>6. TrustKept /\ TablesInOrder'
  BY <1>2, <1>4, <1>5, TablesNow DEF TrustKept, Trusted, TablesInOrder, TablesType,
     RowsAreTrue, LettersAreTrue, OnePlace
<1>7. BatchesAreTrue' /\ Settled
  BY <1>2, <1>6, IdleKeepsBatches DEF Settled, IInv, TypeOK
<1> QED BY <1>6, <1>7, Assemble

LEMMA OperatorRetriesKeeps == ASSUME IInv, OperatorRetries PROVE IInv'
<1>1. PICK found \in dlq : dlq' = dlq \ {found} /\ InsertRetry(found.delivery)
  BY DEF OperatorRetries
<1>2. /\ ready' = ready /\ seen' = seen /\ stored' = stored /\ settled' = settled
      /\ workers' = workers /\ tries' = tries /\ faults' = faults
      /\ stored \in Nat /\ found.delivery \in Nat
  BY DEF OperatorRetries, IInv, TypeOK, Letters
<1>3. TablesType' /\ RowsAreTrue' /\ LettersAreTrue' /\ DuesAreStored' /\ TrustKept
  BY <1>1, <1>2, InsertKeepsOrder
<1>4. OnePlace'
  <2> DEFINE new == [id |-> lastIds.retry + 1, delivery |-> found.delivery, attempts |-> 0]
  <2>1. retry' = retry \cup {new} /\ new.delivery = found.delivery
    BY <1>1 DEF InsertRetry, FreshId
  <2> HIDE DEF new
  <2> QED BY <1>1, <1>2, <2>1 DEF IInv, OnePlace
<1>5. BatchesAreTrue' /\ Settled
  BY <1>2, <1>3, IdleKeepsBatches DEF Settled, IInv, TypeOK
<1> QED BY <1>3, <1>4, <1>5, Assemble DEF TablesInOrder

LEMMA OperatorDeletesKeeps == ASSUME IInv, OperatorDeletes PROVE IInv'
<1>1. PICK letter \in seen, found \in dlq :
         /\ found.id = letter.id
         /\ dlq' = dlq \ {found} /\ settled' = settled \cup {letter.delivery}
  BY DEF OperatorDeletes
<1>2. letter = found /\ found.delivery \in Nat
  BY <1>1 DEF IInv, LettersAreTrue, TypeOK, Letters
<1>3. /\ retry' = retry /\ ready' = ready /\ lastIds' = lastIds /\ seen' = seen
      /\ stored' = stored /\ workers' = workers /\ tries' = tries /\ faults' = faults
  BY DEF OperatorDeletes
<1>4. TablesType' /\ RowsAreTrue' /\ LettersAreTrue' /\ DuesAreStored' /\ TrustKept
  BY <1>1, <1>2, <1>3 DEF IInv, TypeOK, TablesType, RowsAreTrue, LettersAreTrue, DuesAreStored,
     IsStored, TrustKept, Trusted
<1>5. OnePlace'
  BY <1>1, <1>2, <1>3 DEF IInv, OnePlace
<1>6. BatchesAreTrue' /\ Settled
  BY <1>3, <1>4, IdleKeepsBatches DEF Settled, IInv, TypeOK
<1> QED BY <1>4, <1>5, <1>6, Assemble DEF TablesInOrder

LEMMA FetchKeeps == ASSUME IInv, NEW w \in Workers, Fetch(w) PROVE IInv'
<1> DEFINE n     == IF Len(ready) < BatchLimit THEN Len(ready) ELSE BatchLimit
           first == SubSeq(ready, 1, n)
           batch == [i \in DOMAIN first |-> RowOf(first[i])]
<1>1. TurnTo(w, batch) /\ UNCHANGED <<tables, stored, tries, faults>>
  BY DEF Fetch
<1>2. ready \in Seq(Nat) /\ n \in 0 .. Len(ready)
  BY RetryConstants DEF IInv, TypeOK
<1> HIDE DEF n
<1>3. first \in Seq(Nat) /\ DOMAIN first = 1 .. n /\ \A i \in 1 .. n : first[i] = ready[i]
  BY <1>2
<1>4. \A i \in 1 .. n : IsStored(first[i])
  BY <1>2, <1>3 DEF IInv, DuesAreStored
<1>5. \A i \in 1 .. n : batch[i] \in retry /\ batch[i].id = first[i]
  BY <1>3, <1>4 DEF IsStored, RowOf
<1>6. batch \in Seq(Rows) /\ DOMAIN batch = 1 .. n
  <2>1. retry \subseteq Rows
    BY DEF IInv, TypeOK
  <2>2. batch \in [1 .. n -> Rows]
    BY <1>3, <1>5, <2>1
  <2> QED BY <1>2, <2>2
<1> HIDE DEF batch
<1>7. TablesInOrder' /\ TrustKept /\ retry' = retry /\ lastIds' = lastIds
  BY <1>1, SameTables DEF tables
<1>8. \A i \in DOMAIN batch : TrueItem(batch[i], retry', lastIds'.retry)
  BY <1>5, <1>6, <1>7 DEF IInv, RowsAreTrue, TrueItem
<1>9. Settled /\ BatchesAreTrue'
  BY <1>1, <1>6, <1>7, <1>8, TurnToKeepsBatches DEF TrustKept, Settled, IInv, TypeOK
<1> QED BY <1>7, <1>9, Assemble

LEMMA HandleKeeps == ASSUME IInv, NEW w \in Workers, Handle(w) PROVE IInv'
<1>1. PICK step \in {"handled", "failed", "rejected"} : To(w, step)
  BY DEF Handle
<1>2. /\ workers[w].step # "fetch" /\ step \in Steps
      /\ UNCHANGED <<tables, stored, faults>>
      /\ tries' = [tries EXCEPT ![Item(w).id] = @ + 1]
  BY DEF Handle, At, Steps
<1>3. tries' \in [1 .. MaxStored + MaxRequeues -> Nat] /\ faults' \in Nat
  <2> DEFINE D == 1 .. MaxStored + MaxRequeues
  <2>1. tries \in [D -> Nat] /\ faults \in Nat
    BY DEF IInv, TypeOK
  <2> HIDE DEF D
  <2>2. tries' = [i \in D |-> IF i = Item(w).id THEN tries[i] + 1 ELSE tries[i]]
    BY <1>2, <2>1
  <2>3. tries' \in [D -> Nat]
    BY <2>1, <2>2
  <2> QED BY <1>2, <2>1, <2>3 DEF D
<1> QED BY <1>1, <1>2, <1>3, SameTables, StepKeeps

LEMMA MarkSuccessKeeps == ASSUME IInv, NEW w \in Workers, MarkSuccess(w) PROVE IInv'
<1> DEFINE item == Item(w)
<1>1. /\ workers[w].step # "fetch" /\ NextItem(w)
      /\ retry' = Without(item.id) /\ ready' = NotDue(item.id)
      /\ settled' = IF IsStored(item.id) THEN settled \cup {item.delivery} ELSE settled
      /\ dlq' = dlq /\ lastIds' = lastIds /\ seen' = seen /\ stored' = stored
      /\ tries' = tries /\ faults' = faults
  BY DEF MarkSuccess, At
<1>2. item \in Rows /\ Trusted(item)
  BY <1>1, BusyItem
<1> HIDE DEF item
<1>3. ready' \in Seq(Nat) /\ DuesAreStored'
  <2>1. retry' = Without(item.id) /\ ready' = NotDue(item.id)
    BY <1>1
  <2> QED BY <2>1, RemovalKeepsDues
<1>4. TablesType'
  BY <1>1, <1>2, <1>3 DEF IInv, TypeOK, TablesType, Without, Rows
<1>5. RowsAreTrue' /\ TrustKept
  BY <1>1 DEF IInv, RowsAreTrue, Without, TrustKept, TrueItem, Trusted
<1>6. LettersAreTrue'
  BY <1>1 DEF IInv, LettersAreTrue
<1>7. OnePlace'
  <2>1. CASE ~IsStored(item.id)
    BY <1>1, <2>1 DEF IInv, OnePlace, IsStored, Without
  <2>2. CASE IsStored(item.id)
    <3>1. PICK r \in retry : r.id = item.id
      BY <2>2 DEF IsStored
    <3>2. r.delivery = item.delivery /\ settled' = settled \cup {r.delivery}
      BY <1>1, <1>2, <2>2, <3>1 DEF Trusted, TrueItem
    <3>3. \A s \in retry : s # r <=> s \in retry'
      BY <1>1, <3>1 DEF IInv, RowsAreTrue, Without
    <3>4. retry' \subseteq retry
      BY <1>1 DEF Without
    <3> QED BY <1>1, <3>1, <3>2, <3>3, <3>4 DEF IInv, OnePlace
  <2> QED BY <2>1, <2>2
<1> QED BY <1>1, <1>3, <1>4, <1>5, <1>6, <1>7, NextItemKeeps DEF TablesInOrder

LEMMA MarkKeeps ==
    ASSUME IInv, NEW w \in Workers, MarkRejected(w) \/ MarkFailed(w)
    PROVE  IInv'
<1>1. /\ workers[w].step # "fetch"
      /\ NextItem(w) \/ DropBatch(w)
      /\ stored' = stored /\ settled' = settled /\ tries' = tries /\ faults' = faults
      /\ CountAndReschedule(Item(w)) \/ UNCHANGED <<retry, dlq, ready, lastIds, seen>>
  BY DEF MarkRejected, MarkFailed, At
<1>2. TablesInOrder' /\ TrustKept
  <2>1. CASE CountAndReschedule(Item(w))
    BY <1>1, <2>1, CountKeepsOrder
  <2>2. CASE UNCHANGED <<retry, dlq, ready, lastIds, seen>>
    BY <1>1, <2>2, SameTables DEF tables
  <2> QED BY <1>1, <2>1, <2>2
<1> QED BY <1>1, <1>2, NextItemKeeps, DropBatchKeeps DEF IInv, TypeOK

LEMMA MoveFoundKeeps == ASSUME IInv, NEW w \in Workers, MoveFound(w) PROVE IInv'
<1>1. /\ workers[w].step # "fetch" /\ NextItem(w)
      /\ stored' = stored /\ settled' = settled /\ tries' = tries /\ faults' = faults
      /\ MoveToDlq(Item(w).id) \/ UNCHANGED <<retry, dlq, ready, lastIds, seen>>
  BY DEF MoveFound, At
<1>2. TablesInOrder' /\ TrustKept
  <2>1. CASE MoveToDlq(Item(w).id)
    BY <1>1, <2>1, MoveKeepsOrder
  <2>2. CASE UNCHANGED <<retry, dlq, ready, lastIds, seen>>
    BY <1>1, <2>2, SameTables DEF tables
  <2> QED BY <1>1, <2>1, <2>2
<1> QED BY <1>1, <1>2, NextItemKeeps

LEMMA FindRowKeeps == ASSUME IInv, NEW w \in Workers, FindRow(w) PROVE IInv'
<1>1. /\ workers[w].step # "fetch"
      /\ To(w, "move") \/ NextItem(w)
      /\ UNCHANGED <<tables, stored, tries, faults>>
  BY DEF FindRow, At
<1>2. TablesInOrder' /\ TrustKept
  BY <1>1, SameTables
<1>3. tries' \in [1 .. MaxStored + MaxRequeues -> Nat] /\ faults' \in Nat
  BY <1>1 DEF IInv, TypeOK
<1>4. CASE To(w, "move")
  <2>1. "move" \in Steps
    BY DEF Steps
  <2> QED BY <1>1, <1>2, <1>3, <1>4, <2>1, StepKeeps
<1>5. CASE NextItem(w)
  BY <1>1, <1>2, <1>5, NextItemKeeps
<1> QED BY <1>1, <1>4, <1>5

LEMMA TransactionFailsKeeps == ASSUME IInv, NEW w \in Workers, TransactionFails(w) PROVE IInv'
<1>1. /\ workers[w].step # "fetch"
      /\ To(w, "failed") \/ DropBatch(w)
      /\ UNCHANGED <<tables, stored, tries>> /\ faults' = faults + 1
  BY DEF TransactionFails, At
<1>2. TablesInOrder' /\ TrustKept
  BY <1>1, SameTables
<1>3. tries' \in [1 .. MaxStored + MaxRequeues -> Nat] /\ tries' = tries /\ faults' \in Nat
  BY <1>1 DEF IInv, TypeOK
<1>4. CASE To(w, "failed")
  <2>1. "failed" \in Steps
    BY DEF Steps
  <2> QED BY <1>1, <1>2, <1>3, <1>4, <2>1, StepKeeps
<1>5. CASE DropBatch(w)
  BY <1>2, <1>3, <1>5, DropBatchKeeps
<1> QED BY <1>1, <1>4, <1>5

LEMMA RestartKeeps == ASSUME IInv, NEW w \in Workers, Restart(w) PROVE IInv'
<1>1. PICK configured \in BOOLEAN : workers' = [workers EXCEPT ![w] = Starting(configured)]
  BY DEF Restart
<1>2. UNCHANGED <<tables, stored, tries>> /\ faults' = faults + 1
  BY DEF Restart
<1>3. TablesInOrder' /\ TrustKept
  BY <1>2, SameTables
<1>4. workers \in [Workers -> [step : Steps, batch : Seq(Rows), configured : BOOLEAN]]
  BY DEF IInv, TypeOK
<1>5. Settled
  BY <1>1, <1>2, <1>4 DEF Settled, Starting, Steps, IInv, TypeOK
<1>6. \A v \in Workers : \/ workers'[v] = workers[v]
                         \/ workers'[v].step = "fetch" /\ workers'[v].batch = << >>
  BY <1>1, <1>4 DEF Starting
<1>7. \A v \in Workers : \A i \in DOMAIN workers[v].batch : workers[v].batch[i] \in Rows
  BY <1>4
<1>8. BatchesAreTrue'
  BY <1>3, <1>6, <1>7 DEF IInv, BatchesAreTrue, TrustKept, Trusted
<1> QED BY <1>3, <1>5, <1>8, Assemble
-----------------------------------------------------------------------------
(* The invariant, and what follows from it *)

LEMMA InitEstablishes == ASSUME Init PROVE IInv
<1>1. << >> \in Seq(Nat) /\ << >> \in Seq(Rows)
  OBVIOUS
<1>2. TypeOK
  BY <1>1 DEF Init, TypeOK, Starting, Steps
<1>3. DuesAreStored /\ BatchesAreTrue
  BY DEF Init, DuesAreStored, BatchesAreTrue, Starting
<1> QED BY <1>2, <1>3 DEF Init, IInv, RowsAreTrue, LettersAreTrue, OnePlace

LEMMA StutteringKeeps == ASSUME IInv, UNCHANGED vars PROVE IInv'
<1>1. UNCHANGED tables /\ stored' = stored /\ workers' = workers /\ tries' = tries /\ faults' = faults
  BY DEF vars, tables
<1>2. TablesInOrder' /\ TrustKept
  BY <1>1, SameTables
<1>3. BatchesAreTrue' /\ Settled
  BY <1>1, <1>2, IdleKeepsBatches DEF Settled, IInv, TypeOK
<1> QED BY <1>2, <1>3, Assemble

LEMMA NextKeeps == ASSUME IInv, Next PROVE IInv'
<1>1. CASE Surroundings
  BY <1>1, StoreWebhookKeeps, BecomesDueKeeps, OperatorRetriesKeeps, OperatorDeletesKeeps
     DEF Surroundings
<1>2. ASSUME NEW w \in Workers, Work(w) PROVE IInv'
  BY <1>2, FetchKeeps, HandleKeeps, MarkSuccessKeeps, MarkKeeps, FindRowKeeps, MoveFoundKeeps DEF Work
<1> QED BY <1>1, <1>2, TransactionFailsKeeps, RestartKeeps DEF Next

(* The state of the retry queue is well typed, and the invariant holds. *)
THEOREM RetryTypeCorrect == Spec => []TypeOK
<1>1. Init => IInv
  BY InitEstablishes
<1>2. IInv /\ [Next]_vars => IInv'
  BY NextKeeps, StutteringKeeps
<1>3. IInv => TypeOK
  BY DEF IInv
<1> QED BY <1>1, <1>2, <1>3, PTL DEF Spec

LEMMA PlaceIsUnique ==
    ASSUME IInv, NEW d \in 1 .. stored
    PROVE  \E p \in Places(d) : Places(d) = {p}
<1>1. d \in settled \/ (\E r \in retry : r.delivery = d) \/ (\E l \in dlq : l.delivery = d)
  BY DEF IInv, OnePlace
<1>2. CASE d \in settled
  <2>1. Places(d) = {<<"settled", d>>}
    BY <1>2 DEF Places, IInv, OnePlace
  <2> QED BY <2>1
<1>3. CASE \E r \in retry : r.delivery = d
  <2>1. PICK r \in retry : r.delivery = d
    BY <1>3
  <2>2. Places(d) = {<<"retry", r.id>>}
    BY <2>1 DEF Places, IInv, OnePlace
  <2> QED BY <2>2
<1>4. CASE \E l \in dlq : l.delivery = d
  <2>1. PICK l \in dlq : l.delivery = d
    BY <1>4
  <2>2. Places(d) = {<<"dlq", l.id>>}
    BY <2>1 DEF Places, IInv, OnePlace
  <2> QED BY <2>2
<1> QED BY <1>1, <1>2, <1>3, <1>4

(* retry_manager: at every moment a stored webhook is one row of the retry   *)
(* queue, one dead letter, or settled.                                       *)
THEOREM DeliveriesAreInOnePlace == Spec => []EachDeliveryIsInOnePlace
<1>1. Init => IInv
  BY InitEstablishes
<1>2. IInv /\ [Next]_vars => IInv'
  BY NextKeeps, StutteringKeeps
<1>3. IInv => EachDeliveryIsInOnePlace
  BY PlaceIsUnique DEF EachDeliveryIsInOnePlace
<1> QED BY <1>1, <1>2, <1>3, PTL DEF Spec
-----------------------------------------------------------------------------
(***************************************************************************)
(* A stored webhook is tried a bounded number of times, for any number of  *)
(* workers, attempts, deliveries and faults.                               *)
(*                                                                         *)
(* While a row is stored, its tries are the attempts it counts and those   *)
(* that some worker has made and not yet recorded (Tried).  When it leaves *)
(* the table nothing is counted any more: from then on only the workers    *)
(* that still hold a copy can try it, each of them once (Holding).  No     *)
(* worker is one of both, so that at the moment the row leaves, what is    *)
(* unrecorded and what may still come are together at most one try for     *)
(* each worker.  A fault may erase a try that was not recorded yet.        *)
(***************************************************************************)
Ids == 1 .. MaxStored + MaxRequeues

(* w has tried the row x and is about to record how it went. *)
IsTrying(w, x) == workers[w].step \in {"handled", "rejected", "failed"} /\ Item(w).id = x

(* w has a copy of the row x that it has not tried yet. *)
Holds(w, x) ==
    \E i \in DOMAIN workers[w].batch :
       workers[w].batch[i].id = x /\ (i = 1 => workers[w].step = "handle")

Tried(x)   == {w \in Workers : IsTrying(w, x)}
Holding(x) == {w \in Workers : Holds(w, x)}

BatchesNameOnce ==
    \A w \in Workers : \A i, j \in DOMAIN workers[w].batch :
       workers[w].batch[i].id = workers[w].batch[j].id => i = j

Bounded(x) ==
    /\ \A r \in retry : r.id = x =>
          /\ r.attempts < MaxAttempts
          /\ tries[x] =< r.attempts + Cardinality(Tried(x)) + faults
    /\ ~IsStored(x) /\ x =< lastIds.retry =>
          tries[x] + Cardinality(Holding(x)) =< MaxAttempts + Cardinality(Workers) - 1 + faults
    /\ x > lastIds.retry => tries[x] = 0

TriesInv == BatchesNameOnce /\ \A x \in Ids : Bounded(x)
-----------------------------------------------------------------------------
(* Sets of workers *)

LEMMA WorkersAreFinite ==
    ASSUME NEW S, S \subseteq Workers
    PROVE  IsFiniteSet(S) /\ Cardinality(S) \in Nat /\ Cardinality(Workers) \in Nat
BY RetryConstants, FS_Subset, FS_CardinalityType

LEMMA NoFewer ==
    ASSUME NEW S, NEW T, S \subseteq T, T \subseteq Workers
    PROVE  Cardinality(S) =< Cardinality(T)
BY WorkersAreFinite, FS_Subset

LEMMA OneFewer ==
    ASSUME NEW S, NEW T, NEW w, S \subseteq Workers, T \subseteq Workers, S \ {w} \subseteq T
    PROVE  Cardinality(S) =< Cardinality(T) + 1
<1>1. /\ IsFiniteSet(S) /\ Cardinality(S) \in Nat /\ Cardinality(T) \in Nat
      /\ Cardinality(S \ {w}) \in Nat
  BY WorkersAreFinite
<1>2. Cardinality(S \ {w}) = IF w \in S THEN Cardinality(S) - 1 ELSE Cardinality(S)
  BY <1>1, FS_RemoveElement
<1>3. Cardinality(S \ {w}) =< Cardinality(T)
  BY NoFewer
<1> QED BY <1>1, <1>2, <1>3

LEMMA OneMore ==
    ASSUME NEW S, NEW T, NEW w \in T, S \subseteq T, T \subseteq Workers, w \notin S
    PROVE  Cardinality(S) + 1 =< Cardinality(T)
<1>1. IsFiniteSet(S) /\ Cardinality(S) \in Nat
  BY WorkersAreFinite
<1>2. Cardinality(S \cup {w}) = Cardinality(S) + 1
  BY <1>1, FS_AddElement
<1>3. Cardinality(S \cup {w}) =< Cardinality(T)
  BY NoFewer
<1> QED BY <1>2, <1>3

LEMMA Apart ==
    ASSUME NEW S, NEW T, S \subseteq Workers, T \subseteq Workers, S \cap T = {}
    PROVE  Cardinality(S) + Cardinality(T) =< Cardinality(Workers)
<1>1. IsFiniteSet(S) /\ IsFiniteSet(T) /\ Cardinality(S) \in Nat /\ Cardinality(T) \in Nat
  BY WorkersAreFinite
<1>2. Cardinality(S \cup T) = Cardinality(S) + Cardinality(T) - Cardinality(S \cap T)
  BY <1>1, FS_Union
<1>3. Cardinality(S \cap T) = 0
  BY FS_EmptySet
<1>4. Cardinality(S \cup T) =< Cardinality(Workers)
  BY NoFewer
<1> QED BY <1>1, <1>2, <1>3, <1>4
-----------------------------------------------------------------------------
(* What each kind of step does to the bound of one row *)

LEMMA Numbers ==
    ASSUME IInv, NEW x \in Ids
    PROVE  /\ tries[x] \in Nat /\ faults \in Nat /\ lastIds.retry \in Nat /\ x \in Nat
           /\ MaxAttempts \in Nat \ {0}
           /\ Cardinality(Tried(x)) \in Nat /\ Cardinality(Holding(x)) \in Nat
           /\ Cardinality(Workers) \in Nat
           /\ \A r \in retry : r.attempts \in Nat
<1>1. Tried(x) \subseteq Workers /\ Holding(x) \subseteq Workers
  BY DEF Tried, Holding
<1>2. tries[x] \in Nat /\ faults \in Nat /\ lastIds.retry \in Nat /\ x \in Nat
  BY RetryConstants DEF IInv, TypeOK, Ids
<1>3. \A r \in retry : r.attempts \in Nat
  BY DEF IInv, TypeOK, Rows
<1> QED BY <1>1, <1>2, <1>3, WorkersAreFinite, RetryConstants

LEMMA NumbersAfter ==
    ASSUME IInv', NEW x \in Ids
    PROVE  /\ tries'[x] \in Nat /\ faults' \in Nat /\ lastIds'.retry \in Nat
           /\ Cardinality(Tried(x)') \in Nat /\ Cardinality(Holding(x)') \in Nat
           /\ \A r \in retry' : r.attempts \in Nat
<1>1. Tried(x)' \subseteq Workers /\ Holding(x)' \subseteq Workers
  BY DEF Tried, Holding
<1>2. tries'[x] \in Nat /\ faults' \in Nat /\ lastIds'.retry \in Nat
  BY RetryConstants DEF IInv, TypeOK, Ids
<1>3. \A r \in retry' : r.attempts \in Nat
  BY DEF IInv, TypeOK, Rows
<1> QED BY <1>1, <1>2, <1>3, WorkersAreFinite

(* A worker that has tried a row does not hold it untried as well. *)
LEMMA TriedIsNotHeld ==
    ASSUME IInv, BatchesNameOnce, NEW x \in Ids
    PROVE  Tried(x) \cap Holding(x) = {}
<1>1. ASSUME NEW w \in Workers, IsTrying(w, x), Holds(w, x)
      PROVE  FALSE
  <2>1. workers[w].step \in {"handled", "rejected", "failed"} /\ Item(w).id = x
    BY <1>1 DEF IsTrying
  <2>2. workers[w].batch \in Seq(Rows) /\ workers[w].batch # <<>>
    BY <2>1 DEF IInv, TypeOK, BatchesAreTrue
  <2>3. Item(w) = workers[w].batch[1] /\ 1 \in DOMAIN workers[w].batch
    BY <2>2 DEF Item
  <2>4. PICK i \in DOMAIN workers[w].batch :
           workers[w].batch[i].id = x /\ (i = 1 => workers[w].step = "handle")
    BY <1>1 DEF Holds
  <2>5. i = 1
    BY <2>1, <2>3, <2>4 DEF BatchesNameOnce
  <2> QED BY <2>1, <2>4, <2>5
<1> QED BY <1>1 DEF Tried, Holding

(* A row that stays as it is, or is not in the table any more. *)
LEMMA RowUntouched ==
    ASSUME IInv, IInv', NEW x \in Ids, Bounded(x),
           \A r \in retry' : r.id = x => r \in retry,
           lastIds.retry =< lastIds'.retry,
           ~IsStored(x)' /\ x =< lastIds'.retry =>
              ~IsStored(x) /\ x =< lastIds.retry /\ Holding(x)' \subseteq Holding(x),
           tries'[x] = tries[x],
           \/ faults' = faults /\ Tried(x) \subseteq Tried(x)'
           \/ faults' = faults + 1 /\ \E w \in Workers : Tried(x) \ {w} \subseteq Tried(x)'
    PROVE  Bounded(x)'
<1>1. Tried(x) \subseteq Workers /\ Tried(x)' \subseteq Workers /\ Holding(x) \subseteq Workers
  BY DEF Tried, Holding
<1>2. Cardinality(Tried(x)) + faults =< Cardinality(Tried(x)') + faults' /\ faults =< faults'
  <2>1. CASE faults' = faults /\ Tried(x) \subseteq Tried(x)'
    BY <1>1, <2>1, NoFewer, Numbers, NumbersAfter
  <2>2. CASE faults' = faults + 1 /\ \E w \in Workers : Tried(x) \ {w} \subseteq Tried(x)'
    <3>1. PICK w \in Workers : Tried(x) \ {w} \subseteq Tried(x)'
      BY <2>2
    <3>2. Cardinality(Tried(x)) =< Cardinality(Tried(x)') + 1
      BY <1>1, <3>1, OneFewer
    <3> QED BY <2>2, <3>2, Numbers, NumbersAfter
  <2> QED BY <2>1, <2>2
<1>3. ASSUME NEW r \in retry', r.id = x
      PROVE  r.attempts < MaxAttempts /\ tries'[x] =< r.attempts + Cardinality(Tried(x)') + faults'
  BY <1>2, <1>3, Numbers, NumbersAfter DEF Bounded
<1>4. ASSUME ~IsStored(x)', x =< lastIds'.retry
      PROVE  tries'[x] + Cardinality(Holding(x)') =< MaxAttempts + Cardinality(Workers) - 1 + faults'
  <2>1. Cardinality(Holding(x)') =< Cardinality(Holding(x))
    BY <1>1, <1>4, NoFewer
  <2> QED BY <1>2, <1>4, <2>1, Numbers, NumbersAfter DEF Bounded
<1>5. x > lastIds'.retry => tries'[x] = 0
  BY Numbers, NumbersAfter DEF Bounded
<1> QED BY <1>3, <1>4, <1>5 DEF Bounded

(* A row that leaves the table. *)
LEMMA RowLeaves ==
    ASSUME IInv, IInv', BatchesNameOnce, NEW x \in Ids, Bounded(x), IsStored(x), ~IsStored(x)',
           lastIds'.retry = lastIds.retry, tries'[x] = tries[x], faults' = faults,
           Holding(x)' \subseteq Holding(x)
    PROVE  Bounded(x)'
<1>1. Tried(x) \subseteq Workers /\ Holding(x) \subseteq Workers
  BY DEF Tried, Holding
<1>2. Cardinality(Tried(x)) + Cardinality(Holding(x)) =< Cardinality(Workers)
  BY <1>1, TriedIsNotHeld, Apart
<1>3. Cardinality(Holding(x)') =< Cardinality(Holding(x))
  BY <1>1, NoFewer
<1>4. PICK r \in retry : r.id = x
  BY DEF IsStored
<1>5. r.attempts < MaxAttempts /\ tries[x] =< r.attempts + Cardinality(Tried(x)) + faults
  BY <1>4 DEF Bounded
<1>6. tries'[x] + Cardinality(Holding(x)') =< MaxAttempts + Cardinality(Workers) - 1 + faults'
  BY <1>2, <1>3, <1>4, <1>5, Numbers, NumbersAfter
<1>7. x =< lastIds'.retry
  BY <1>4 DEF IInv, RowsAreTrue
<1> QED BY <1>6, <1>7, Numbers, NumbersAfter DEF Bounded, IsStored

(* A row that is gone, whatever its copies stand for. *)
LEMMA RowGone ==
    ASSUME IInv, IInv', NEW x \in Ids, Bounded(x), ~IsStored(x), ~IsStored(x)',
           lastIds'.retry = lastIds.retry, tries'[x] = tries[x], faults' = faults,
           Holding(x)' \subseteq Holding(x)
    PROVE  Bounded(x)'
<1>1. Holding(x) \subseteq Workers
  BY DEF Holding
<1>2. Cardinality(Holding(x)') =< Cardinality(Holding(x))
  BY <1>1, NoFewer
<1> QED BY <1>2, Numbers, NumbersAfter DEF Bounded, IsStored

(* A row whose failed try is counted, and which stays. *)
LEMMA RowCounts ==
    ASSUME IInv, IInv', NEW x \in Ids, Bounded(x), NEW w \in Workers,
           NEW r \in retry, r.id = x, r.attempts + 1 < MaxAttempts,
           \A s \in retry' : s.id = x => s.attempts = r.attempts + 1,
           IsStored(x)', lastIds'.retry = lastIds.retry,
           tries'[x] = tries[x], faults' = faults,
           Tried(x) \ {w} \subseteq Tried(x)'
    PROVE  Bounded(x)'
<1>1. Tried(x) \subseteq Workers /\ Tried(x)' \subseteq Workers
  BY DEF Tried
<1>2. Cardinality(Tried(x)) =< Cardinality(Tried(x)') + 1
  BY <1>1, OneFewer
<1>3. ASSUME NEW s \in retry', s.id = x
      PROVE  s.attempts < MaxAttempts /\ tries'[x] =< s.attempts + Cardinality(Tried(x)') + faults'
  BY <1>2, <1>3, Numbers, NumbersAfter DEF Bounded
<1>4. x =< lastIds'.retry
  BY DEF IInv, RowsAreTrue
<1> QED BY <1>3, <1>4, Numbers, NumbersAfter DEF Bounded

(* A row that a worker tries. *)
LEMMA RowTried ==
    ASSUME IInv, IInv', NEW x \in Ids, Bounded(x), NEW w \in Workers,
           retry' = retry, lastIds' = lastIds, x =< lastIds.retry,
           tries'[x] = tries[x] + 1, faults' = faults,
           w \in Tried(x)', w \notin Tried(x), Tried(x) \subseteq Tried(x)',
           w \in Holding(x), Holding(x)' \subseteq Holding(x) \ {w}
    PROVE  Bounded(x)'
<1>1. Tried(x)' \subseteq Workers /\ Holding(x) \subseteq Workers
  BY DEF Tried, Holding
<1>2. Cardinality(Tried(x)) + 1 =< Cardinality(Tried(x)')
  BY <1>1, OneMore
<1>3. Cardinality(Holding(x)') + 1 =< Cardinality(Holding(x))
  BY <1>1, OneMore
<1> QED BY <1>2, <1>3, Numbers, NumbersAfter DEF Bounded, IsStored
-----------------------------------------------------------------------------
(* What a worker's move does to the sets *)

OthersStay(w) == \A v \in Workers : v # w => workers'[v] = workers[v]

(* Whoever else tried a row still has, and nobody comes to hold one. *)
LetsGo(w) == \A x : Tried(x) \ {w} \subseteq Tried(x)' /\ Holding(x)' \subseteq Holding(x)

LEMMA OthersKeep ==
    ASSUME NEW w \in Workers, OthersStay(w), NEW v \in Workers, v # w
    PROVE  /\ \A x : IsTrying(v, x) => IsTrying(v, x)'
           /\ \A x : Holds(v, x)' => Holds(v, x)
BY DEF OthersStay, IsTrying, Holds, Item

LEMMA MovesOn ==
    ASSUME IInv, BatchesNameOnce, NEW w \in Workers, workers[w].step # "fetch",
           NextItem(w) \/ DropBatch(w)
    PROVE  BatchesNameOnce' /\ LetsGo(w)
<1>1. PICK batch \in {Tail(workers[w].batch), <<>>} : TurnTo(w, batch)
  BY DEF NextItem, DropBatch
<1>2. workers \in [Workers -> [step : Steps, batch : Seq(Rows), configured : BOOLEAN]]
  BY DEF IInv, TypeOK
<1>3. workers'[w].batch = batch /\ OthersStay(w)
  BY <1>1, <1>2 DEF TurnTo, OthersStay
<1>4. workers[w].batch \in Seq(Rows) /\ workers[w].batch # <<>>
  BY <1>2 DEF IInv, BatchesAreTrue
<1>5. \A i \in DOMAIN batch : /\ i + 1 \in DOMAIN workers[w].batch /\ i + 1 # 1 /\ i \in Nat
                              /\ batch[i] = workers[w].batch[i + 1]
  <2>1. CASE batch = <<>>
    BY <2>1
  <2>2. CASE batch = Tail(workers[w].batch)
    BY <1>4, <2>2
  <2> QED BY <2>1, <2>2
<1>6. BatchesNameOnce'
  BY <1>3, <1>5 DEF BatchesNameOnce, OthersStay
<1>7. \A x : Holds(w, x)' => Holds(w, x)
  BY <1>3, <1>5 DEF Holds
<1> QED BY <1>3, <1>6, <1>7, OthersKeep DEF LetsGo, Tried, Holding

(* The worker stays with its row; a fault sends it to the handler.           *)
LEMMA StepsOn ==
    ASSUME IInv, BatchesNameOnce, NEW w \in Workers, workers[w].step # "fetch",
           NEW step \in Steps, To(w, step)
    PROVE  /\ BatchesNameOnce'
           /\ step # "handle" => LetsGo(w)
           /\ \A x : Tried(x) \ {w} \subseteq Tried(x)'
           /\ \A x : w \in Tried(x)' <=> step \in {"handled", "rejected", "failed"} /\ Item(w).id = x
           /\ \A x : workers[w].step \notin {"handled", "rejected", "failed"} => w \notin Tried(x)
<1>1. workers \in [Workers -> [step : Steps, batch : Seq(Rows), configured : BOOLEAN]]
  BY DEF IInv, TypeOK
<1>2. workers'[w].batch = workers[w].batch /\ workers'[w].step = step /\ OthersStay(w)
  BY <1>1 DEF To, OthersStay
<1>3. BatchesNameOnce'
  BY <1>2 DEF BatchesNameOnce, OthersStay
<1>4. step # "handle" => \A x : Holds(w, x)' => Holds(w, x)
  BY <1>2 DEF Holds
<1> QED BY <1>2, <1>3, <1>4, OthersKeep DEF LetsGo, Tried, Holding, IsTrying, Item
-----------------------------------------------------------------------------
(* One lemma per kind of action *)

(* Nothing but a worker's own step changes. *)
LEMMA OnlyMoves ==
    ASSUME IInv, IInv', TriesInv, NEW w \in Workers, LetsGo(w), BatchesNameOnce',
           retry' = retry, lastIds' = lastIds, tries' = tries,
           \/ faults' = faults + 1
           \/ faults' = faults /\ \A x : w \notin Tried(x)
    PROVE  TriesInv'
<1>1. ASSUME NEW x \in Ids
      PROVE  Bounded(x)'
  <2>1. Bounded(x)
    BY DEF TriesInv
  <2>2. Tried(x) \ {w} \subseteq Tried(x)' /\ Holding(x)' \subseteq Holding(x)
    BY DEF LetsGo
  <2>3. \/ faults' = faults /\ Tried(x) \subseteq Tried(x)'
        \/ faults' = faults + 1 /\ \E v \in Workers : Tried(x) \ {v} \subseteq Tried(x)'
    BY <2>2
  <2>4. /\ \A r \in retry' : r.id = x => r \in retry
        /\ lastIds.retry =< lastIds'.retry
        /\ ~IsStored(x)' /\ x =< lastIds'.retry => ~IsStored(x) /\ x =< lastIds.retry
        /\ tries'[x] = tries[x]
    BY Numbers DEF IsStored
  <2> QED BY <2>1, <2>2, <2>3, <2>4, RowUntouched
<1> QED BY <1>1 DEF TriesInv

(* No worker moves, no row leaves or counts; a new row may come. *)
LEMMA WorkersWait ==
    ASSUME IInv, IInv', TriesInv, workers' = workers, tries' = tries, faults' = faults,
           \/ retry' = retry /\ lastIds' = lastIds
           \/ \E d : InsertRetry(d)
    PROVE  TriesInv'
<1>1. \A x : Tried(x)' = Tried(x) /\ Holding(x)' = Holding(x)
  BY DEF Tried, IsTrying, Item, Holding, Holds
<1>2. ASSUME NEW x \in Ids
      PROVE  Bounded(x)'
  <2>1. Bounded(x)
    BY DEF TriesInv
  <2>2. CASE retry' = retry /\ lastIds' = lastIds
    <3>1. /\ \A r \in retry' : r.id = x => r \in retry
          /\ lastIds.retry =< lastIds'.retry
          /\ ~IsStored(x)' /\ x =< lastIds'.retry => ~IsStored(x) /\ x =< lastIds.retry
      BY <2>2, Numbers DEF IsStored
    <3> QED BY <1>1, <2>1, <3>1, RowUntouched
  <2>3. CASE \E d : InsertRetry(d)
    <3>1. PICK d : /\ retry' = retry \cup {[id |-> lastIds.retry + 1, delivery |-> d, attempts |-> 0]}
                   /\ lastIds' = [lastIds EXCEPT !.retry = lastIds.retry + 1]
      BY <2>3 DEF InsertRetry, FreshId
    <3>2. lastIds'.retry = lastIds.retry + 1 /\ lastIds.retry \in Nat
      BY <3>1 DEF IInv, TypeOK
    <3>3. CASE x = lastIds.retry + 1
      <4>1. tries'[x] = 0
        BY <2>1, <3>3, Numbers DEF Bounded
      <4>2. \A r \in retry : r.id # x
        BY <3>3, <3>2 DEF IInv, RowsAreTrue, TypeOK, Rows
      <4>3. \A r \in retry' : r.id = x => r.attempts = 0
        BY <3>1, <4>2
      <4> DEFINE new == [id |-> lastIds.retry + 1, delivery |-> d, attempts |-> 0]
      <4>4. new \in retry' /\ new.id = x
        BY <3>1, <3>3
      <4> HIDE DEF new
      <4>5. IsStored(x)'
        BY <4>4 DEF IsStored
      <4> QED BY <3>2, <3>3, <4>1, <4>3, <4>5, Numbers, NumbersAfter DEF Bounded
    <3>4. CASE x # lastIds.retry + 1
      <4>1. /\ \A r \in retry' : r.id = x => r \in retry
            /\ lastIds.retry =< lastIds'.retry
            /\ ~IsStored(x)' /\ x =< lastIds'.retry => ~IsStored(x) /\ x =< lastIds.retry
        BY <3>1, <3>2, <3>4, Numbers DEF IsStored
      <4> QED BY <1>1, <2>1, <4>1, RowUntouched
    <3> QED BY <3>3, <3>4
  <2> QED BY <2>2, <2>3
<1>3. BatchesNameOnce'
  BY DEF TriesInv, BatchesNameOnce
<1> QED BY <1>2, <1>3 DEF TriesInv

(* A worker turns to the next row, or drops its batch, after a transaction   *)
(* that removed its row, counted a failure or found the row gone.            *)
LEMMA RowRecorded ==
    ASSUME IInv, IInv', TriesInv, NEW w \in Workers, workers[w].step # "fetch",
           NextItem(w) \/ DropBatch(w), tries' = tries, faults' = faults,
           lastIds'.retry = lastIds.retry,
           \/ retry' = Without(Item(w).id)
           \/ ~IsStored(Item(w).id) /\ retry' = retry
           \/ \E r \in retry :
                 /\ r.id = Item(w).id /\ r.attempts + 1 < MaxAttempts
                 /\ retry' = Without(r.id) \cup {[r EXCEPT !.attempts = r.attempts + 1]}
    PROVE  TriesInv'
<1> DEFINE id == Item(w).id
<1>1. BatchesNameOnce' /\ LetsGo(w)
  BY MovesOn DEF TriesInv
<1>2. ASSUME NEW x \in Ids
      PROVE  Bounded(x)'
  <2>1. Bounded(x) /\ BatchesNameOnce
    BY DEF TriesInv
  <2>2. Tried(x) \ {w} \subseteq Tried(x)' /\ Holding(x)' \subseteq Holding(x)
    BY <1>1 DEF LetsGo
  <2>3. CASE x # id
    <3>1. Tried(x) \subseteq Tried(x)'
      BY <2>2, <2>3 DEF Tried, IsTrying
    <3>2. \A r : r.id = x => (r \in retry' <=> r \in retry)
      BY <2>3 DEF Without, IInv, TypeOK, Rows
    <3>3. /\ \A r \in retry' : r.id = x => r \in retry
          /\ lastIds.retry =< lastIds'.retry
          /\ ~IsStored(x)' /\ x =< lastIds'.retry => ~IsStored(x) /\ x =< lastIds.retry
      BY <3>2, Numbers DEF IsStored
    <3> QED BY <2>1, <2>2, <3>1, <3>3, RowUntouched
  <2>4. CASE x = id /\ ~IsStored(x)
    <3>1. retry' = retry
      BY <2>4 DEF IsStored, Without
    <3>2. ~IsStored(x)'
      BY <2>4, <3>1 DEF IsStored
    <3> QED BY <2>1, <2>2, <2>4, <3>2, RowGone
  <2>5. CASE x = id /\ retry' = Without(id) /\ IsStored(x)
    <3>1. ~IsStored(x)'
      BY <2>5 DEF IsStored, Without
    <3> QED BY <2>1, <2>2, <2>5, <3>1, RowLeaves
  <2>6. CASE x = id /\ retry' # Without(id) /\ IsStored(x)
    <3>1. PICK r \in retry :
             /\ r.id = x /\ r.attempts + 1 < MaxAttempts
             /\ retry' = Without(x) \cup {[r EXCEPT !.attempts = r.attempts + 1]}
      BY <2>6
    <3> DEFINE q == [r EXCEPT !.attempts = r.attempts + 1]
    <3>2. q.id = x /\ q.attempts = r.attempts + 1
      BY <3>1 DEF IInv, TypeOK, Rows
    <3>3. IsStored(x)' /\ \A s \in retry' : s.id = x => s.attempts = r.attempts + 1
      BY <3>1, <3>2 DEF IsStored, Without
    <3> QED BY <2>1, <2>2, <3>1, <3>3, RowCounts
  <2> QED BY <2>3, <2>4, <2>5, <2>6
<1> QED BY <1>1, <1>2 DEF TriesInv

(* A worker takes rows that are stored. *)
LEMMA FetchBounds ==
    ASSUME IInv, IInv', TriesInv, NEW w \in Workers, Fetch(w)
    PROVE  TriesInv'
<1> DEFINE n     == IF Len(ready) < BatchLimit THEN Len(ready) ELSE BatchLimit
           first == SubSeq(ready, 1, n)
           batch == [i \in DOMAIN first |-> RowOf(first[i])]
<1>1. /\ TurnTo(w, batch) /\ workers[w].step = "fetch"
      /\ retry' = retry /\ lastIds' = lastIds /\ tries' = tries /\ faults' = faults
  BY DEF Fetch, At, tables
<1>2. ready \in Seq(Nat) /\ n \in 0 .. Len(ready)
  BY RetryConstants DEF IInv, TypeOK
<1> HIDE DEF n
<1>3. DOMAIN first = 1 .. n /\ \A i \in 1 .. n : first[i] = ready[i] /\ i \in DOMAIN ready
  BY <1>2
<1>4. \A i \in 1 .. n : batch[i] \in retry /\ batch[i].id = ready[i] /\ i \in DOMAIN ready
  BY <1>3 DEF IInv, DuesAreStored, IsStored, RowOf
<1>5. DOMAIN batch = 1 .. n
  BY <1>3
<1> HIDE DEF batch
<1>6. workers'[w].batch = batch /\ OthersStay(w)
  BY <1>1 DEF TurnTo, OthersStay, IInv, TypeOK
<1>7. BatchesNameOnce'
  <2>1. \A i, j \in DOMAIN batch : batch[i].id = batch[j].id => i = j
    BY <1>4, <1>5 DEF IInv, DuesAreStored
  <2> QED BY <1>6, <2>1 DEF TriesInv, BatchesNameOnce, OthersStay
<1>8. ASSUME NEW x \in Ids
      PROVE  Bounded(x)'
  <2>1. Bounded(x)
    BY DEF TriesInv
  <2>2. Tried(x) \subseteq Tried(x)'
    BY <1>1, <1>6, OthersKeep DEF Tried, IsTrying
  <2>3. ~IsStored(x) => Holding(x)' \subseteq Holding(x)
    <3>1. Holds(w, x)' => IsStored(x)
      BY <1>4, <1>5, <1>6 DEF Holds, IsStored
    <3> QED BY <1>6, <3>1, OthersKeep DEF Holding
  <2>4. /\ \A r \in retry' : r.id = x => r \in retry
        /\ lastIds.retry =< lastIds'.retry
        /\ ~IsStored(x)' /\ x =< lastIds'.retry => ~IsStored(x) /\ x =< lastIds.retry
    BY <1>1, Numbers DEF IsStored
  <2> QED BY <1>1, <2>1, <2>2, <2>3, <2>4, RowUntouched
<1> QED BY <1>7, <1>8 DEF TriesInv

(* A worker hands its row to the handler. *)
LEMMA HandleBounds ==
    ASSUME IInv, IInv', TriesInv, NEW w \in Workers, Handle(w)
    PROVE  TriesInv'
<1>1. PICK step \in {"handled", "failed", "rejected"} : To(w, step)
  BY DEF Handle
<1>2. /\ workers[w].step = "handle" /\ step \in Steps /\ step # "handle"
      /\ retry' = retry /\ lastIds' = lastIds /\ faults' = faults
      /\ tries' = [tries EXCEPT ![Item(w).id] = @ + 1]
      /\ BatchesNameOnce
  BY DEF Handle, At, Steps, tables, TriesInv
<1>3. /\ BatchesNameOnce' /\ LetsGo(w)
      /\ \A x : w \in Tried(x)' <=> Item(w).id = x
      /\ \A x : w \notin Tried(x)
  BY <1>1, <1>2, StepsOn
<1>4. ASSUME NEW x \in Ids
      PROVE  Bounded(x)'
  <2>1. Bounded(x)
    BY DEF TriesInv
  <2>2. Tried(x) \subseteq Tried(x)' /\ Holding(x)' \subseteq Holding(x)
    BY <1>3 DEF LetsGo
  <2>3. CASE x # Item(w).id
    <3>1. tries'[x] = tries[x]
      BY <1>2, <2>3 DEF IInv, TypeOK, Ids
    <3>2. /\ \A r \in retry' : r.id = x => r \in retry
          /\ lastIds.retry =< lastIds'.retry
          /\ ~IsStored(x)' /\ x =< lastIds'.retry => ~IsStored(x) /\ x =< lastIds.retry
      BY <1>2, Numbers DEF IsStored
    <3> QED BY <1>2, <2>1, <2>2, <3>1, <3>2, RowUntouched
  <2>4. CASE x = Item(w).id
    <3>1. tries'[x] = tries[x] + 1
      BY <1>2, <2>4 DEF IInv, TypeOK, Ids
    <3>2. x =< lastIds.retry
      BY <1>2, <2>4, BusyItem DEF Trusted, TrueItem
    <3>3. w \in Holding(x)
      <4>1. workers[w].batch \in Seq(Rows) /\ workers[w].batch # <<>>
        BY <1>2 DEF IInv, TypeOK, BatchesAreTrue
      <4>2. 1 \in DOMAIN workers[w].batch /\ workers[w].batch[1].id = x
        BY <2>4, <4>1 DEF Item
      <4> QED BY <1>2, <4>2 DEF Holding, Holds
    <3>4. w \in Tried(x)' /\ w \notin Tried(x)
      BY <1>3, <2>4
    <3>5. w \notin Holding(x)'
      <4>1. workers'[w].batch = workers[w].batch /\ workers'[w].step = step
        BY <1>1 DEF To, IInv, TypeOK
      <4>2. workers[w].batch \in Seq(Rows) /\ workers[w].batch # <<>>
        BY <1>2 DEF IInv, TypeOK, BatchesAreTrue
      <4>3. 1 \in DOMAIN workers[w].batch /\ workers[w].batch[1].id = x
        BY <2>4, <4>2 DEF Item
      <4>4. \A i \in DOMAIN workers[w].batch : workers[w].batch[i].id = x => i = 1
        BY <1>2, <4>3 DEF BatchesNameOnce
      <4>5. ~Holds(w, x)'
        BY <1>2, <4>1, <4>4 DEF Holds
      <4> QED BY <4>5 DEF Holding
    <3> QED BY <1>2, <2>1, <2>2, <3>1, <3>2, <3>3, <3>4, <3>5, RowTried
  <2> QED BY <2>3, <2>4
<1> QED BY <1>3, <1>4 DEF TriesInv

(* Results are recorded, or there is nothing left to record them in. *)
LEMMA RecordBounds ==
    ASSUME IInv, IInv', TriesInv, NEW w \in Workers,
           MarkSuccess(w) \/ MarkRejected(w) \/ MarkFailed(w) \/ MoveFound(w)
    PROVE  TriesInv'
<1>1. \A r \in retry : r.attempts \in Nat
  BY DEF IInv, TypeOK, Rows
<1>2. /\ workers[w].step # "fetch"
      /\ NextItem(w) \/ DropBatch(w)
      /\ tries' = tries /\ faults' = faults
  BY DEF MarkSuccess, MarkRejected, MarkFailed, MoveFound, At
<1>3. ASSUME NEW id, MoveToDlq(id)
      PROVE  retry' = Without(id) /\ lastIds'.retry = lastIds.retry
  BY <1>3 DEF MoveToDlq, IInv, TypeOK
<1>4. \/ retry' = Without(Item(w).id) /\ lastIds'.retry = lastIds.retry
      \/ ~IsStored(Item(w).id) /\ retry' = retry /\ lastIds' = lastIds
      \/ CountAndReschedule(Item(w))
  BY <1>3 DEF MarkSuccess, MarkRejected, MarkFailed, MoveFound
<1>5. CASE CountAndReschedule(Item(w))
  <2>1. PICK r \in retry :
           /\ r.id = Item(w).id
           /\ IF r.attempts + 1 >= MaxAttempts
              THEN MoveToDlq(r.id)
              ELSE /\ retry' = Without(r.id) \cup {[r EXCEPT !.attempts = r.attempts + 1]}
                   /\ lastIds' = lastIds
    BY <1>5 DEF CountAndReschedule, CountFailure
  <2>2. CASE r.attempts + 1 >= MaxAttempts
    <3>1. retry' = Without(Item(w).id) /\ lastIds'.retry = lastIds.retry
      BY <1>3, <2>1, <2>2
    <3> QED BY <1>2, <3>1, RowRecorded
  <2>3. CASE ~(r.attempts + 1 >= MaxAttempts)
    <3>1. r.attempts + 1 < MaxAttempts
      BY <1>1, <2>3, RetryConstants
    <3> QED BY <1>2, <2>1, <2>3, <3>1, RowRecorded
  <2> QED BY <2>2, <2>3
<1> QED BY <1>2, <1>4, <1>5, RowRecorded

LEMMA NextBounds == ASSUME IInv, IInv', TriesInv, Next PROVE TriesInv'
<1>1. CASE Surroundings
  <2>1. /\ workers' = workers /\ tries' = tries /\ faults' = faults
        /\ \/ retry' = retry /\ lastIds' = lastIds
           \/ \E d : InsertRetry(d)
    BY <1>1 DEF Surroundings, StoreWebhook, BecomesDue, OperatorRetries, OperatorDeletes
  <2> QED BY <2>1, WorkersWait
<1>2. ASSUME NEW w \in Workers, FindRow(w)
      PROVE  TriesInv'
  <2>1. /\ workers[w].step = "find"
        /\ To(w, "move") \/ NextItem(w)
        /\ retry' = retry /\ lastIds' = lastIds /\ tries' = tries /\ faults' = faults
        /\ BatchesNameOnce /\ "move" \in Steps
    BY <1>2 DEF FindRow, At, tables, TriesInv, Steps
  <2>2. BatchesNameOnce' /\ LetsGo(w)
    BY <2>1, MovesOn, StepsOn
  <2>3. \A x : w \notin Tried(x)
    BY <2>1 DEF Tried, IsTrying
  <2> QED BY <2>1, <2>2, <2>3, OnlyMoves
<1>3. ASSUME NEW w \in Workers, TransactionFails(w)
      PROVE  TriesInv'
  <2>1. /\ workers[w].step # "fetch"
        /\ To(w, "failed") \/ DropBatch(w)
        /\ retry' = retry /\ lastIds' = lastIds /\ tries' = tries /\ faults' = faults + 1
        /\ BatchesNameOnce /\ "failed" \in Steps
    BY <1>3 DEF TransactionFails, At, tables, TriesInv, Steps
  <2>2. BatchesNameOnce' /\ LetsGo(w)
    BY <2>1, MovesOn, StepsOn
  <2> QED BY <2>1, <2>2, OnlyMoves
<1>4. ASSUME NEW w \in Workers, Restart(w)
      PROVE  TriesInv'
  <2>1. PICK configured \in BOOLEAN : workers' = [workers EXCEPT ![w] = Starting(configured)]
    BY <1>4 DEF Restart
  <2>2. retry' = retry /\ lastIds' = lastIds /\ tries' = tries /\ faults' = faults + 1
    BY <1>4 DEF Restart, tables
  <2>3. workers'[w].batch = <<>> /\ OthersStay(w)
    BY <2>1 DEF Starting, OthersStay, IInv, TypeOK
  <2>4. BatchesNameOnce' /\ \A x : ~Holds(w, x)'
    BY <2>3 DEF TriesInv, BatchesNameOnce, OthersStay, Holds
  <2>5. LetsGo(w)
    BY <2>3, <2>4, OthersKeep DEF LetsGo, Tried, Holding
  <2> QED BY <2>2, <2>4, <2>5, OnlyMoves
<1> QED BY <1>1, <1>2, <1>3, <1>4, FetchBounds, HandleBounds, RecordBounds DEF Next, Work
-----------------------------------------------------------------------------
(* The invariant, and the bound that follows from it *)

LEMMA InitBounds == ASSUME Init PROVE TriesInv
<1>1. ASSUME NEW x \in Ids
      PROVE  Bounded(x)
  <2>1. tries[x] = 0 /\ x > lastIds.retry /\ ~(x =< lastIds.retry)
    BY RetryConstants DEF Init, Ids
  <2> QED BY <2>1 DEF Bounded, Init
<1>2. BatchesNameOnce
  BY DEF Init, BatchesNameOnce, Starting
<1> QED BY <1>1, <1>2 DEF TriesInv

LEMMA StutteringBounds == ASSUME IInv, IInv', TriesInv, UNCHANGED vars PROVE TriesInv'
BY WorkersWait DEF vars

LEMMA BoundHolds == ASSUME IInv, TriesInv PROVE TriesBounded
<1>1. ASSUME NEW x \in Ids
      PROVE  tries[x] =< MaxAttempts + Cardinality(Workers) - 1 + faults
  <2>1. Cardinality(Tried(x)) =< Cardinality(Workers)
    <3>1. Tried(x) \subseteq Workers
      BY DEF Tried
    <3> QED BY <3>1, NoFewer
  <2>2. x > lastIds.retry \/ x =< lastIds.retry
    BY Numbers
  <2>3. Bounded(x)
    BY DEF TriesInv
  <2>4. CASE IsStored(x)
    BY <2>1, <2>3, <2>4, Numbers DEF Bounded, IsStored
  <2>5. CASE x > lastIds.retry
    BY <2>3, <2>5, Numbers DEF Bounded
  <2>6. CASE ~IsStored(x) /\ x =< lastIds.retry
    BY <2>3, <2>6, Numbers DEF Bounded
  <2> QED BY <2>2, <2>4, <2>5, <2>6
<1>2. DOMAIN tries = Ids
  BY DEF IInv, TypeOK, Ids
<1> QED BY <1>1, <1>2 DEF TriesBounded

(***************************************************************************)
(* max_attempts: however workers share rows, abandon batches or restart, a *)
(* row is tried as often as configured, and but once more for each other   *)
(* worker and each fault.                                                  *)
(***************************************************************************)
THEOREM TriesAreBounded == Spec => []TriesBounded
<1> DEFINE Inv == IInv /\ TriesInv
<1>1. Init => Inv
  BY InitEstablishes, InitBounds
<1>2. Inv /\ [Next]_vars => Inv'
  BY NextKeeps, StutteringKeeps, NextBounds, StutteringBounds
<1>3. Inv => TriesBounded
  BY BoundHolds
<1> QED BY <1>1, <1>2, <1>3, PTL DEF Spec
=============================================================================
