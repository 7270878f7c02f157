----------------------------- MODULE RetryQueue -----------------------------
(***************************************************************************)
(* The webhooks whose handling failed: webhook_retry_queue, the dead       *)
(* letter queue webhook_dlq, the retry processor and the operators who     *)
(* look through the dead letters.                                          *)
(*                                                                         *)
(* During a rolling update two processes run a retry processor each, so a  *)
(* worker may hold a row that another has acknowledged or moved meanwhile. *)
(* Each delivery that was stored has a number, which its row in the one    *)
(* table or the other carries; the program knows rows only by their ids.   *)
(***************************************************************************)
EXTENDS Integers, Sequences, FiniteSets

CONSTANTS
    Workers,        \* processes that run a retry processor
    MaxAttempts,    \* max_attempts
    BatchLimit,     \* rows that one iteration takes
    MaxStored,      \* bound: deliveries stored
    MaxRequeues,    \* bound: dead letters sent back to the retry queue
    MaxFaults       \* bound: crashes and failed transactions, together

ASSUME RetryConstants ==
    /\ IsFiniteSet(Workers)
    /\ MaxAttempts \in Nat \ {0} /\ BatchLimit \in Nat \ {0}
    /\ MaxStored \in Nat /\ MaxRequeues \in Nat /\ MaxFaults \in Nat

VARIABLES
    retry,      \* rows of webhook_retry_queue
    dlq,        \* rows of webhook_dlq
    ready,      \* ids of the retry rows that are due, by next_attempt_at
    lastIds,    \* the last id that each table gave out
    workers,    \* the retry processors
    seen,       \* dead letters that operators have had on their screens
    stored,     \* deliveries stored so far
    settled,    \* deliveries acknowledged by a worker or deleted by an operator
    tries,      \* how often a retry row was handed to its handler
    faults      \* crashes and failed transactions so far

vars == <<retry, dlq, ready, lastIds, workers, seen, stored, settled, tries, faults>>
tables == <<retry, dlq, ready, lastIds, seen, settled>>
-----------------------------------------------------------------------------
(* Data *)

Rows    == [id : Nat, delivery : Nat, attempts : Nat]
Letters == [id : Nat, delivery : Nat]

(* "rejected": the stored payload is no event that can be handled;           *)
(* "failed": the exception handler.  A worker is busy with Head(batch).      *)
Steps == {"fetch", "handle", "handled", "rejected", "failed", "find", "move"}

TypeOK ==
    /\ retry \subseteq Rows
    /\ dlq \subseteq Letters /\ seen \subseteq Letters
    /\ ready \in Seq(Nat)
    /\ lastIds \in [retry : Nat, dlq : Nat]
    /\ workers \in [Workers -> [step : Steps, batch : Seq(Rows), configured : BOOLEAN]]
    /\ stored \in Nat /\ settled \subseteq Nat /\ faults \in Nat
    /\ tries \in [1 .. MaxStored + MaxRequeues -> Nat]

(* A process just started; its configuration may lack the project. *)
Starting(configured) == [step |-> "fetch", batch |-> <<>>, configured |-> configured]

Init ==
    /\ retry = {} /\ dlq = {} /\ ready = <<>> /\ seen = {} /\ settled = {}
    /\ lastIds = [retry |-> 0, dlq |-> 0]
    /\ workers = [w \in Workers |-> Starting(TRUE)]
    /\ stored = 0 /\ faults = 0
    /\ tries = [id \in 1 .. MaxStored + MaxRequeues |-> 0]
-----------------------------------------------------------------------------
(* The two tables; each operator is one transaction *)

(* Seeded fault: without AUTOINCREMENT the highest id is given out again.    *)
ReusedId(rows, last) ==
    CHOOSE n \in 1 .. last + 1 : /\ \A r \in rows : r.id < n
                                 /\ n = 1 \/ \E r \in rows : r.id = n - 1

(* sqlite_autoincrement: an id is never given out twice. *)
FreshId(rows, last) == last + 1

IsStored(id) == \E r \in retry : r.id = id
Without(id)  == {r \in retry : r.id # id}
IsDue(id)    == \E i \in DOMAIN ready : ready[i] = id
NotDue(id)   ==
    IF IsDue(id)
    THEN LET at == CHOOSE i \in DOMAIN ready : ready[i] = id
         IN  [i \in 1 .. Len(ready) - 1 |-> ready[IF i < at THEN i ELSE i + 1]]
    ELSE ready

(* A new row is due only after its delay. *)
InsertRetry(delivery) ==
    LET id == FreshId(retry, lastIds.retry)
    IN  /\ retry' = retry \cup {[id |-> id, delivery |-> delivery, attempts |-> 0]}
        /\ lastIds' = [lastIds EXCEPT !.retry = id]

(* _move_row_to_dlq, of a row whose DELETE counted *)
MoveToDlq(id) ==
    \E r \in retry :
       LET letter == [id |-> FreshId(dlq, lastIds.dlq), delivery |-> r.delivery]
       IN  /\ r.id = id
           /\ retry' = Without(id)
           /\ dlq' = dlq \cup {letter} /\ seen' = seen \cup {letter}
           /\ lastIds' = [lastIds EXCEPT !.dlq = letter.id]
           /\ ready' = NotDue(id)
-----------------------------------------------------------------------------
(* Webhook endpoint, clock, operators *)

(* The handler of a webhook failed, or its payload could not be parsed. *)
StoreWebhook ==
    /\ stored < MaxStored
    /\ \E w \in Workers : workers[w].configured
    /\ stored' = stored + 1
    /\ InsertRetry(stored + 1)
    /\ UNCHANGED <<dlq, ready, workers, seen, settled, tries, faults>>

BecomesDue ==
    /\ \E r \in retry : ~IsDue(r.id) /\ ready' = Append(ready, r.id)
    /\ UNCHANGED <<retry, dlq, lastIds, workers, seen, stored, settled, tries, faults>>

(* retry_dlq_entry and delete_dlq_entry name the id of a page that may be    *)
(* old: a letter that is not there any more is left alone.                   *)
OperatorRetries ==
    /\ lastIds.retry - stored < MaxRequeues
    /\ \E letter \in seen, found \in dlq :
          /\ found.id = letter.id
          /\ dlq' = dlq \ {found}
          /\ InsertRetry(found.delivery)
    /\ UNCHANGED <<ready, workers, seen, stored, settled, tries, faults>>

OperatorDeletes ==
    /\ \E letter \in seen, found \in dlq :
          /\ found.id = letter.id
          /\ dlq' = dlq \ {found}
          /\ settled' = settled \cup {letter.delivery}
    /\ UNCHANGED <<retry, ready, lastIds, workers, seen, stored, tries, faults>>

Surroundings == StoreWebhook \/ BecomesDue \/ OperatorRetries \/ OperatorDeletes
-----------------------------------------------------------------------------
(* The retry processor *)

At(w, step) == workers[w].step = step
To(w, step) == workers' = [workers EXCEPT ![w].step = step]
Item(w)     == Head(workers[w].batch)

(* _process_retry_item of the first row, or the end of the iteration. *)
TurnTo(w, batch) ==
    workers' = [workers EXCEPT
        ![w].batch = batch,
        ![w].step  = IF batch = <<>> THEN "fetch" ELSE IF workers[w].configured THEN "handle" ELSE "find"]

NextItem(w) == TurnTo(w, Tail(workers[w].batch))

(* Seeded fault: the exception ends the processor's task. *)
StopForGood(w) == workers' = [workers EXCEPT ![w].step = "stopped", ![w].batch = <<>>]

(* An exception leaves _process_iteration: the rest of the batch is dropped. *)
DropBatch(w) == TurnTo(w, <<>>)

RowOf(id) == CHOOSE r \in retry : r.id = id

(* get_events_ready_for_retry, with or without the projects configured *)
Fetch(w) ==
    /\ At(w, "fetch") /\ ready # <<>>
    /\ LET first == SubSeq(ready, 1, IF Len(ready) < BatchLimit THEN Len(ready) ELSE BatchLimit)
       IN  TurnTo(w, [i \in DOMAIN first |-> RowOf(first[i])])
    /\ UNCHANGED <<tables, stored, tries, faults>>

(* The handler succeeds or raises, or the payload is none for a handler. *)
Handle(w) ==
    /\ At(w, "handle")
    /\ tries' = [tries EXCEPT ![Item(w).id] = @ + 1]
    /\ \E step \in {"handled", "failed", "rejected"} : To(w, step)
    /\ UNCHANGED <<tables, stored, faults>>

(* mark_retry_success; RetryItemNotFoundError is ignored. *)
MarkSuccess(w) ==
    /\ At(w, "handled")
    /\ retry' = Without(Item(w).id) /\ ready' = NotDue(Item(w).id)
    /\ settled' = IF IsStored(Item(w).id) THEN settled \cup {Item(w).delivery} ELSE settled
    /\ NextItem(w)
    /\ UNCHANGED <<dlq, lastIds, seen, stored, tries, faults>>

(* Seeded fault: the count that the worker read is written back. *)
CountFromSnapshot(r, item) == item.attempts + 1

CountFailure(r, item) == r.attempts + 1

(* mark_retry_failed, when the row is still there *)
CountAndReschedule(item) ==
    \E r \in retry :
       /\ r.id = item.id
       /\ IF CountFailure(r, item) >= MaxAttempts
          THEN MoveToDlq(r.id)
          ELSE /\ retry' = Without(r.id) \cup {[r EXCEPT !.attempts = CountFailure(r, item)]}
               /\ ready' = NotDue(r.id)
               /\ UNCHANGED <<dlq, lastIds, seen>>

(* Called in the try block: that the row is gone is ignored ... *)
MarkRejected(w) ==
    /\ At(w, "rejected")
    /\ \/ CountAndReschedule(Item(w))
       \/ ~IsStored(Item(w).id) /\ UNCHANGED <<retry, dlq, ready, lastIds, seen>>
    /\ NextItem(w)
    /\ UNCHANGED <<settled, stored, tries, faults>>

(* ... but not in the exception handler, where it ends the iteration. *)
MarkFailed(w) ==
    /\ At(w, "failed")
    /\ \/ CountAndReschedule(Item(w)) /\ NextItem(w)
       \/ ~IsStored(Item(w).id) /\ DropBatch(w) /\ UNCHANGED <<retry, dlq, ready, lastIds, seen>>
    /\ UNCHANGED <<settled, stored, tries, faults>>

(* move_retry_to_dlq reads the row in a transaction of its own ... *)
FindRow(w) ==
    /\ At(w, "find")
    /\ IF IsStored(Item(w).id) THEN To(w, "move") ELSE NextItem(w)
    /\ UNCHANGED <<tables, stored, tries, faults>>

(* ... and moves it in another, when it is still there. *)
MoveFound(w) ==
    /\ At(w, "move")
    /\ \/ MoveToDlq(Item(w).id)
       \/ ~IsStored(Item(w).id) /\ UNCHANGED <<retry, dlq, ready, lastIds, seen>>
    /\ NextItem(w)
    /\ UNCHANGED <<settled, stored, tries, faults>>

Work(w) == Fetch(w) \/ Handle(w) \/ MarkSuccess(w) \/ MarkRejected(w)
           \/ MarkFailed(w) \/ FindRow(w) \/ MoveFound(w)

(* A transaction fails and leaves no trace: its exception is handled like    *)
(* one of the handler, and in the exception handler ends the iteration.      *)
TransactionFails(w) ==
    /\ faults < MaxFaults /\ faults' = faults + 1
    /\ \/ workers[w].step \in {"handled", "rejected", "find", "move"} /\ To(w, "failed")
       \/ At(w, "failed") /\ DropBatch(w)
    /\ UNCHANGED <<tables, stored, tries>>

(* A crash, or a shutdown and a new deployment. *)
Restart(w) ==
    /\ faults < MaxFaults /\ faults' = faults + 1
    /\ \E configured \in BOOLEAN : workers' = [workers EXCEPT ![w] = Starting(configured)]
    /\ UNCHANGED <<tables, stored, tries>>

Next == \/ Surroundings
        \/ \E w \in Workers : Work(w) \/ TransactionFails(w) \/ Restart(w)

Spec == Init /\ [][Next]_vars

(* The processors keep running and delays pass. *)
FairSpec == Spec /\ WF_vars(BecomesDue) /\ \A w \in Workers : WF_vars(Work(w))
-----------------------------------------------------------------------------
(* Properties *)

(***************************************************************************)
(* retry_manager: a stored delivery is in exactly one place: one row of    *)
(* the retry queue, one dead letter, or settled, whatever two workers and  *)
(* operators with old pages do to the same row at the same time.           *)
(***************************************************************************)
Places(d) == {<<"retry", r.id>> : r \in {x \in retry : x.delivery = d}}
             \cup {<<"dlq", r.id>> : r \in {x \in dlq : x.delivery = d}}
             \cup {<<"settled", n>> : n \in settled \cap {d}}

EachDeliveryIsInOnePlace == \A d \in 1 .. stored : \E p \in Places(d) : Places(d) = {p}

(***************************************************************************)
(* max_attempts: a row is handed to its handler that often, once more for  *)
(* each other worker that had fetched it, and once more for every try that *)
(* a fault kept from being counted.                                        *)
(***************************************************************************)
TriesBounded == \A id \in DOMAIN tries : tries[id] =< MaxAttempts + Cardinality(Workers) - 1 + faults

(***************************************************************************)
(* Every stored webhook leaves the retry queue, handled or dead: no batch  *)
(* of rows before it, other worker or abandoned iteration keeps it there.  *)
(***************************************************************************)
RetriesEnd == \A id \in 1 .. MaxStored + MaxRequeues : IsStored(id) ~> ~IsStored(id)
=============================================================================
