----------------------- MODULE QueueCompletionProofs ------------------------
(***************************************************************************)
(* Proofs about the completion of a lifecycle, for every number of webhook *)
(* handlers, lifecycles, label changes, lost answers and crashes, every    *)
(* timestamp precision, and every interleaving of the tasks.               *)
(*                                                                         *)
(* The inductive invariant is LockOwnership with the types.  It is needed  *)
(* because no single statement of the code says that a row stays the lock  *)
(* holder's: prepare_completion and recover take the lock with the payload *)
(* they read, save_completion_progress and finalize_completion write only  *)
(* where the row still carries the holder's id, and everybody else leaves  *)
(* rows with a pending completion to it.  The invariant holds because each *)
(* of these does its part, and the three action properties follow from it. *)
(***************************************************************************)
EXTENDS QueueCompletion, TLAPS

(* A webhook's timestamp, truncated to Prec ticks, is still an instant. *)
LEMMA ClockType ==
    ASSUME NEW e \in Events
    PROVE  Clock(e) \in [at : Nat, width : Nat \ {0}]
<1>1. e.msg \in Nat BY DEF Events
<1>2. e.msg % Prec \in Nat /\ e.msg % Prec =< e.msg
  BY <1>1, CompletionConstants
<1> QED BY <1>1, <1>2, CompletionConstants DEF Clock

(* Clocks of webhooks, which always carry a timestamp. *)
SimpleClocks == [at : Nat, width : Nat \ {0}]

(* preserve_uncertainty returns a clock with a timestamp when it is given two. *)
LEMMA PreserveType ==
    ASSUME NEW c \in SimpleClocks, NEW d \in SimpleClocks
    PROVE  PreserveUncertainty(c, d) \in SimpleClocks
BY NoneIsNoInstant DEF PreserveUncertainty, SimpleClocks, Earlier, Later

(* _write_requeue stores a well-formed request, whatever it found. *)
LEMMA WriteRequeueType ==
    ASSUME NEW msg \in Nat, NEW clock \in SimpleClocks, NEW cancelling \in BOOLEAN,
           NEW prev \in Intents(Nat, Nat) \cup {None}
    PROVE  WriteRequeue(msg, clock, cancelling, prev) \in Intents(Nat, Nat) \cup {None}
<1>1. CASE RequeueUnchanged(msg, clock, cancelling, prev)
  BY <1>1 DEF WriteRequeue
<1>2. CancelledRequeue(msg, clock, prev) \in Intents(Nat, Nat)
  BY DEF CancelledRequeue, Intents, Seen, SimpleClocks
<1>3. EnqueuedRequeue(msg, clock, prev) \in Intents(Nat, Nat)
  <2>1. CASE Uncancelled(prev)
    <3>1. prev.clock \in SimpleClocks BY <2>1 DEF Uncancelled, Intents, SimpleClocks
    <3>2. PreserveUncertainty(clock, prev.clock) \in SimpleClocks BY <3>1, PreserveType
    <3> QED BY <3>2 DEF EnqueuedRequeue, Intents, Seen, SimpleClocks
  <2>2. CASE ~Uncancelled(prev)
    BY <2>2 DEF EnqueuedRequeue, Intents, Seen, SimpleClocks
  <2> QED BY <2>1, <2>2
<1> QED BY <1>1, <1>2, <1>3 DEF WriteRequeue
-----------------------------------------------------------------------------
(* A handler task that is running holds the webhook it is about. *)
HooksHoldEvents == \A h \in Hooks : hooks[h].pc # "idle" => hooks[h].ev # None

IInv == TypeOK /\ LockOwnership /\ HooksHoldEvents

(* The single-column updates of the row's pending, request and status. *)
LEMMA RowUpdates ==
    ASSUME NEW r \in Rows
    PROVE  /\ \A p \in Payloads : LET n == [r EXCEPT !.pending = p]
                                  IN  n \in Rows /\ n.id = r.id /\ n.pending = p /\ n.intent = r.intent
           /\ \A i \in Intents(Nat, Nat) \cup {None} :
                LET n == [r EXCEPT !.intent = i]
                IN  n \in Rows /\ n.id = r.id /\ n.pending = r.pending
           /\ LET n == [r EXCEPT !.status = "removed"]
              IN  n \in Rows /\ n.id = r.id /\ n.pending = r.pending
BY DEF Rows

(* The types of the columns the proofs compare. *)
LEMMA PayloadFields ==
    ASSUME NEW p \in Payloads
    PROVE  /\ p.cleanup \in BOOLEAN /\ p.commentSent \in BOOLEAN /\ p.labelsRemoved \in BOOLEAN
           /\ p.at \in Nat /\ p.receipts \in Receipts
BY DEF Payloads

(* comment_sent = true is progress: nothing else of the payload changes. *)
LEMMA CommentDone ==
    ASSUME NEW p \in Payloads
    PROVE  LET n == [p EXCEPT !.commentSent = TRUE]
           IN  n \in Payloads /\ Agrees(n, p) /\ n.commentSent = TRUE
BY DEF Payloads, Agrees

(* Putting an operation on record keeps the outcome and the progress. *)
LEMMA MutationBegun ==
    ASSUME NEW p \in Payloads, NEW m \in {"add", "remove"}
    PROVE  LET n == [p EXCEPT !.started = @ \cup {m}, !.open = @ \cup {m}]
           IN  /\ n \in Payloads
               /\ n.outcome = p.outcome /\ n.at = p.at /\ n.cleanup = p.cleanup
               /\ n.commentSent = p.commentSent /\ n.labelsRemoved = p.labelsRemoved
BY DEF Payloads

(* Acknowledging an operation keeps the outcome and can only add progress. *)
LEMMA MutationDone ==
    ASSUME NEW p \in Payloads, NEW m \in {"add", "remove"}, NEW c \in BOOLEAN,
           NEW instants \in SUBSET Nat
    PROVE  LET n == [p EXCEPT !.open = @ \ {m}, !.labelsRemoved = @ \/ c,
                              !.receipts = Recorded(@, m, instants)]
           IN  /\ n \in Payloads
               /\ n.outcome = p.outcome /\ n.at = p.at /\ n.cleanup = p.cleanup
               /\ n.commentSent = p.commentSent /\ n.labelsRemoved = (p.labelsRemoved \/ c)
BY DEF Payloads, Receipts, Recorded

(* prepare_completion freezes a payload with no progress yet. *)
LEMMA FrozenPayloadType ==
    ASSUME NEW q \in Requests, NEW i \in Intents(Nat, Nat) \cup {None}
    PROVE  /\ FrozenPayload(q, i) \in Payloads
           /\ FrozenPayload(q, i).commentSent = FALSE
BY DEF FrozenPayload, Requests, Payloads, Receipts, NoReceipts, AdmissionReceipts, Intents

(* A new incarnation is a row that nobody owns. *)
LEMMA FreshRowType ==
    ASSUME NEW id \in Nat, NEW ignored \in Receipts
    PROVE  /\ FreshRow(id, ignored) \in Rows
           /\ FreshRow(id, ignored).id = id /\ FreshRow(id, ignored).pending = None
BY DEF FreshRow, Rows

(* What GitLab emits is an event. *)
LEMMA EventType ==
    ASSUME NEW t \in Nat, NEW kind \in {"add", "remove", "merge"},
           NEW by \in {"user", "bot", "handler"}, NEW open \in BOOLEAN
    PROVE  [msg |-> t, kind |-> kind, by |-> by, open |-> open] \in Events
BY DEF Events

(* What an ender asks for is a completion request. *)
LEMMA RequestType ==
    ASSUME NEW id \in Nat, NEW outcome \in {"merged", "failed", "removed"}, NEW at \in Nat,
           NEW cleanup \in BOOLEAN, NEW by \in Hooks \cup {"processor"}
    PROVE  [id |-> id, outcome |-> outcome, at |-> at, cleanup |-> cleanup, by |-> by] \in Requests
BY DEF Requests

(* A row added from outside a completion remembers nothing. *)
LEMMA NoReceiptsType == NoReceipts \in Receipts
BY DEF NoReceipts, Receipts
-----------------------------------------------------------------------------
(* The invariant holds when the bot starts with or without a queued row. *)
LEMMA InitIInv == Init => IInv
<1> SUFFICES ASSUME Init PROVE IInv
  OBVIOUS
<1>1. FreshRow(1, NoReceipts) \in Rows /\ FreshRow(1, NoReceipts).id = 1
      /\ FreshRow(1, NoReceipts).pending = None
  BY FreshRowType, NoReceiptsType
<1>2. TypeOK
  BY <1>1 DEF Init, TypeOK, Free, IdleHook, IdleSync, Finishers, FinisherSteps,
              HookTasks, HookSteps, SyncSteps
<1>3. LockOwnership
  BY <1>1 DEF Init, LockOwnership, Pending, Free
<1>4. HooksHoldEvents
  BY DEF Init, HooksHoldEvents, IdleHook
<1> QED BY <1>2, <1>3, <1>4 DEF IInv

(* A label change keeps GitLab's variables typed. *)
LEMMA ChangeLabelType ==
    ASSUME TypeOK, NEW value \in BOOLEAN, NEW by \in {"user", "bot", "handler"}, ChangeLabel(value, by)
    PROVE  now' \in Nat /\ label' \in BOOLEAN /\ updatedAt' \in Nat /\ sent' \subseteq Events
           /\ mrOpen' = mrOpen /\ comments' = comments
<1> DEFINE kind == IF value THEN "add" ELSE "remove"
           e    == [msg |-> now', kind |-> kind, by |-> by, open |-> mrOpen]
<1>1. now' = now + 1 /\ label' = value /\ updatedAt' = now' /\ sent' = sent \cup {e}
      /\ mrOpen' = mrOpen /\ comments' = comments
  BY DEF ChangeLabel
<1>2. now' \in Nat
  BY <1>1 DEF TypeOK
<1>3. kind \in {"add", "remove", "merge"}
  OBVIOUS
<1>4. e \in Events
  BY <1>2, <1>3, EventType DEF TypeOK
<1>5. sent' \subseteq Events
  BY <1>1, <1>4, Zenon DEF TypeOK
<1> QED BY <1>1, <1>2, <1>5

(* A user's label change leaves the row and the lock alone. *)
LEMMA UserTogglesStep == IInv /\ UserToggles => IInv'
<1> SUFFICES ASSUME IInv, UserToggles PROVE IInv'
  OBVIOUS
<1>1. now' \in Nat /\ label' \in BOOLEAN /\ updatedAt' \in Nat /\ sent' \subseteq Events
      /\ mrOpen' = mrOpen /\ comments' = comments
  <2>1. ChangeLabel(~label, "user") BY DEF UserToggles
  <2>2. (~label) \in BOOLEAN OBVIOUS
  <2> QED BY <2>1, <2>2, ChangeLabelType, Zenon DEF IInv
<1> QED BY <1>1 DEF UserToggles, IInv, TypeOK, LockOwnership, HooksHoldEvents, Pending, durable, volatile

(* A decision of the processor only adds a request. *)
LEMMA DecideStep == ASSUME IInv, NEW outcome \in Outcomes, Decide(outcome) PROVE IInv'
<1> DEFINE q == [id |-> row.id, outcome |-> outcome, at |-> now', cleanup |-> TRUE, by |-> "processor"]
           e == [msg |-> now', kind |-> "merge", by |-> "bot", open |-> FALSE]
<1>1. now' \in Nat /\ row.id \in Nat
  BY DEF Decide, Active, IInv, TypeOK, Rows
<1>2. q \in Requests
  BY <1>1, RequestType, CompletionConstants
<1>3. requests' \subseteq Requests
  <2>1. requests' = requests \cup {q} BY DEF Decide
  <2> QED BY <2>1, <1>2, Zenon DEF IInv, TypeOK
<1>4. e \in Events
  BY <1>1, EventType
<1>5. /\ mrOpen' \in BOOLEAN /\ updatedAt' \in Nat /\ sent' \subseteq Events
      /\ label' = label /\ comments' = comments
  <2>1. CASE outcome = "merged" /\ mrOpen
    <3>1. mrOpen' = FALSE /\ updatedAt' = now' /\ sent' = sent \cup {e} /\ label' = label /\ comments' = comments
      BY <2>1 DEF Decide
    <3> QED BY <3>1, <1>1, <1>4, Zenon DEF IInv, TypeOK
  <2>2. CASE ~(outcome = "merged" /\ mrOpen)
    BY <2>2, Zenon DEF Decide, IInv, TypeOK, gitlab
  <2> QED BY <2>1, <2>2
<1> QED BY <1>1, <1>3, <1>5 DEF Decide, IInv, TypeOK, LockOwnership, HooksHoldEvents, Pending, durable

(* _finish resumes where the payload's progress says, never further. *)
LEMMA ResumeAtFacts ==
    ASSUME NEW p \in Payloads, NEW id \in Nat, Finish(id, p)
    PROVE  /\ fin' \in Finishers /\ fin'.pc # "idle" /\ fin'.id = id /\ fin'.payload = p
           /\ fin'.pc # "comment" => p.commentSent
           /\ fin'.pc \notin {"comment", "clean"} => (p.cleanup => p.labelsRemoved)
BY PayloadFields DEF Finish, ResumeAt, CleanupOrReread, Finishers, FinisherSteps

(* recover() takes the free lock with the payload it read from the row. *)
LEMMA RecoverStep == IInv /\ Recover => IInv'
<1> SUFFICES ASSUME IInv, Recover PROVE IInv'
  OBVIOUS
<1>1. row \in Rows /\ row.id \in Nat /\ row.pending \in Payloads
  BY DEF IInv, TypeOK, Recover, Pending, Rows
<1>2. /\ fin' \in Finishers /\ fin'.pc # "idle" /\ fin'.id = row.id /\ fin'.payload = row.pending
      /\ fin'.pc # "comment" => row.pending.commentSent
      /\ fin'.pc \notin {"comment", "clean"} => (row.pending.cleanup => row.pending.labelsRemoved)
  BY <1>1, ResumeAtFacts DEF Recover
<1>3. TypeOK'
  BY <1>2 DEF Recover, IInv, TypeOK, durable, gitlab
<1>4. LockOwnership'
  BY <1>1, <1>2 DEF Recover, IInv, LockOwnership, Pending, Agrees, durable, gitlab
<1>5. HooksHoldEvents'
  BY DEF Recover, IInv, HooksHoldEvents
<1> QED BY <1>3, <1>4, <1>5 DEF IInv

(* prepare_completion takes the free lock with the payload it froze or found. *)
LEMMA PrepareStep == ASSUME IInv, NEW q \in requests, Prepare(q) PROVE IInv'
<1>1. q \in Requests /\ q.id \in Nat
  BY DEF IInv, TypeOK, Requests
<1>2. requests' \subseteq Requests /\ history' = history /\ nextId' = nextId /\ now' = now
      /\ label' = label /\ mrOpen' = mrOpen /\ updatedAt' = updatedAt /\ sent' = sent
      /\ comments' = comments /\ sync' = sync /\ crashes' = crashes /\ fin.pc = "idle"
  BY DEF Prepare, gitlab, IInv, TypeOK
<1>3. hooks' \in [Hooks -> HookTasks] /\ HooksHoldEvents'
  <2>1. hooks' = [h \in Hooks |-> IF q.by = h THEN IdleHook ELSE hooks[h]]
    BY DEF Prepare
  <2>2. IdleHook \in HookTasks /\ IdleHook.pc = "idle"
    BY DEF IdleHook, HookTasks, HookSteps
  <2> QED BY <2>1, <2>2 DEF IInv, TypeOK, HooksHoldEvents
<1>4. CASE row = None \/ row.id # q.id
  <2>1. row' = row /\ fin' = fin
    BY <1>4, Zenon DEF Prepare
  <2> QED BY <2>1, <1>2, <1>3 DEF IInv, TypeOK, LockOwnership, Pending
<1>5. CASE row # None /\ row.id = q.id /\ row.pending # None
  <2>1. row' = row /\ Finish(row.id, row.pending)
    BY <1>5, Zenon DEF Prepare
  <2>2. row \in Rows /\ row.id \in Nat /\ row.pending \in Payloads
    BY <1>5 DEF IInv, TypeOK, Rows
  <2>3. /\ fin' \in Finishers /\ fin'.pc # "idle" /\ fin'.id = row.id /\ fin'.payload = row.pending
        /\ fin'.pc # "comment" => row.pending.commentSent
        /\ fin'.pc \notin {"comment", "clean"} => (row.pending.cleanup => row.pending.labelsRemoved)
    BY <2>1, <2>2, ResumeAtFacts
  <2>4. TypeOK'
    BY <2>1, <2>3, <1>2, <1>3 DEF IInv, TypeOK
  <2>5. LockOwnership'
    BY <2>1, <2>2, <2>3, <1>2, <1>5 DEF IInv, LockOwnership, Pending, Agrees
  <2> QED BY <2>4, <2>5, <1>3 DEF IInv
<1>6. CASE row # None /\ row.id = q.id /\ row.pending = None
  <2> DEFINE p == FrozenPayload(q, row.intent)
  <2>1. row' = [row EXCEPT !.pending = p, !.status = q.outcome,
                           !.intent = Transferred(row.intent, q.at)] /\ Finish(row.id, p)
    BY <1>6, Zenon DEF Prepare
  <2>2. row \in Rows /\ row.id \in Nat /\ row.intent \in Intents(Nat, Nat) \cup {None}
    BY <1>6 DEF IInv, TypeOK, Rows
  <2>3. p \in Payloads /\ p.commentSent = FALSE
    BY <1>1, <2>2, FrozenPayloadType
  <2>4. Transferred(row.intent, q.at) \in Intents(Nat, Nat) \cup {None}
    BY <2>2 DEF Transferred
  <2>5. row' \in Rows /\ row'.id = row.id /\ row'.pending = p
    <3> HIDE DEF p
    <3> QED BY <2>1, <2>2, <2>3, <2>4, <1>1 DEF Rows, Requests
  <2>6. /\ fin' \in Finishers /\ fin'.pc # "idle" /\ fin'.id = row.id /\ fin'.payload = p
        /\ fin'.pc # "comment" => p.commentSent
        /\ fin'.pc \notin {"comment", "clean"} => (p.cleanup => p.labelsRemoved)
    BY <2>1, <2>2, <2>3, ResumeAtFacts
  <2> HIDE DEF p
  <2>7. TypeOK'
    BY <2>5, <2>6, <1>2, <1>3 DEF IInv, TypeOK
  <2>8. LockOwnership'
    BY <2>2, <2>3, <2>5, <2>6, <1>2, <1>6, NoneIsNoRecord DEF IInv, LockOwnership, Pending, Agrees
  <2> QED BY <2>7, <2>8, <1>3 DEF IInv
<1> QED BY <1>4, <1>5, <1>6

(* The holder of the lock owns the row (LockOwnership, with the types). *)
LEMMA Owner ==
    ASSUME IInv, fin.pc # "idle"
    PROVE  /\ row \in Rows /\ row # None /\ row.id \in Nat /\ row.id = fin.id
           /\ row.pending \in Payloads /\ row.pending # None
           /\ fin.payload \in Payloads
           /\ fin \in Finishers /\ Pending
BY DEF IInv, TypeOK, LockOwnership, Pending, Rows, Finishers

(* A free lock is the idle step. *)
LEMMA FreeType == Free \in Finishers /\ Free.pc = "idle"
BY DEF Free, Finishers, FinisherSteps

(* The lock is released and nothing else the invariant reads changes. *)
LEMMA ReleaseStep ==
    ASSUME IInv, Release, row' = row, nextId' = nextId, comments \subseteq comments', TypeOK',
           HooksHoldEvents'
    PROVE  IInv'
BY FreeType DEF Release, IInv, LockOwnership, Pending

(* The POST adds to the comments before the payload may claim it. *)
LEMMA PostCommentStep == ASSUME IInv, NEW lost \in BOOLEAN, PostComment(lost) PROVE IInv'
<1>1. fin.pc = "comment" /\ fin.pc # "idle"
  BY DEF PostComment, FinAt
<1>2. /\ row \in Rows /\ row # None /\ row.id \in Nat /\ row.id = fin.id
      /\ row.pending \in Payloads /\ row.pending # None
      /\ fin.payload \in Payloads
      /\ fin \in Finishers /\ Pending
  BY <1>1, Owner
<1>3. /\ comments' = comments \cup {fin.id} /\ row' = row /\ nextId' = nextId /\ history' = history
      /\ label' = label /\ mrOpen' = mrOpen /\ updatedAt' = updatedAt /\ sent' = sent /\ now' = now
      /\ requests' = requests /\ hooks' = hooks /\ sync' = sync /\ crashes' = crashes
  BY DEF PostComment, durable
<1>4. comments' \subseteq Nat
  BY <1>2, <1>3 DEF IInv, TypeOK
<1>5. HooksHoldEvents'
  BY <1>3 DEF IInv, HooksHoldEvents
<1>6. CASE lost
  <2>1. Release BY <1>6 DEF PostComment
  <2>2. TypeOK' BY <2>1, <1>3, <1>4, FreeType DEF Release, IInv, TypeOK
  <2> QED BY <2>1, <2>2, <1>3, <1>5, ReleaseStep
<1>7. CASE ~lost
  <2> DEFINE p == [fin.payload EXCEPT !.commentSent = TRUE]
  <2>1. p \in Payloads /\ Agrees(p, fin.payload) /\ p.commentSent = TRUE
    BY <1>2, CommentDone
  <2>2. fin' = [fin EXCEPT !.pc = "saveComment", !.payload.commentSent = TRUE]
    BY <1>7 DEF PostComment
  <2>3. fin' = [fin EXCEPT !.pc = "saveComment", !.payload = p]
    BY <2>2
  <2> HIDE DEF p
  <2>4. fin' \in Finishers /\ fin'.pc = "saveComment" /\ fin'.id = fin.id /\ fin'.payload = p
    BY <2>1, <2>3, <1>2 DEF Finishers, FinisherSteps
  <2>5. TypeOK'
    BY <2>4, <1>3, <1>4 DEF IInv, TypeOK
  <2>6. LockOwnership'
    BY <2>1, <2>4, <1>1, <1>2, <1>3, NoneIsNoRecord DEF IInv, LockOwnership, Pending, Agrees
  <2> QED BY <2>5, <2>6, <1>5 DEF IInv
<1> QED BY <1>6, <1>7

(* save_completion_progress writes the holder's payload into the row it owns. *)
LEMMA SaveProgressRow ==
    ASSUME IInv, fin.pc # "idle", NEW p \in Payloads, SaveProgress(p)
    PROVE  row' \in Rows /\ row' # None /\ row'.id = row.id /\ row'.pending = p /\ row'.intent = row.intent
<1>1. row \in Rows /\ Pending /\ row.id = fin.id
  BY Owner
<1>2. row' = [row EXCEPT !.pending = p]
  BY <1>1 DEF SaveProgress
<1> QED BY <1>1, <1>2, RowUpdates, NoneIsNoRecord

(* Saving comment_sent brings the row level with the holder. *)
LEMMA SaveCommentStep == ASSUME IInv, SaveComment PROVE IInv'
<1>1. fin.pc = "saveComment" /\ fin.pc # "idle"
  BY DEF SaveComment, FinAt
<1>2. /\ row \in Rows /\ row # None /\ row.id \in Nat /\ row.id = fin.id
      /\ row.pending \in Payloads /\ row.pending # None
      /\ fin.payload \in Payloads
      /\ fin \in Finishers /\ Pending
  BY <1>1, Owner
<1>3. row' \in Rows /\ row' # None /\ row'.id = row.id /\ row'.pending = fin.payload
  BY <1>1, <1>2, SaveProgressRow DEF SaveComment
<1>4. /\ nextId' = nextId /\ history' = history /\ comments' = comments
      /\ label' = label /\ mrOpen' = mrOpen /\ updatedAt' = updatedAt /\ sent' = sent /\ now' = now
      /\ requests' = requests /\ hooks' = hooks /\ sync' = sync /\ crashes' = crashes
  BY DEF SaveComment, gitlab
<1> DEFINE pc == CleanupOrReread(fin.payload)
<1>5. /\ pc \in {"clean", "reread"}
      /\ pc = "reread" => (fin.payload.cleanup => fin.payload.labelsRemoved)
  BY DEF CleanupOrReread
<1>6. fin' = [fin EXCEPT !.pc = pc]
  BY DEF SaveComment, FinTo
<1> HIDE DEF pc
<1>7. fin' \in Finishers /\ fin'.pc = pc /\ fin'.id = fin.id /\ fin'.payload = fin.payload
  BY <1>2, <1>5, <1>6 DEF Finishers, FinisherSteps
<1>8. TypeOK'
  BY <1>3, <1>4, <1>7 DEF IInv, TypeOK
<1>9. LockOwnership'
  BY <1>1, <1>2, <1>3, <1>4, <1>5, <1>7 DEF IInv, LockOwnership, Pending, Agrees
<1>10. HooksHoldEvents'
  BY <1>4 DEF IInv, HooksHoldEvents
<1> QED BY <1>8, <1>9, <1>10 DEF IInv

(* Saving an acknowledged operation brings the row level with the holder. *)
LEMMA SaveMutationStep == ASSUME IInv, SaveMutation PROVE IInv'
<1>1. fin.pc \in {"saveClean", "saveApply"} /\ fin.pc # "idle"
  BY DEF SaveMutation
<1>2. /\ row \in Rows /\ row # None /\ row.id \in Nat /\ row.id = fin.id
      /\ row.pending \in Payloads /\ row.pending # None
      /\ fin.payload \in Payloads
      /\ fin \in Finishers /\ Pending
  BY <1>1, Owner
<1>3. row' \in Rows /\ row' # None /\ row'.id = row.id /\ row'.pending = fin.payload
  BY <1>1, <1>2, SaveProgressRow DEF SaveMutation
<1>4. /\ nextId' = nextId /\ history' = history /\ comments' = comments
      /\ label' = label /\ mrOpen' = mrOpen /\ updatedAt' = updatedAt /\ sent' = sent /\ now' = now
      /\ requests' = requests /\ hooks' = hooks /\ sync' = sync /\ crashes' = crashes
  BY DEF SaveMutation, gitlab
<1> DEFINE pc == IF FinAt("saveClean") THEN "reread" ELSE "finalize"
<1>5. pc \in {"reread", "finalize"}
  OBVIOUS
<1>6. fin' = [fin EXCEPT !.pc = pc]
  BY DEF SaveMutation, FinTo
<1> HIDE DEF pc
<1>7. fin' \in Finishers /\ fin'.pc = pc /\ fin'.id = fin.id /\ fin'.payload = fin.payload
  BY <1>2, <1>5, <1>6 DEF Finishers, FinisherSteps
<1>8. TypeOK'
  BY <1>3, <1>4, <1>7 DEF IInv, TypeOK
<1>9. LockOwnership'
  BY <1>1, <1>2, <1>3, <1>4, <1>5, <1>7 DEF IInv, LockOwnership, Pending, Agrees
<1>10. HooksHoldEvents'
  BY <1>4 DEF IInv, HooksHoldEvents
<1> QED BY <1>8, <1>9, <1>10 DEF IInv

(* A label operation adds or removes. *)
LEMMA MutationType == Mutation \in {"add", "remove"}
BY DEF Mutation, RequeueMutation

(* An operation goes on record before its PUT; the progress is unchanged. *)
LEMMA BeginMutationStep == ASSUME IInv, BeginMutation PROVE IInv'
<1> DEFINE p  == [fin.payload EXCEPT !.started = @ \cup {Mutation}, !.open = @ \cup {Mutation}]
           pc == IF FinAt("clean") THEN "cleanPut" ELSE "applyPut"
<1>1. fin.pc \in {"clean", "apply"} /\ fin.pc # "idle"
  BY DEF BeginMutation
<1>2. /\ row \in Rows /\ row # None /\ row.id \in Nat /\ row.id = fin.id
      /\ row.pending \in Payloads /\ row.pending # None
      /\ fin.payload \in Payloads
      /\ fin \in Finishers /\ Pending
  BY <1>1, Owner
<1>3. /\ p \in Payloads
      /\ p.outcome = fin.payload.outcome /\ p.at = fin.payload.at /\ p.cleanup = fin.payload.cleanup
      /\ p.commentSent = fin.payload.commentSent /\ p.labelsRemoved = fin.payload.labelsRemoved
  BY <1>2, MutationType, MutationBegun
<1>4. SaveProgress(p) /\ fin' = [fin EXCEPT !.payload = p, !.pc = pc]
  BY DEF BeginMutation
<1>5. row' \in Rows /\ row' # None /\ row'.id = row.id /\ row'.pending = p
  <2> HIDE DEF p
  <2> QED BY <1>1, <1>3, <1>4, SaveProgressRow
<1>6. /\ nextId' = nextId /\ history' = history /\ comments' = comments
      /\ label' = label /\ mrOpen' = mrOpen /\ updatedAt' = updatedAt /\ sent' = sent /\ now' = now
      /\ requests' = requests /\ hooks' = hooks /\ sync' = sync /\ crashes' = crashes
  BY DEF BeginMutation, gitlab
<1>7. pc \in {"cleanPut", "applyPut"} /\ (pc = "applyPut" => fin.pc = "apply")
  BY <1>1 DEF FinAt
<1>8. fin' \in Finishers /\ fin'.pc = pc /\ fin'.id = fin.id /\ fin'.payload = p
  <2> HIDE DEF p, pc
  <2> QED BY <1>2, <1>3, <1>4, <1>7 DEF Finishers, FinisherSteps
<1> HIDE DEF p, pc
<1>9. TypeOK'
  BY <1>5, <1>6, <1>8 DEF IInv, TypeOK
<1>10. LockOwnership'
  BY <1>1, <1>2, <1>3, <1>5, <1>6, <1>7, <1>8, NoneIsNoRecord DEF IInv, LockOwnership, Pending, Agrees
<1>11. HooksHoldEvents'
  BY <1>6 DEF IInv, HooksHoldEvents
<1> QED BY <1>9, <1>10, <1>11 DEF IInv

(* The PUT adds progress in memory, or is lost together with the lock. *)
LEMMA PutLabelStep == ASSUME IInv, NEW lost \in BOOLEAN, PutLabel(lost) PROVE IInv'
<1> DEFINE changed == label # (Mutation = "add")
           p  == [fin.payload EXCEPT
                    !.open = @ \ {Mutation},
                    !.labelsRemoved = @ \/ FinAt("cleanPut"),
                    !.receipts = Recorded(@, Mutation, Answered(changed))]
           pc == IF FinAt("cleanPut") THEN "saveClean" ELSE "saveApply"
<1>1. fin.pc \in {"cleanPut", "applyPut"} /\ fin.pc # "idle"
  BY DEF PutLabel
<1>2. /\ row \in Rows /\ row # None /\ row.id \in Nat /\ row.id = fin.id
      /\ row.pending \in Payloads /\ row.pending # None
      /\ fin.payload \in Payloads
      /\ fin \in Finishers /\ Pending
  BY <1>1, Owner
<1>3. /\ row' = row /\ nextId' = nextId /\ history' = history
      /\ requests' = requests /\ hooks' = hooks /\ sync' = sync /\ crashes' = crashes
  BY DEF PutLabel, durable
<1>4. /\ now' \in Nat /\ label' \in BOOLEAN /\ updatedAt' \in Nat /\ sent' \subseteq Events
      /\ mrOpen' = mrOpen /\ comments' = comments
  <2>1. CASE changed
    <3>1. ChangeLabel(Mutation = "add", "bot") BY <2>1 DEF PutLabel
    <3>2. (Mutation = "add") \in BOOLEAN OBVIOUS
    <3> QED BY <3>1, <3>2, ChangeLabelType, Zenon DEF IInv
  <2>2. CASE ~changed
    <3>1. UNCHANGED <<gitlab, now>> BY <2>2 DEF PutLabel
    <3> QED BY <3>1 DEF gitlab, IInv, TypeOK
  <2> QED BY <2>1, <2>2
<1>5. HooksHoldEvents'
  BY <1>3 DEF IInv, HooksHoldEvents
<1>6. CASE lost
  <2>1. Release BY <1>6 DEF PutLabel
  <2>2. TypeOK' BY <2>1, <1>3, <1>4, FreeType DEF Release, IInv, TypeOK
  <2> QED BY <2>1, <2>2, <1>3, <1>4, <1>5, ReleaseStep
<1>7. CASE ~lost
  <2>1. Answered(changed) \in SUBSET Nat
    BY DEF Answered, IInv, TypeOK
  <2>2. FinAt("cleanPut") \in BOOLEAN
    BY DEF FinAt
  <2>3. /\ p \in Payloads
        /\ p.outcome = fin.payload.outcome /\ p.at = fin.payload.at
        /\ p.cleanup = fin.payload.cleanup /\ p.commentSent = fin.payload.commentSent
        /\ p.labelsRemoved = (fin.payload.labelsRemoved \/ FinAt("cleanPut"))
    <3> DEFINE done     == FinAt("cleanPut")
               instants == Answered(changed)
               n        == [fin.payload EXCEPT
                              !.open = @ \ {Mutation}, !.labelsRemoved = @ \/ done,
                              !.receipts = Recorded(@, Mutation, instants)]
    <3>1. done \in BOOLEAN /\ instants \in SUBSET Nat
      BY <2>1, <2>2
    <3>2. p = n
      OBVIOUS
    <3> HIDE DEF done, instants
    <3>3. /\ n \in Payloads
          /\ n.outcome = fin.payload.outcome /\ n.at = fin.payload.at
          /\ n.cleanup = fin.payload.cleanup /\ n.commentSent = fin.payload.commentSent
          /\ n.labelsRemoved = (fin.payload.labelsRemoved \/ done)
      BY <3>1, <1>2, MutationType DEF Payloads, Receipts, Recorded
    <3> HIDE DEF n, p
    <3> QED BY <3>2, <3>3 DEF done
  <2>4. fin' = [fin EXCEPT !.payload = p, !.pc = pc]
    BY <1>7 DEF PutLabel
  <2>5. pc \in {"saveClean", "saveApply"} /\ (pc = "saveApply" => fin.pc = "applyPut")
        /\ (pc = "saveClean" => FinAt("cleanPut"))
    BY <1>1 DEF FinAt
  <2>6. fin' \in Finishers /\ fin'.pc = pc /\ fin'.id = fin.id /\ fin'.payload = p
    <3> HIDE DEF p, pc
    <3> QED BY <1>2, <2>3, <2>4, <2>5 DEF Finishers, FinisherSteps
  <2> HIDE DEF p, pc
  <2>7. TypeOK'
    BY <2>6, <1>3, <1>4 DEF IInv, TypeOK
  <2>8. LockOwnership'
    BY <1>1, <1>2, <1>3, <1>4, <2>3, <2>5, <2>6, NoneIsNoRecord
       DEF IInv, LockOwnership, Pending, Agrees
  <2> QED BY <2>7, <2>8, <1>5 DEF IInv
<1> QED BY <1>6, <1>7

(* Rereading the row changes what the holder remembers of the request only. *)
LEMMA RereadStep == ASSUME IInv, Reread PROVE IInv'
<1>1. fin.pc = "reread" /\ fin.pc # "idle"
  BY DEF Reread, FinAt
<1>2. /\ row \in Rows /\ row # None /\ row.id = fin.id
      /\ fin.payload \in Payloads /\ fin \in Finishers
  BY <1>1, Owner
<1>3. /\ row' = row /\ nextId' = nextId /\ history' = history /\ comments' = comments
      /\ label' = label /\ mrOpen' = mrOpen /\ updatedAt' = updatedAt /\ sent' = sent /\ now' = now
      /\ requests' = requests /\ hooks' = hooks /\ sync' = sync /\ crashes' = crashes
  BY DEF Reread, durable, gitlab
<1>4. HooksHoldEvents'
  BY <1>3 DEF IInv, HooksHoldEvents
<1>5. CASE Release
  <2>1. TypeOK' BY <1>5, <1>3, FreeType DEF Release, IInv, TypeOK
  <2> QED BY <1>5, <2>1, <1>3, <1>4, ReleaseStep
<1>6. CASE ~Release
  <2>1. \/ fin' = [fin EXCEPT !.pc = "finalize"]
        \/ fin' = [fin EXCEPT !.pc = "apply", !.intent = row.intent] /\ row.intent # None
    BY <1>6, <1>2, Zenon DEF Reread, FinTo
  <2>2. row.intent \in Intents(Nat, Nat) \cup {None}
    BY <1>2 DEF Rows
  <2>3. /\ fin' \in Finishers /\ fin'.pc \in {"finalize", "apply"} /\ fin'.id = fin.id
        /\ fin'.payload = fin.payload
    BY <2>1, <2>2, <1>2 DEF Finishers, FinisherSteps
  <2>4. TypeOK'
    BY <2>3, <1>3 DEF IInv, TypeOK
  <2>5. LockOwnership'
    BY <2>3, <1>1, <1>2, <1>3 DEF IInv, LockOwnership, Pending
  <2> QED BY <2>4, <2>5, <1>4 DEF IInv
<1> QED BY <1>5, <1>6

(* A failing finisher releases the lock and leaves the row as saved. *)
LEMMA FinisherFailsStep == ASSUME IInv, FinisherFails PROVE IInv'
<1>1. /\ row' = row /\ nextId' = nextId /\ history' = history /\ comments' = comments
      /\ label' = label /\ mrOpen' = mrOpen /\ updatedAt' = updatedAt /\ sent' = sent /\ now' = now
      /\ requests' = requests /\ hooks' = hooks /\ sync' = sync /\ crashes' = crashes /\ Release
  BY DEF FinisherFails, durable, gitlab
<1>2. HooksHoldEvents'
  BY <1>1 DEF IInv, HooksHoldEvents
<1>3. TypeOK'
  BY <1>1, FreeType DEF Release, IInv, TypeOK
<1> QED BY <1>1, <1>2, <1>3, ReleaseStep

(* Archiving adds at most one archived lifecycle. *)
LEMMA ArchiveType ==
    ASSUME TypeOK, NEW id \in Nat, NEW outcome \in {"merged", "failed", "removed"}, NEW at \in Nat,
           Archive(id, outcome, at)
    PROVE  history' \subseteq Archived
BY DEF Archive, Archived, TypeOK

(* finalize_completion leaves no row, or a fresh one with the next id. *)
LEMMA TransferType ==
    ASSUME NEW i \in Intents(Nat, Nat) \cup {None}, NEW p \in Payloads, nextId \in Nat,
           Transfer(i, p)
    PROVE  \/ row' = None /\ nextId' = nextId
           \/ /\ row' \in Rows /\ row'.pending = None /\ row'.id = nextId
              /\ nextId' = nextId + 1
<1> DEFINE r == [p.receipts EXCEPT !.admissions = @ \cup AdmissionReceipts(i)]
<1>1. CASE i # None /\ ~RequeueIsCancelled(i, p.receipts.instants)
  <2>1. row' = FreshRow(nextId, r) /\ nextId' = nextId + 1
    BY <1>1 DEF Transfer
  <2>2. AdmissionReceipts(i) \subseteq Nat
    BY <1>1 DEF AdmissionReceipts, Intents
  <2>3. r \in Receipts
    BY <2>2 DEF Payloads, Receipts
  <2> HIDE DEF r
  <2> QED BY <2>1, <2>3, FreshRowType
<1>2. CASE ~(i # None /\ ~RequeueIsCancelled(i, p.receipts.instants))
  BY <1>2 DEF Transfer
<1> QED BY <1>1, <1>2

(* finalize_completion releases the lock together with the row. *)
LEMMA FinalizeStep == ASSUME IInv, Finalize PROVE IInv'
<1>1. fin.pc = "finalize" /\ fin.pc # "idle" /\ Release
  BY DEF Finalize, FinAt
<1>2. /\ row \in Rows /\ row # None /\ row.id \in Nat /\ row.id = fin.id
      /\ fin.payload \in Payloads /\ fin \in Finishers
  BY <1>1, Owner
<1>3. /\ comments' = comments
      /\ label' = label /\ mrOpen' = mrOpen /\ updatedAt' = updatedAt /\ sent' = sent /\ now' = now
      /\ requests' = requests /\ hooks' = hooks /\ sync' = sync /\ crashes' = crashes
  BY DEF Finalize, gitlab
<1>4. HooksHoldEvents'
  BY <1>3 DEF IInv, HooksHoldEvents
<1>5. CASE StillOwned
  <2>1. Archive(row.id, fin.payload.outcome, fin.payload.at) /\ Transfer(fin.intent, fin.payload)
    BY <1>5 DEF Finalize
  <2>2. history' \subseteq Archived
    BY <2>1, <1>2, ArchiveType DEF IInv, Payloads
  <2>3. fin.intent \in Intents(Nat, Nat) \cup {None} /\ nextId \in Nat
    BY <1>2 DEF Finishers, IInv, TypeOK
  <2>4. \/ row' = None /\ nextId' = nextId
        \/ /\ row' \in Rows /\ row'.pending = None /\ row'.id = nextId
           /\ nextId' = nextId + 1
    BY <2>1, <2>3, <1>2, TransferType
  <2>5. TypeOK'
    BY <2>2, <2>3, <2>4, <1>1, <1>3, FreeType DEF Release, IInv, TypeOK
  <2>6. LockOwnership'
    BY <2>3, <2>4, <1>1, FreeType DEF Release, LockOwnership, Pending
  <2> QED BY <2>5, <2>6, <1>4 DEF IInv
<1>6. CASE ~StillOwned
  <2>1. row' = row /\ history' = history /\ nextId' = nextId
    BY <1>6 DEF Finalize, durable
  <2>2. TypeOK' BY <2>1, <1>1, <1>3, FreeType DEF Release, IInv, TypeOK
  <2> QED BY <2>1, <2>2, <1>1, <1>3, <1>4, ReleaseStep
<1> QED BY <1>5, <1>6
-----------------------------------------------------------------------------
(* Webhook handlers.  Most of them change their own task only. *)

(* A handler task is replaced by another well-formed one. *)
LEMMA HookMoves ==
    ASSUME IInv, NEW h \in Hooks, NEW t \in HookTasks, t.pc # "idle" => t.ev # None,
           hooks' = [hooks EXCEPT ![h] = t]
    PROVE  hooks' \in [Hooks -> HookTasks] /\ HooksHoldEvents'
BY DEF IInv, TypeOK, HooksHoldEvents

(* A handler task proceeds to its next step. *)
LEMMA HookToMoves ==
    ASSUME IInv, NEW h \in Hooks, NEW pc \in HookSteps, hooks[h].pc # "idle", HookTo(h, pc)
    PROVE  hooks' \in [Hooks -> HookTasks] /\ HooksHoldEvents'
BY DEF IInv, TypeOK, HooksHoldEvents, HookTo, HookTasks

(* A handler task ends. *)
LEMMA HookDoneMoves ==
    ASSUME IInv, NEW h \in Hooks, HookDone(h)
    PROVE  hooks' \in [Hooks -> HookTasks] /\ HooksHoldEvents'
<1>1. IdleHook \in HookTasks /\ IdleHook.pc = "idle"
  BY DEF IdleHook, HookTasks, HookSteps
<1> QED BY <1>1, HookMoves DEF HookDone

(* A step that changes handler tasks only keeps the invariant. *)
LEMMA HookOnly ==
    ASSUME IInv, hooks' \in [Hooks -> HookTasks] /\ HooksHoldEvents',
           UNCHANGED <<durable, gitlab, now, requests, fin, sync, crashes>>
    PROVE  IInv'
BY DEF IInv, TypeOK, LockOwnership, Pending, durable, gitlab

(* A handler task starts with the webhook it received. *)
LEMMA HookStartsType ==
    ASSUME IInv, NEW h \in Hooks, NEW e \in sent, NEW pc \in HookSteps, NEW allow \in BOOLEAN,
           HookStarts(h, e, pc, allow)
    PROVE  hooks' \in [Hooks -> HookTasks] /\ HooksHoldEvents'
<1> DEFINE t == [pc |-> pc, ev |-> e, id |-> IF row = None THEN 0 ELSE row.id, allow |-> allow]
<1>1. e \in Events /\ e # None
  BY NoneIsNoRecord DEF IInv, TypeOK
<1>2. (IF row = None THEN 0 ELSE row.id) \in Nat
  BY DEF IInv, TypeOK, Rows
<1>3. t \in HookTasks /\ t.ev # None
  BY <1>1, <1>2 DEF HookTasks
<1>4. hooks' = [hooks EXCEPT ![h] = t]
  BY DEF HookStarts
<1> HIDE DEF t
<1> QED BY <1>3, <1>4, HookMoves

(* Receiving a webhook starts at most a handler task. *)
LEMMA ReceiveStep == ASSUME IInv, NEW h \in Hooks, NEW e \in sent, Receive(h, e) PROVE IInv'
<1>1. \/ hooks' = hooks
      \/ \E pc \in HookSteps, allow \in BOOLEAN : HookStarts(h, e, pc, allow)
  BY DEF Receive, HookSteps
<1>2. hooks' \in [Hooks -> HookTasks] /\ HooksHoldEvents'
  <2>1. CASE hooks' = hooks
    BY <2>1 DEF IInv, TypeOK, HooksHoldEvents
  <2>2. CASE \E pc \in HookSteps, allow \in BOOLEAN : HookStarts(h, e, pc, allow)
    BY <2>2, HookStartsType
  <2> QED BY <1>1, <2>1, <2>2
<1> QED BY <1>2, HookOnly DEF Receive

(* defer_requeue and cancel_requeue change the request column only. *)
LEMMA WriteIntentRow ==
    ASSUME IInv, NEW h \in Hooks, WriteIntent(h), Writable(h)
    PROVE  row' \in Rows /\ row' # None /\ row'.id = row.id /\ row'.pending = row.pending
<1> DEFINE e == hooks[h].ev
           i == WriteRequeue(e.msg, Clock(e), Cancelling(e), row.intent)
<1>1. e \in Events /\ e.msg \in Nat
  BY DEF WriteIntent, HookAt, IInv, TypeOK, HooksHoldEvents, HookTasks, Events
<1>2. row \in Rows /\ row # None /\ row.intent \in Intents(Nat, Nat) \cup {None}
  BY DEF Writable, IInv, TypeOK, Rows
<1>3. Clock(e) \in SimpleClocks /\ Cancelling(e) \in BOOLEAN
  BY <1>1, ClockType DEF SimpleClocks, Cancelling
<1>4. i \in Intents(Nat, Nat) \cup {None}
  <2> HIDE DEF e
  <2> QED BY <1>1, <1>2, <1>3, WriteRequeueType
<1>5. row' = [row EXCEPT !.intent = i]
  BY DEF WriteIntent
<1> HIDE DEF i
<1> QED BY <1>2, <1>4, <1>5, RowUpdates, NoneIsNoRecord

(* Writing the request never disturbs the completion that owns the row. *)
LEMMA WriteIntentStep == ASSUME IInv, NEW h \in Hooks, WriteIntent(h) PROVE IInv'
<1>1. hooks[h].pc # "idle" /\ (HookTo(h, "handle") \/ HookDone(h))
  BY DEF WriteIntent, HookAt
<1>2. hooks' \in [Hooks -> HookTasks] /\ HooksHoldEvents'
  BY <1>1, HookToMoves, HookDoneMoves DEF HookSteps
<1>3. /\ history' = history /\ nextId' = nextId /\ comments' = comments
      /\ label' = label /\ mrOpen' = mrOpen /\ updatedAt' = updatedAt /\ sent' = sent /\ now' = now
      /\ requests' = requests /\ fin' = fin /\ sync' = sync /\ crashes' = crashes
  BY DEF WriteIntent, gitlab
<1>4. CASE Writable(h)
  <2>1. row' \in Rows /\ row' # None /\ row'.id = row.id /\ row'.pending = row.pending
    BY <1>4, WriteIntentRow
  <2>2. row # None
    BY <1>4 DEF Writable
  <2>3. TypeOK'
    BY <2>1, <1>2, <1>3 DEF IInv, TypeOK
  <2>4. LockOwnership'
    BY <2>1, <2>2, <1>3 DEF IInv, LockOwnership, Pending
  <2> QED BY <2>3, <2>4, <1>2 DEF IInv
<1>5. CASE ~Writable(h)
  <2>1. row' = row BY <1>5 DEF WriteIntent
  <2> QED BY <2>1, <1>2, <1>3, HookOnly DEF durable, gitlab
<1> QED BY <1>4, <1>5

(* A handler's request for an end is a completion request. *)
LEMMA RequestEndType ==
    ASSUME IInv, Active, NEW h \in Hooks, NEW outcome \in {"merged", "failed", "removed"},
           NEW cleanup \in BOOLEAN, hooks[h].pc # "idle", RequestEnd(h, outcome, cleanup)
    PROVE  requests' \subseteq Requests /\ now' \in Nat
           /\ hooks' \in [Hooks -> HookTasks] /\ HooksHoldEvents'
<1> DEFINE q == [id |-> row.id, outcome |-> outcome, at |-> now', cleanup |-> cleanup, by |-> h]
<1>1. now' \in Nat /\ row.id \in Nat
  BY DEF RequestEnd, IInv, TypeOK, Active, Rows
<1>2. q \in Requests
  BY <1>1, RequestType
<1>3. requests' = requests \cup {q} /\ HookTo(h, "waiting")
  BY DEF RequestEnd
<1>4. requests' \subseteq Requests
  BY <1>2, <1>3, Zenon DEF IInv, TypeOK
<1>5. hooks' \in [Hooks -> HookTasks] /\ HooksHoldEvents'
  BY <1>3, HookToMoves DEF HookSteps
<1> QED BY <1>1, <1>4, <1>5

(* Looking the row up for an enqueue moves the handler only. *)
LEMMA HandleAddStep == ASSUME IInv, NEW h \in Hooks, HandleAdd(h) PROVE IInv'
<1>1. hooks[h].pc # "idle" /\ (HookTo(h, "refresh") \/ HookTo(h, "stale"))
  BY DEF HandleAdd, HookAt
<1>2. hooks' \in [Hooks -> HookTasks] /\ HooksHoldEvents'
  BY <1>1, HookToMoves DEF HookSteps
<1> QED BY <1>2, HookOnly DEF HandleAdd

(* A handler that asks for an end changes no durable state. *)
LEMMA HookEnds ==
    ASSUME IInv, hooks' \in [Hooks -> HookTasks] /\ HooksHoldEvents', requests' \subseteq Requests,
           now' \in Nat, UNCHANGED <<durable, gitlab, fin, sync, crashes>>
    PROVE  IInv'
BY DEF IInv, TypeOK, LockOwnership, Pending, durable, gitlab

(* A removal webhook asks for an end, or goes to the fallback. *)
LEMMA HandleRemoveStep == ASSUME IInv, NEW h \in Hooks, HandleRemove(h) PROVE IInv'
<1>1. hooks[h].pc # "idle" /\ hooks[h] \in HookTasks /\ hooks[h].ev # None
  BY DEF HandleRemove, HookAt, IInv, TypeOK, HooksHoldEvents
<1>2. CASE Active /\ row.pending = None
  <2>1. RequestEnd(h, "removed", FALSE) BY <1>2 DEF HandleRemove
  <2> QED BY <2>1, <1>1, <1>2, RequestEndType, HookEnds DEF HandleRemove
<1>3. CASE ~(Active /\ row.pending = None)
  <2>1. UNCHANGED <<requests, now>>
    BY <1>3 DEF HandleRemove
  <2>2. CASE row # None
    <3>1. hooks' = [hooks EXCEPT ![h].pc = "fallback", ![h].id = row.id] /\ row.id \in Nat
      BY <1>3, <2>2 DEF HandleRemove, IInv, TypeOK, Rows
    <3>2. hooks' \in [Hooks -> HookTasks] /\ HooksHoldEvents'
      BY <1>1, <3>1 DEF IInv, TypeOK, HooksHoldEvents, HookTasks, HookSteps
    <3> QED BY <3>2, <2>1, HookOnly DEF HandleRemove
  <2>3. CASE row = None
    <3>1. HookDone(h) BY <1>3, <2>3 DEF HandleRemove
    <3> QED BY <3>1, <2>1, HookDoneMoves, HookOnly DEF HandleRemove
  <2> QED BY <2>2, <2>3
<1> QED BY <1>2, <1>3

(* A merge webhook asks for an end, or is done. *)
LEMMA HandleMergeStep == ASSUME IInv, NEW h \in Hooks, HandleMerge(h) PROVE IInv'
<1>1. hooks[h].pc # "idle"
  BY DEF HandleMerge, HookAt
<1>2. CASE Active /\ row.pending = None
  <2>1. RequestEnd(h, "merged", TRUE) BY <1>2 DEF HandleMerge
  <2> QED BY <2>1, <1>1, <1>2, RequestEndType, HookEnds DEF HandleMerge
<1>3. CASE ~(Active /\ row.pending = None)
  <2>1. UNCHANGED <<requests, now>> /\ HookDone(h)
    BY <1>3 DEF HandleMerge
  <2> QED BY <2>1, HookDoneMoves, HookOnly DEF HandleMerge
<1> QED BY <1>2, <1>3

(* Acknowledging an admission touches rows no completion owns. *)
LEMMA RefreshMetadataStep == ASSUME IInv, NEW h \in Hooks, RefreshMetadata(h) PROVE IInv'
<1>1. HookDone(h) BY DEF RefreshMetadata
<1>2. hooks' \in [Hooks -> HookTasks] /\ HooksHoldEvents'
  BY <1>1, HookDoneMoves
<1>3. /\ history' = history /\ nextId' = nextId /\ comments' = comments
      /\ label' = label /\ mrOpen' = mrOpen /\ updatedAt' = updatedAt /\ sent' = sent /\ now' = now
      /\ requests' = requests /\ fin' = fin /\ sync' = sync /\ crashes' = crashes
  BY DEF RefreshMetadata, gitlab
<1>4. CASE row' = row
  BY <1>2, <1>3, <1>4, HookOnly DEF durable, gitlab
<1>5. CASE row' # row
  <2> DEFINE i == [row.intent EXCEPT !.applied = now]
  <2>1. row # None /\ row.intent # None /\ row' = [row EXCEPT !.intent.applied = now]
    BY <1>5, Zenon DEF RefreshMetadata, Active, Uncancelled
  <2>2. row \in Rows /\ row.intent \in Intents(Nat, Nat) /\ now \in Nat
    BY <2>1 DEF IInv, TypeOK, Rows
  <2>3. i \in Intents(Nat, Nat)
    BY <2>2 DEF Intents
  <2>4. row' = [row EXCEPT !.intent = i]
    BY <2>1
  <2> HIDE DEF i
  <2>5. row' \in Rows /\ row' # None /\ row'.id = row.id /\ row'.pending = row.pending
    BY <2>2, <2>3, <2>4, NoneIsNoRecord DEF Rows
  <2>6. TypeOK'
    BY <2>5, <1>2, <1>3 DEF IInv, TypeOK
  <2>7. LockOwnership'
    BY <2>1, <2>5, <1>3 DEF IInv, LockOwnership, Pending
  <2> QED BY <2>6, <2>7, <1>2 DEF IInv
<1> QED BY <1>4, <1>5

(* The staleness check moves the handler only. *)
LEMMA StaleEnqueueStep == ASSUME IInv, NEW h \in Hooks, StaleEnqueue(h) PROVE IInv'
<1>1. hooks[h].pc # "idle" /\ (HookDone(h) \/ HookTo(h, "fetch"))
  BY DEF StaleEnqueue, HookAt
<1>2. hooks' \in [Hooks -> HookTasks] /\ HooksHoldEvents'
  BY <1>1, HookDoneMoves, HookToMoves DEF HookSteps
<1> QED BY <1>2, HookOnly DEF StaleEnqueue

(* Asking GitLab for the merge request moves the handler only. *)
LEMMA FetchMergeRequestStep == ASSUME IInv, NEW h \in Hooks, FetchMergeRequest(h) PROVE IInv'
<1>1. hooks[h].pc # "idle" /\ (HookDone(h) \/ HookTo(h, "add"))
  BY DEF FetchMergeRequest, HookAt
<1>2. hooks' \in [Hooks -> HookTasks] /\ HooksHoldEvents'
  BY <1>1, HookDoneMoves, HookToMoves DEF HookSteps
<1> QED BY <1>2, HookOnly DEF FetchMergeRequest

(* A failing handler ends. *)
LEMMA HookFailsStep == ASSUME IInv, NEW h \in Hooks, HookFails(h) PROVE IInv'
<1>1. hooks' \in [Hooks -> HookTasks] /\ HooksHoldEvents'
  BY HookDoneMoves DEF HookFails
<1> QED BY <1>1, HookOnly DEF HookFails

(* add_to_queue replaces only a row that no completion owns. *)
LEMMA AddToQueueFacts ==
    ASSUME IInv, AddToQueue, UNCHANGED <<gitlab, fin>>
    PROVE  /\ row' \in Rows \cup {None} /\ nextId' \in Nat
           /\ LockOwnership'
<1>1. CASE row = None \/ (row.status # "active" /\ row.pending = None)
  <2>1. row' = FreshRow(nextId, NoReceipts) /\ nextId' = nextId + 1 /\ nextId \in Nat
    BY <1>1, Zenon DEF AddToQueue, IInv, TypeOK
  <2>2. row' \in Rows /\ row'.id = nextId /\ row'.pending = None
    BY <2>1, FreshRowType, NoReceiptsType
  <2>3. fin.pc = "idle"
    BY <1>1 DEF IInv, LockOwnership, Pending
  <2> QED BY <2>1, <2>2, <2>3 DEF LockOwnership, Pending
<1>2. CASE ~(row = None \/ (row.status # "active" /\ row.pending = None))
  <2>1. row' = row /\ nextId' = nextId
    BY <1>2 DEF AddToQueue
  <2> QED BY <2>1 DEF IInv, TypeOK, LockOwnership, Pending, gitlab
<1> QED BY <1>1, <1>2

(* Adding the fetched merge request respects a completion's row. *)
LEMMA AddFetchedStep == ASSUME IInv, NEW h \in Hooks, AddFetched(h) PROVE IInv'
<1>1. hooks' \in [Hooks -> HookTasks] /\ HooksHoldEvents'
  BY HookDoneMoves DEF AddFetched
<1>2. row' \in Rows \cup {None} /\ nextId' \in Nat /\ LockOwnership'
  BY AddToQueueFacts DEF AddFetched
<1>3. TypeOK'
  BY <1>1, <1>2 DEF AddFetched, IInv, TypeOK, gitlab
<1> QED BY <1>1, <1>2, <1>3 DEF IInv

(* complete_mr deletes a row only when no completion owns it. *)
LEMMA CompleteDirectlyStep == ASSUME IInv, NEW h \in Hooks, CompleteDirectly(h) PROVE IInv'
<1>1. hooks[h].pc # "idle" /\ (HookDone(h) \/ HookTo(h, "unlabel"))
  BY DEF CompleteDirectly, HookAt
<1>2. hooks' \in [Hooks -> HookTasks] /\ HooksHoldEvents'
  BY <1>1, HookDoneMoves, HookToMoves DEF HookSteps
<1>3. /\ nextId' = nextId /\ comments' = comments
      /\ label' = label /\ mrOpen' = mrOpen /\ updatedAt' = updatedAt /\ sent' = sent /\ now' = now
      /\ requests' = requests /\ fin' = fin /\ sync' = sync /\ crashes' = crashes
  BY DEF CompleteDirectly, gitlab
<1>4. CASE row # None /\ row.id = hooks[h].id /\ row.pending = None
  <2>1. row' = None /\ Archive(row.id, "removed", now)
    BY <1>4 DEF CompleteDirectly
  <2>2. row.id \in Nat /\ now \in Nat
    BY <1>4 DEF IInv, TypeOK, Rows
  <2>3. history' \subseteq Archived
    BY <2>1, <2>2, ArchiveType DEF IInv
  <2>4. fin.pc = "idle"
    BY <1>4 DEF IInv, LockOwnership, Pending
  <2>5. TypeOK'
    BY <2>1, <2>3, <1>2, <1>3 DEF IInv, TypeOK
  <2>6. LockOwnership'
    BY <2>1, <2>4, <1>3 DEF LockOwnership, Pending
  <2> QED BY <2>5, <2>6, <1>2 DEF IInv
<1>5. CASE ~(row # None /\ row.id = hooks[h].id /\ row.pending = None)
  <2>1. row' = row /\ history' = history
    BY <1>5 DEF CompleteDirectly
  <2> QED BY <2>1, <1>2, <1>3, HookOnly DEF durable, gitlab
<1> QED BY <1>4, <1>5

(* The best-effort label removal leaves the row alone. *)
LEMMA RemoveQueueLabelStep == ASSUME IInv, NEW h \in Hooks, RemoveQueueLabel(h) PROVE IInv'
<1>1. hooks' \in [Hooks -> HookTasks] /\ HooksHoldEvents'
  BY HookDoneMoves DEF RemoveQueueLabel
<1>2. /\ now' \in Nat /\ label' \in BOOLEAN /\ updatedAt' \in Nat /\ sent' \subseteq Events
      /\ mrOpen' = mrOpen /\ comments' = comments
  <2>1. CASE label
    <3>1. ChangeLabel(FALSE, "handler") BY <2>1 DEF RemoveQueueLabel
    <3>2. FALSE \in BOOLEAN OBVIOUS
    <3> QED BY <3>1, <3>2, ChangeLabelType, Zenon DEF IInv
  <2>2. CASE ~label
    <3>1. UNCHANGED <<gitlab, now>> BY <2>2 DEF RemoveQueueLabel
    <3> QED BY <3>1 DEF gitlab, IInv, TypeOK
  <2> QED BY <2>1, <2>2
<1> QED BY <1>1, <1>2 DEF RemoveQueueLabel, IInv, TypeOK, LockOwnership, Pending, durable

(* No step of a webhook handler breaks the invariant. *)
LEMMA HookStep == ASSUME IInv, NEW h \in Hooks, Hook(h) PROVE IInv'
BY ReceiveStep, WriteIntentStep, HandleAddStep, HandleRemoveStep, HandleMergeStep,
   RefreshMetadataStep, StaleEnqueueStep, FetchMergeRequestStep, AddFetchedStep,
   CompleteDirectlyStep, RemoveQueueLabelStep, HookFailsStep DEF Hook
-----------------------------------------------------------------------------
(* The scheduler's sync and crashes. *)

(* The sync's status write keeps an owned row owned, its other steps move it only. *)
LEMMA SyncStep == ASSUME IInv, Sync PROVE IInv'
<1>1. CASE SyncList
  <2>1. sync' \in [pc : SyncSteps, labelled : BOOLEAN]
    <3>1. (label /\ mrOpen) \in BOOLEAN OBVIOUS
    <3>2. sync' = [pc |-> "compare", labelled |-> label /\ mrOpen] BY <1>1 DEF SyncList
    <3>3. "compare" \in SyncSteps BY DEF SyncSteps
    <3> QED BY <3>1, <3>2, <3>3, Zenon
  <2> QED BY <2>1, <1>1
      DEF SyncList, IInv, TypeOK, LockOwnership, HooksHoldEvents, Pending, durable, gitlab
<1>2. ASSUME sync' \in [pc : SyncSteps, labelled : BOOLEAN],
             UNCHANGED <<durable, gitlab, now, requests, fin, hooks, crashes>>
      PROVE  IInv'
  BY <1>2 DEF IInv, TypeOK, LockOwnership, HooksHoldEvents, Pending, durable, gitlab
<1>3. ASSUME SyncDone \/ SyncTo("check") \/ SyncTo("verify") \/ SyncTo("add") \/ SyncTo("remove")
      PROVE  sync' \in [pc : SyncSteps, labelled : BOOLEAN]
  <2>1. CASE SyncDone
    BY <2>1 DEF SyncDone, IdleSync, SyncSteps
  <2>2. CASE \E pc \in SyncSteps : SyncTo(pc)
    BY <2>2 DEF SyncTo, IInv, TypeOK
  <2>3. SyncDone \/ \E pc \in SyncSteps : SyncTo(pc)
    BY <1>3 DEF SyncSteps
  <2> QED BY <2>1, <2>2, <2>3
<1>4. CASE SyncCompare
  BY <1>2, <1>3, <1>4 DEF SyncCompare
<1>5. CASE SyncCheck
  BY <1>2, <1>3, <1>5 DEF SyncCheck
<1>6. CASE SyncAdd
  <2>1. row' \in Rows \cup {None} /\ nextId' \in Nat /\ LockOwnership'
    BY <1>6, AddToQueueFacts DEF SyncAdd
  <2> QED BY <2>1, <1>3, <1>6 DEF SyncAdd, IInv, TypeOK, HooksHoldEvents, gitlab
<1>7. CASE SyncVerify
  BY <1>2, <1>3, <1>7 DEF SyncVerify
<1>8. CASE SyncRemove
  <2>1. CASE row = None
    BY <2>1, <1>2, <1>3, <1>8 DEF SyncRemove, durable
  <2>2. CASE row # None
    <3>1. row' = [row EXCEPT !.status = "removed"] /\ row \in Rows
      BY <2>2, <1>8 DEF SyncRemove, IInv, TypeOK
    <3>2. row' \in Rows /\ row' # None /\ row'.id = row.id /\ row'.pending = row.pending
      BY <3>1, RowUpdates, NoneIsNoRecord
    <3>3. TypeOK'
      BY <3>2, <1>3, <1>8 DEF SyncRemove, IInv, TypeOK, gitlab
    <3>4. LockOwnership'
      BY <3>2, <2>2, <1>8 DEF SyncRemove, IInv, LockOwnership, Pending, gitlab
    <3> QED BY <3>3, <3>4, <1>8 DEF SyncRemove, IInv, HooksHoldEvents
  <2> QED BY <2>1, <2>2
<1>9. CASE SyncFails
  BY <1>2, <1>3, <1>9 DEF SyncFails
<1> QED BY <1>1, <1>4, <1>5, <1>6, <1>7, <1>8, <1>9 DEF Sync

(* A crash frees the lock; the row keeps the progress that was saved. *)
LEMMA CrashStep == ASSUME IInv, Crash PROVE IInv'
<1>1. hooks' \in [Hooks -> HookTasks] /\ HooksHoldEvents'
  BY DEF Crash, IdleHook, HookTasks, HookSteps, HooksHoldEvents
<1>2. sync' \in [pc : SyncSteps, labelled : BOOLEAN]
  BY DEF Crash, IdleSync, SyncSteps
<1>3. crashes' \in Nat /\ fin' = Free /\ requests' = {}
  BY DEF Crash, IInv, TypeOK
<1> QED BY <1>1, <1>2, <1>3, FreeType
    DEF Crash, IInv, TypeOK, LockOwnership, Pending, durable, gitlab

(* No step of the completion breaks the invariant. *)
LEMMA FinisherStep == ASSUME IInv, Finisher PROVE IInv'
BY PostCommentStep, PutLabelStep, SaveCommentStep, BeginMutationStep, SaveMutationStep,
   RereadStep, FinalizeStep, FinisherFailsStep DEF Finisher

(* Nor does a step that changes nothing. *)
LEMMA StutterStep == ASSUME IInv, UNCHANGED vars PROVE IInv'
BY DEF IInv, TypeOK, LockOwnership, HooksHoldEvents, Pending, vars, durable, gitlab, volatile

(* IInv is inductive. *)
LEMMA NextIInv == IInv /\ [Next]_vars => IInv'
<1> SUFFICES ASSUME IInv, [Next]_vars PROVE IInv'
  OBVIOUS
<1>1. CASE UserToggles BY <1>1, UserTogglesStep
<1>2. CASE \E outcome \in Outcomes : Decide(outcome) BY <1>2, DecideStep
<1>3. CASE \E q \in requests : Prepare(q) BY <1>3, PrepareStep
<1>4. CASE Recover BY <1>4, RecoverStep
<1>5. CASE Finisher BY <1>5, FinisherStep
<1>6. CASE \E h \in Hooks : Hook(h) BY <1>6, HookStep
<1>7. CASE Sync BY <1>7, SyncStep
<1>8. CASE Crash BY <1>8, CrashStep
<1>9. CASE UNCHANGED vars BY <1>9, StutterStep
<1> QED BY <1>1, <1>2, <1>3, <1>4, <1>5, <1>6, <1>7, <1>8, <1>9 DEF Next

-----------------------------------------------------------------------------
(***************************************************************************)
(* The variables hold what the schema and the tasks' types allow, whatever *)
(* the number of handlers, lifecycles, user actions and crashes.           *)
(***************************************************************************)
THEOREM TypeCorrect == Spec => []TypeOK
<1>1. Init => IInv BY InitIInv
<1>2. IInv /\ [Next]_vars => IInv' BY NextIInv
<1>3. IInv => TypeOK BY DEF IInv
<1> QED BY <1>1, <1>2, <1>3, PTL DEF Spec

(***************************************************************************)
(* queue_completion.py: the task that holds the completion lock owns the   *)
(* row until it releases the lock, and its progress is never behind the    *)
(* payload in the row.                                                     *)
(***************************************************************************)
THEOREM CompletionLockOwnsRow == Spec => []LockOwnership
<1>1. Init => IInv BY InitIInv
<1>2. IInv /\ [Next]_vars => IInv' BY NextIInv
<1>3. IInv => LockOwnership BY DEF IInv
<1> QED BY <1>1, <1>2, <1>3, PTL DEF Spec
-----------------------------------------------------------------------------
(* What a step may do to a row that a completion owns: nothing, save its     *)
(* progress or its request, or finalize it.                                  *)

KeepsOutcome ==
    /\ row' # None /\ row'.id = row.id
    /\ row'.pending # None
    /\ row'.pending.outcome = row.pending.outcome
    /\ row'.pending.at = row.pending.at

(* Saving progress does not touch the frozen outcome. *)
LEMMA SavedProgressKeeps ==
    ASSUME IInv, fin.pc # "idle", NEW p \in Payloads, SaveProgress(p),
           p.outcome = fin.payload.outcome, p.at = fin.payload.at
    PROVE  KeepsOutcome
<1>1. row' # None /\ row'.id = row.id /\ row'.pending = p
  BY SaveProgressRow
<1>2. fin.payload.outcome = row.pending.outcome /\ fin.payload.at = row.pending.at
  BY DEF IInv, LockOwnership, Agrees
<1> QED BY <1>1, <1>2, NoneIsNoRecord DEF KeepsOutcome

(* Nor does a step that leaves the row alone. *)
LEMMA SameRowKeeps == ASSUME Pending, row' = row PROVE KeepsOutcome
BY DEF Pending, KeepsOutcome

(* The completion saves progress or finalizes. *)
LEMMA FinisherKeeps ==
    ASSUME IInv, Pending, Finisher
    PROVE  KeepsOutcome \/ (Finalize /\ StillOwned)
<1>1. CASE \E lost \in BOOLEAN : PostComment(lost) \/ PutLabel(lost)
  BY <1>1, SameRowKeeps DEF PostComment, PutLabel, durable
<1>2. CASE SaveComment
  <2>1. fin.pc # "idle" /\ SaveProgress(fin.payload)
    BY <1>2 DEF SaveComment, FinAt
  <2> QED BY <2>1, Owner, SavedProgressKeeps
<1>3. CASE BeginMutation
  <2> DEFINE p == [fin.payload EXCEPT !.started = @ \cup {Mutation}, !.open = @ \cup {Mutation}]
  <2>1. fin.pc # "idle" /\ SaveProgress(p)
    BY <1>3 DEF BeginMutation
  <2>2. p \in Payloads /\ p.outcome = fin.payload.outcome /\ p.at = fin.payload.at
    BY <2>1, Owner, MutationType, MutationBegun
  <2> HIDE DEF p
  <2> QED BY <2>1, <2>2, SavedProgressKeeps
<1>4. CASE SaveMutation
  <2>1. fin.pc # "idle" /\ SaveProgress(fin.payload)
    BY <1>4 DEF SaveMutation
  <2> QED BY <2>1, Owner, SavedProgressKeeps
<1>5. CASE Reread \/ FinisherFails
  BY <1>5, SameRowKeeps DEF Reread, FinisherFails, durable
<1>6. CASE Finalize
  BY <1>6, SameRowKeeps DEF Finalize, durable
<1> QED BY <1>1, <1>2, <1>3, <1>4, <1>5, <1>6 DEF Finisher

(* Webhook handlers change at most the request of an owned row. *)
LEMMA HookKeeps == ASSUME IInv, Pending, NEW h \in Hooks, Hook(h) PROVE KeepsOutcome
<1>1. CASE WriteIntent(h)
  <2>1. CASE Writable(h)
    <3>1. row' # None /\ row'.id = row.id /\ row'.pending = row.pending
      BY <1>1, <2>1, WriteIntentRow
    <3> QED BY <3>1 DEF Pending, KeepsOutcome
  <2>2. CASE ~Writable(h)
    BY <1>1, <2>2, SameRowKeeps DEF WriteIntent
  <2> QED BY <2>1, <2>2
<1>2. CASE RefreshMetadata(h)
  <2>1. row' = row BY <1>2 DEF RefreshMetadata, Pending
  <2> QED BY <2>1, SameRowKeeps
<1>3. CASE AddFetched(h)
  <2>1. row' = row BY <1>3 DEF AddFetched, AddToQueue, Pending
  <2> QED BY <2>1, SameRowKeeps
<1>4. CASE CompleteDirectly(h)
  <2>1. row' = row BY <1>4 DEF CompleteDirectly, Pending
  <2> QED BY <2>1, SameRowKeeps
<1>5. CASE \/ \E e \in sent : Receive(h, e)
           \/ HandleAdd(h) \/ HandleRemove(h) \/ HandleMerge(h) \/ StaleEnqueue(h)
           \/ FetchMergeRequest(h) \/ RemoveQueueLabel(h) \/ HookFails(h)
  <2>1. row' = row
    BY <1>5 DEF Receive, HandleAdd, HandleRemove, HandleMerge, StaleEnqueue, FetchMergeRequest,
                RemoveQueueLabel, HookFails, durable
  <2> QED BY <2>1, SameRowKeeps
<1> QED BY <1>1, <1>2, <1>3, <1>4, <1>5 DEF Hook

(* The sync changes at most the status column of an owned row. *)
LEMMA SyncKeeps == ASSUME IInv, Pending, Sync PROVE KeepsOutcome
<1>1. CASE SyncRemove
  <2>1. row' = [row EXCEPT !.status = "removed"] /\ row \in Rows
    BY <1>1 DEF SyncRemove, Pending, IInv, TypeOK
  <2>2. row' # None /\ row'.id = row.id /\ row'.pending = row.pending
    BY <2>1, RowUpdates, NoneIsNoRecord
  <2> QED BY <2>2 DEF Pending, KeepsOutcome
<1>2. CASE SyncAdd
  <2>1. row' = row BY <1>2 DEF SyncAdd, AddToQueue, Pending
  <2> QED BY <2>1, SameRowKeeps
<1>3. CASE SyncList \/ SyncCompare \/ SyncCheck \/ SyncVerify \/ SyncFails
  <2>1. row' = row
    BY <1>3 DEF SyncList, SyncCompare, SyncCheck, SyncVerify, SyncFails, durable
  <2> QED BY <2>1, SameRowKeeps
<1> QED BY <1>1, <1>2, <1>3 DEF Sync

(* A second ender takes the frozen payload as it is. *)
LEMMA PrepareKeeps == ASSUME IInv, Pending, NEW q \in requests, Prepare(q) PROVE KeepsOutcome
<1>1. row' = row BY DEF Prepare, Pending
<1> QED BY <1>1, SameRowKeeps

(* Together: every step keeps the outcome of an owned row or finalizes it. *)
LEMMA OwnedRowSteps ==
    ASSUME IInv, Pending, [Next]_vars
    PROVE  KeepsOutcome \/ (Finalize /\ StillOwned)
<1>1. CASE UserToggles \/ (\E outcome \in Outcomes : Decide(outcome)) \/ Recover \/ Crash
           \/ UNCHANGED vars
  <2>1. row' = row
    BY <1>1 DEF UserToggles, Decide, Recover, Crash, vars, durable
  <2> QED BY <2>1, SameRowKeeps
<1>2. CASE \E q \in requests : Prepare(q) BY <1>2, PrepareKeeps
<1>3. CASE Finisher BY <1>3, FinisherKeeps
<1>4. CASE \E h \in Hooks : Hook(h) BY <1>4, HookKeeps
<1>5. CASE Sync BY <1>5, SyncKeeps
<1> QED BY <1>1, <1>2, <1>3, <1>4, <1>5 DEF Next

(* The row after a finalize is gone, or it is the next incarnation. *)
LEMMA FinalizedRow ==
    ASSUME IInv, Finalize, StillOwned
    PROVE  /\ fin.pc = "finalize" /\ row.id = fin.id
           /\ row.pending = fin.payload /\ row.intent = fin.intent
           /\ fin.payload \in Payloads
           /\ \/ row' = None
              \/ row' \in Rows /\ row' # None /\ row'.id # row.id
           /\ (row' # None) <=> /\ fin.intent # None
                                /\ ~RequeueIsCancelled(fin.intent, fin.payload.receipts.instants)
<1>1. fin.pc = "finalize" /\ fin.pc # "idle" /\ Transfer(fin.intent, fin.payload)
  BY DEF Finalize, FinAt
<1>2. /\ row.id = fin.id /\ row.pending = fin.payload /\ row.intent = fin.intent
  BY DEF StillOwned
<1>3. /\ fin.intent \in Intents(Nat, Nat) \cup {None} /\ fin.payload \in Payloads
      /\ nextId \in Nat /\ row.id \in Nat /\ row.id < nextId
  BY <1>1, Owner DEF Finishers, IInv, TypeOK, LockOwnership
<1>4. \/ row' = None /\ nextId' = nextId
      \/ /\ row' \in Rows /\ row'.pending = None /\ row'.id = nextId
         /\ nextId' = nextId + 1
  BY <1>1, <1>3, TransferType
<1>5. (nextId' = nextId + 1) <=> /\ fin.intent # None
                                 /\ ~RequeueIsCancelled(fin.intent, fin.payload.receipts.instants)
  <2>1. nextId + 1 # nextId BY <1>3
  <2> QED BY <1>1, <2>1, Zenon DEF Transfer
<1>6. nextId + 1 # nextId /\ row.id # nextId
  BY <1>3
<1> QED BY <1>1, <1>2, <1>3, <1>4, <1>5, <1>6, NoneIsNoRecord

(* So an owned row leaves only through finalize_completion's guarded DELETE. *)
LEMMA OwnedRowFinalizes ==
    ASSUME IInv, Pending, Leaves, [Next]_vars
    PROVE  Finalize /\ StillOwned
<1>1. ~KeepsOutcome BY DEF KeepsOutcome, Leaves
<1> QED BY <1>1, OwnedRowSteps

(* And while it stays, its outcome stays. *)
LEMMA FrozenStep ==
    ASSUME IInv, [Next]_vars, Pending, ~Leaves
    PROVE  KeepsOutcome
<1>1. CASE Finalize /\ StillOwned
  <2>1. row' = None \/ (row' # None /\ row'.id # row.id)
    BY <1>1, FinalizedRow
  <2> QED BY <2>1 DEF Leaves, Pending
<1> QED BY <1>1, OwnedRowSteps

(***************************************************************************)
(* prepare_completion: once one ender froze its outcome no later request,  *)
(* progress write, sync or crash changes it.                               *)
(***************************************************************************)
THEOREM OutcomeIsFrozen == Spec => FrozenOutcome
<1>1. IInv /\ [Next]_vars =>
        (Pending /\ ~Leaves => /\ row'.pending # None
                               /\ row'.pending.outcome = row.pending.outcome
                               /\ row'.pending.at = row.pending.at)
  BY FrozenStep DEF KeepsOutcome
<1>2. Init => IInv BY InitIInv
<1>3. IInv /\ [Next]_vars => IInv' BY NextIInv
<1> QED BY <1>1, <1>2, <1>3, PTL DEF Spec, FrozenOutcome

(***************************************************************************)
(* queue_completion.py: "The durable row owns cleanup until archival".  An *)
(* owned row leaves the queue with its comment posted and its label        *)
(* cleanup acknowledged, however often the completion was interrupted.     *)
(***************************************************************************)
THEOREM OwnedRowsLeaveDone == Spec => OwnedRowLeavesDone
<1>1. IInv /\ [Next]_vars =>
        (Pending /\ Leaves => /\ row.id \in comments
                              /\ ~row.pending.cleanup \/ row.pending.labelsRemoved)
  <2> SUFFICES ASSUME IInv, [Next]_vars, Pending, Leaves
               PROVE  /\ row.id \in comments
                      /\ ~row.pending.cleanup \/ row.pending.labelsRemoved
    OBVIOUS
  <2>1. /\ fin.pc = "finalize" /\ row.id = fin.id /\ row.pending = fin.payload
    BY OwnedRowFinalizes, FinalizedRow
  <2> QED BY <2>1 DEF IInv, LockOwnership
<1>2. Init => IInv BY InitIInv
<1>3. IInv /\ [Next]_vars => IInv' BY NextIInv
<1> QED BY <1>1, <1>2, <1>3, PTL DEF Spec, OwnedRowLeavesDone

(***************************************************************************)
(* finalize_completion: "transfer any requeue atomically".  An owned row   *)
(* is followed by the next incarnation exactly when its request, as it     *)
(* stands in that very transaction, is one nobody but the bot cancelled.   *)
(***************************************************************************)
THEOREM IntentIsTransferred == Spec => AdmittedIntentSurvives
<1>1. IInv /\ [Next]_vars =>
        (Pending /\ Leaves =>
           ((row' # None) <=> /\ row.intent # None
                              /\ ~RequeueIsCancelled(row.intent, row.pending.receipts.instants)))
  BY OwnedRowFinalizes, FinalizedRow
<1>2. Init => IInv BY InitIInv
<1>3. IInv /\ [Next]_vars => IInv' BY NextIInv
<1> QED BY <1>1, <1>2, <1>3, PTL DEF Spec, AdmittedIntentSurvives
=============================================================================
