---------------------- MODULE QueueCompletionRefinement ---------------------
(***************************************************************************)
(* QueueCompletion implements MergeRequestLifecycle, for every value of    *)
(* its constants.  The abstract state is read off the row, the id counter  *)
(* and the comments, so a step is invisible unless it changes one of       *)
(* these; the inductive invariant of QueueCompletionProofs says which rows *)
(* each of the visible steps may meet.                                     *)
(***************************************************************************)
EXTENDS QueueCompletionProofs

AbstractStep == [Lifecycle!Next]_(Lifecycle!vars)

(* A step that keeps the row's id, outcome and phase is invisible. *)
LEMMA InvisibleStep ==
    ASSUME row # None, row' # None, row'.id = row.id, row'.status = row.status,
           (row'.pending # None) <=> (row.pending # None),
           row.pending # None => row'.pending.outcome = row.pending.outcome,
           nextId' = nextId, comments' = comments
    PROVE  AbstractStep
BY DEF AbstractStep, Lifecycle!vars, Phase, Pending

(* So is one that leaves the row alone. *)
LEMMA StutteringStep ==
    ASSUME row' = row, nextId' = nextId, comments' = comments
    PROVE  AbstractStep
BY DEF AbstractStep, Lifecycle!vars, Phase, Pending

(* The insert of a fresh row is the beginning of a lifecycle. *)
LEMMA FreshRowEnqueues ==
    ASSUME NEW ignored \in Receipts, nextId \in Nat, row' = FreshRow(nextId, ignored),
           nextId' = nextId + 1, comments' = comments
    PROVE  Lifecycle!Enqueue
<1>1. row' # None /\ row'.id = nextId /\ row'.pending = None /\ row'.status = "active"
  BY FreshRowType, NoneIsNoRecord DEF FreshRow
<1> QED BY <1>1 DEF Lifecycle!Enqueue, Phase, Pending

(* Its deletion is the end of one. *)
LEMMA NoRowLeaves ==
    ASSUME row' = None, nextId' = nextId, comments' = comments
    PROVE  Lifecycle!Leave
BY DEF Lifecycle!Leave, Phase, Pending

(* prepare_completion freezes the outcome of a row nobody owns yet. *)
LEMMA PrepareRefines ==
    ASSUME IInv, NEW q \in requests, Prepare(q)
    PROVE  AbstractStep
<1>1. nextId' = nextId /\ comments' = comments
  BY DEF Prepare, gitlab
<1>2. CASE row' = row
  BY <1>1, <1>2, StutteringStep
<1>3. CASE row' # row
  <2> DEFINE p == FrozenPayload(q, row.intent)
  <2>1. /\ row # None /\ row.pending = None
        /\ row' = [row EXCEPT !.pending = p, !.status = q.outcome,
                              !.intent = Transferred(row.intent, q.at)]
    BY <1>3 DEF Prepare
  <2>2. row \in Rows /\ q \in Requests /\ q.outcome \in {"merged", "failed", "removed"}
    BY <2>1 DEF IInv, TypeOK, Requests
  <2>3. row.intent \in Intents(Nat, Nat) \cup {None}
    BY <2>2 DEF Rows
  <2>4. p \in Payloads /\ p.outcome = q.outcome
    BY <2>2, <2>3, FrozenPayloadType DEF FrozenPayload
  <2>5. Transferred(row.intent, q.at) \in Intents(Nat, Nat) \cup {None}
    BY <2>3 DEF Transferred
  <2> HIDE DEF p
  <2>6. row' \in Rows /\ row'.id = row.id /\ row'.pending = p
    BY <2>1, <2>2, <2>4, <2>5 DEF Rows
  <2>7. row' # None /\ p # None
    BY <2>4, <2>6, NoneIsNoRecord
  <2>8. Lifecycle!Freeze(q.outcome)
    BY <1>1, <2>1, <2>4, <2>6, <2>7 DEF Lifecycle!Freeze, Lifecycle!Undecided, Phase, Pending
  <2> QED BY <2>2, <2>8 DEF AbstractStep, Lifecycle!Next
<1> QED BY <1>2, <1>3

(* The comment is posted for the row the completion owns. *)
LEMMA PostCommentRefines ==
    ASSUME IInv, NEW lost \in BOOLEAN, PostComment(lost)
    PROVE  AbstractStep
<1>1. fin.pc # "idle" /\ row' = row /\ nextId' = nextId /\ comments' = comments \cup {fin.id}
  BY DEF PostComment, FinAt, durable
<1>2. Pending /\ row.id = fin.id
  BY <1>1, Owner
<1>3. Lifecycle!Tell
  BY <1>1, <1>2 DEF Lifecycle!Tell, Phase, Pending
<1> QED BY <1>3 DEF AbstractStep, Lifecycle!Next

(* Saving progress keeps the outcome. *)
LEMMA SavedProgressRefines ==
    ASSUME IInv, fin.pc # "idle", NEW p \in Payloads, SaveProgress(p),
           p.outcome = fin.payload.outcome, nextId' = nextId, comments' = comments
    PROVE  AbstractStep
<1>1. row' \in Rows /\ row' # None /\ row'.id = row.id /\ row'.pending = p
  BY SaveProgressRow
<1>2. row # None /\ row.pending # None /\ row \in Rows /\ row.id = fin.id
  BY Owner
<1>3. row' = [row EXCEPT !.pending = p]
  BY <1>2, Owner DEF SaveProgress
<1>4. row'.status = row.status
  BY <1>2, <1>3 DEF Rows
<1>5. fin.payload.outcome = row.pending.outcome /\ p # None
  BY NoneIsNoRecord DEF IInv, LockOwnership, Agrees
<1> QED BY <1>1, <1>2, <1>4, <1>5, InvisibleStep

(* finalize_completion comes after the comment, and makes room. *)
LEMMA FinalizeRefines ==
    ASSUME IInv, Finalize
    PROVE  AbstractStep
<1>1. fin.pc = "finalize" /\ comments' = comments
  BY DEF Finalize, FinAt, gitlab
<1>2. CASE ~StillOwned
  BY <1>1, <1>2, StutteringStep DEF Finalize, durable
<1>3. CASE StillOwned
  <2>1. /\ row # None /\ row.id = fin.id /\ row.pending # None /\ Pending
        /\ fin.payload \in Payloads /\ nextId \in Nat
        /\ fin.intent \in Intents(Nat, Nat) \cup {None}
    BY <1>1, Owner DEF Finishers, IInv, TypeOK
  <2>2. row.id \in comments
    BY <1>1, <2>1 DEF IInv, LockOwnership
  <2>3. Transfer(fin.intent, fin.payload)
    BY <1>3 DEF Finalize
  <2> DEFINE r == [fin.payload.receipts EXCEPT
                     !.admissions = @ \cup AdmissionReceipts(fin.intent)]
  <2>4. Lifecycle!Leave \/ Lifecycle!Enqueue
    <3>1. CASE fin.intent # None /\ ~RequeueIsCancelled(fin.intent, fin.payload.receipts.instants)
      <4>1. row' = FreshRow(nextId, r) /\ nextId' = nextId + 1
        BY <2>3, <3>1 DEF Transfer
      <4>2. AdmissionReceipts(fin.intent) \subseteq Nat
        BY <2>1, <3>1 DEF AdmissionReceipts, Intents
      <4>3. r \in Receipts
        BY <2>1, <4>2 DEF Payloads, Receipts
      <4> HIDE DEF r
      <4> QED BY <1>1, <2>1, <4>1, <4>3, FreshRowEnqueues
    <3>2. CASE ~(fin.intent # None /\ ~RequeueIsCancelled(fin.intent, fin.payload.receipts.instants))
      BY <1>1, <2>3, <3>2, NoRowLeaves DEF Transfer
    <3> QED BY <3>1, <3>2
  <2>5. Lifecycle!Finish
    BY <2>1, <2>2, <2>4 DEF Lifecycle!Finish, Phase
  <2> QED BY <2>5 DEF AbstractStep, Lifecycle!Next
<1> QED BY <1>2, <1>3

(* The completion tells, saves, or finalizes. *)
LEMMA FinisherRefines ==
    ASSUME IInv, Finisher
    PROVE  AbstractStep
<1>1. CASE \E lost \in BOOLEAN : PostComment(lost)
  BY <1>1, PostCommentRefines
<1>2. CASE \E lost \in BOOLEAN : PutLabel(lost)
  <2>1. row' = row /\ nextId' = nextId /\ comments' = comments
    BY <1>2 DEF PutLabel, ChangeLabel, durable, gitlab
  <2> QED BY <2>1, StutteringStep
<1>3. CASE SaveComment
  <2>1. fin.pc # "idle" /\ SaveProgress(fin.payload) /\ nextId' = nextId /\ comments' = comments
    BY <1>3 DEF SaveComment, FinAt, gitlab
  <2> QED BY <2>1, Owner, SavedProgressRefines
<1>4. CASE BeginMutation
  <2> DEFINE p == [fin.payload EXCEPT !.started = @ \cup {Mutation}, !.open = @ \cup {Mutation}]
  <2>1. fin.pc # "idle" /\ SaveProgress(p) /\ nextId' = nextId /\ comments' = comments
    BY <1>4 DEF BeginMutation, gitlab
  <2>2. p \in Payloads /\ p.outcome = fin.payload.outcome
    BY <2>1, Owner, MutationType, MutationBegun
  <2> HIDE DEF p
  <2> QED BY <2>1, <2>2, SavedProgressRefines
<1>5. CASE SaveMutation
  <2>1. fin.pc # "idle" /\ SaveProgress(fin.payload) /\ nextId' = nextId /\ comments' = comments
    BY <1>5 DEF SaveMutation, gitlab
  <2> QED BY <2>1, Owner, SavedProgressRefines
<1>6. CASE Reread \/ FinisherFails
  BY <1>6, StutteringStep DEF Reread, FinisherFails, durable, gitlab
<1>7. CASE Finalize
  BY <1>7, FinalizeRefines
<1> QED BY <1>1, <1>2, <1>3, <1>4, <1>5, <1>6, <1>7 DEF Finisher

(* add_to_queue starts a lifecycle where there is none to lose. *)
LEMMA AddToQueueRefines ==
    ASSUME IInv, AddToQueue, comments' = comments
    PROVE  AbstractStep
<1>1. CASE row = None \/ (row.status # "active" /\ row.pending = None)
  <2>1. row' = FreshRow(nextId, NoReceipts) /\ nextId' = nextId + 1 /\ nextId \in Nat
    BY <1>1, Zenon DEF AddToQueue, IInv, TypeOK
  <2>2. Lifecycle!Enqueue
    BY <2>1, NoReceiptsType, FreshRowEnqueues
  <2>3. Lifecycle!Begin
    BY <1>1, <2>2 DEF Lifecycle!Begin, Phase
  <2> QED BY <2>3 DEF AbstractStep, Lifecycle!Next
<1>2. CASE ~(row = None \/ (row.status # "active" /\ row.pending = None))
  BY <1>2, StutteringStep DEF AddToQueue
<1> QED BY <1>1, <1>2

(* Handlers start lifecycles, discard undecided ones, or do nothing visible. *)
LEMMA HookRefines ==
    ASSUME IInv, NEW h \in Hooks, Hook(h)
    PROVE  AbstractStep
<1>1. CASE WriteIntent(h)
  <2>1. nextId' = nextId /\ comments' = comments
    BY <1>1 DEF WriteIntent, gitlab
  <2>2. CASE Writable(h)
    <3> DEFINE i == WriteRequeue(hooks[h].ev.msg, Clock(hooks[h].ev), Cancelling(hooks[h].ev),
                                 row.intent)
    <3>1. row' # None /\ row'.id = row.id /\ row'.pending = row.pending /\ row # None
      BY <1>1, <2>2, WriteIntentRow DEF Writable
    <3>2. row \in Rows /\ row' = [row EXCEPT !.intent = i]
      BY <1>1, <2>2, <3>1 DEF WriteIntent, IInv, TypeOK
    <3>3. row'.status = row.status
      BY <3>2 DEF Rows
    <3> QED BY <2>1, <3>1, <3>3, InvisibleStep
  <2>3. CASE ~Writable(h)
    BY <1>1, <2>1, <2>3, StutteringStep DEF WriteIntent
  <2> QED BY <2>2, <2>3
<1>2. CASE RefreshMetadata(h)
  <2>1. nextId' = nextId /\ comments' = comments
    BY <1>2 DEF RefreshMetadata, gitlab
  <2>2. CASE row' = row
    BY <2>1, <2>2, StutteringStep
  <2>3. CASE row' # row
    <3> DEFINE i == [row.intent EXCEPT !.applied = now]
    <3>1. row # None /\ row.intent # None /\ row' = [row EXCEPT !.intent.applied = now]
      BY <1>2, <2>3, Zenon DEF RefreshMetadata, Active, Uncancelled
    <3>2. row \in Rows /\ row.intent \in Intents(Nat, Nat) /\ now \in Nat
      BY <3>1 DEF IInv, TypeOK, Rows
    <3>3. i \in Intents(Nat, Nat)
      BY <3>2 DEF Intents
    <3>4. row' = [row EXCEPT !.intent = i]
      BY <3>1
    <3> HIDE DEF i
    <3>5. row' \in Rows /\ row'.id = row.id /\ row'.status = row.status
          /\ row'.pending = row.pending
      BY <3>2, <3>3, <3>4 DEF Rows
    <3>6. row' # None
      BY <3>5, NoneIsNoRecord
    <3> QED BY <2>1, <3>1, <3>5, <3>6, InvisibleStep
  <2> QED BY <2>2, <2>3
<1>3. CASE AddFetched(h)
  BY <1>3, AddToQueueRefines DEF AddFetched, gitlab
<1>4. CASE CompleteDirectly(h)
  <2>1. nextId' = nextId /\ comments' = comments
    BY <1>4 DEF CompleteDirectly, gitlab
  <2>2. CASE row # None /\ row.id = hooks[h].id /\ row.pending = None
    <3>1. row' = None
      BY <1>4, <2>2 DEF CompleteDirectly
    <3>2. Lifecycle!Leave
      BY <2>1, <3>1, NoRowLeaves
    <3>3. Lifecycle!Discard
      BY <2>2, <3>2 DEF Lifecycle!Discard, Lifecycle!Undecided, Phase
    <3> QED BY <3>3 DEF AbstractStep, Lifecycle!Next
  <2>3. CASE ~(row # None /\ row.id = hooks[h].id /\ row.pending = None)
    BY <1>4, <2>1, <2>3, StutteringStep DEF CompleteDirectly
  <2> QED BY <2>2, <2>3
<1>5. CASE \/ \E e \in sent : Receive(h, e)
           \/ HandleAdd(h) \/ HandleRemove(h) \/ HandleMerge(h) \/ StaleEnqueue(h)
           \/ FetchMergeRequest(h) \/ RemoveQueueLabel(h) \/ HookFails(h)
  <2>1. row' = row /\ nextId' = nextId /\ comments' = comments
    BY <1>5 DEF Receive, HandleAdd, HandleRemove, HandleMerge, StaleEnqueue, FetchMergeRequest,
                RemoveQueueLabel, ChangeLabel, HookFails, durable, gitlab
  <2> QED BY <2>1, StutteringStep
<1> QED BY <1>1, <1>2, <1>3, <1>4, <1>5 DEF Hook

(* The sync starts lifecycles and marks undecided ones removed. *)
LEMMA SyncRefines ==
    ASSUME IInv, Sync
    PROVE  AbstractStep
<1>1. CASE SyncRemove
  <2>1. nextId' = nextId /\ comments' = comments
    BY <1>1 DEF SyncRemove, gitlab
  <2>2. CASE row = None
    BY <1>1, <2>1, <2>2, StutteringStep DEF SyncRemove
  <2>3. CASE row # None
    <3>1. row \in Rows /\ row' = [row EXCEPT !.status = "removed"]
      BY <1>1, <2>3 DEF SyncRemove, IInv, TypeOK
    <3>2. /\ row' \in Rows /\ row'.id = row.id /\ row'.pending = row.pending
          /\ row'.status = "removed"
      BY <3>1 DEF Rows
    <3>3. row' # None
      BY <3>2, NoneIsNoRecord
    <3>4. CASE row.pending = None
      <4>1. Lifecycle!Mark
        BY <2>1, <2>3, <3>2, <3>3, <3>4
        DEF Lifecycle!Mark, Lifecycle!Undecided, Phase, Pending
      <4> QED BY <4>1 DEF AbstractStep, Lifecycle!Next
    <3>5. CASE row.pending # None
      BY <2>1, <2>3, <3>2, <3>3, <3>5 DEF AbstractStep, Lifecycle!vars, Phase, Pending
    <3> QED BY <3>4, <3>5
  <2> QED BY <2>2, <2>3
<1>2. CASE SyncAdd
  BY <1>2, AddToQueueRefines DEF SyncAdd, gitlab
<1>3. CASE SyncList \/ SyncCompare \/ SyncCheck \/ SyncVerify \/ SyncFails
  BY <1>3, StutteringStep
  DEF SyncList, SyncCompare, SyncCheck, SyncVerify, SyncFails, durable, gitlab
<1> QED BY <1>1, <1>2, <1>3 DEF Sync

(* Every step is one of the abstract lifecycle, or invisible there. *)
LEMMA NextRefines ==
    ASSUME IInv, [Next]_vars
    PROVE  AbstractStep
<1>1. CASE UserToggles \/ (\E out \in Outcomes : Decide(out)) \/ Recover \/ Crash \/ UNCHANGED vars
  BY <1>1, StutteringStep
  DEF UserToggles, ChangeLabel, Decide, Recover, Crash, vars, durable, gitlab
<1>2. CASE \E q \in requests : Prepare(q) BY <1>2, PrepareRefines
<1>3. CASE Finisher BY <1>3, FinisherRefines
<1>4. CASE \E h \in Hooks : Hook(h) BY <1>4, HookRefines
<1>5. CASE Sync BY <1>5, SyncRefines
<1> QED BY <1>1, <1>2, <1>3, <1>4, <1>5 DEF Next

(***************************************************************************)
(* The completion protocol with its webhooks, sync and crashes implements  *)
(* the abstract lifecycle: one frozen outcome, told before the row makes   *)
(* room for at most one successor with a fresh id.                         *)
(***************************************************************************)
THEOREM CompletionImplementsLifecycle == Spec => ImplementsLifecycle
<1>1. Init => Lifecycle!Init
  <2> SUFFICES ASSUME Init PROVE Lifecycle!Init
    OBVIOUS
  <2>1. FreshRow(1, NoReceipts) \in Rows /\ FreshRow(1, NoReceipts) # None
    BY NoReceiptsType, FreshRowType, NoneIsNoRecord
  <2>2. nextId - 1 = 1 /\ comments = {}
    BY DEF Init
  <2>3. CASE row = None
    BY <2>2, <2>3 DEF Lifecycle!Init, Phase, Pending
  <2>4. CASE row = FreshRow(1, NoReceipts)
    <3>1. row # None /\ row.id = 1 /\ row.pending = None /\ row.status = "active"
      BY <2>1, <2>4 DEF FreshRow
    <3> QED BY <2>2, <3>1 DEF Lifecycle!Init, Phase, Pending
  <2> QED BY <2>3, <2>4 DEF Init
<1>2. Init => IInv BY InitIInv
<1>3. IInv /\ [Next]_vars => IInv' BY NextIInv
<1>4. IInv /\ [Next]_vars => [Lifecycle!Next]_(Lifecycle!vars)
  BY NextRefines DEF AbstractStep
<1> QED BY <1>1, <1>2, <1>3, <1>4, PTL DEF Spec, ImplementsLifecycle, Lifecycle!Spec
=============================================================================
