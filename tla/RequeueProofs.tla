---------------------------- MODULE RequeueProofs ---------------------------
(***************************************************************************)
(* Proofs about the requeue request of a lifecycle that is being completed,*)
(* for every number of webhook handlers, lifecycles, label changes, lost   *)
(* answers and crashes.                                                    *)
(*                                                                         *)
(* The statements relate four things that different tasks change: the      *)
(* request in the row (handlers), the operations and instants on record    *)
(* (the holder of the completion lock), the label in GitLab (both, and the *)
(* users), and the webhooks on their way.  The actions are first summed up *)
(* as the few kinds of steps the statements can tell apart; each part of   *)
(* an invariant is then proved once for each kind.                         *)
(***************************************************************************)
EXTENDS QueueCompletionProofs

-----------------------------------------------------------------------------
(* Kinds of steps *)

GitLabStays == UNCHANGED <<label, mrOpen, sent, now>>

(* The same request, except for its acknowledgement. *)
SameRequest(i, j) ==
    /\ (i = None) <=> (j = None)
    /\ i # None => /\ j.clock = i.clock /\ j.wanted = i.wanted
                   /\ j.cancelled = i.cancelled /\ j.seen = i.seen

RowStays ==
    /\ nextId' = nextId
    /\ (row = None) <=> (row' = None)
    /\ row # None => /\ row'.id = row.id /\ row'.pending = row.pending
                     /\ SameRequest(row.intent, row'.intent)

(* A handler goes on, but not to the write of a request. *)
HookGoesOn(h) ==
    /\ hooks'[h].pc # "write"
    /\ hooks'[h].ev \in sent \cup {None, hooks[h].ev}
    /\ hooks'[h].id \in {0, hooks[h].id} \/ (row # None /\ hooks'[h].id = row.id)

HooksStay == \A h \in Hooks : hooks'[h] = hooks[h] \/ HookGoesOn(h)

Quiet == /\ RowStays /\ HooksStay /\ GitLabStays
         /\ requests' \subseteq requests
         /\ fin' = fin \/ fin' = Free

(* A handler found a change it has to write into the request. *)
StartsWrite(h, e) ==
    /\ row # None
    /\ row.pending # None => ~OwnCompletionEvent(e, row.pending)
    /\ hooks'[h].pc = "write" /\ hooks'[h].ev = e /\ hooks'[h].id = row.id
    /\ \A g \in Hooks \ {h} : hooks'[g] = hooks[g]
    /\ GitLabStays /\ UNCHANGED <<row, nextId, requests, fin>>

WritesRequest(h) ==
    LET e == hooks[h].ev
    IN  /\ hooks[h].pc = "write" /\ row # None /\ row.id = hooks[h].id
        /\ row' # None /\ row'.id = row.id /\ row'.pending = row.pending
        /\ row'.intent = WriteRequeue(e.msg, Clock(e), Cancelling(e), row.intent)
        /\ HooksStay /\ GitLabStays /\ UNCHANGED <<nextId, requests, fin>>

Freezes(q) ==
    /\ row # None /\ row.id = q.id /\ row.pending = None
    /\ row' # None /\ row'.id = row.id
    /\ row'.pending = FrozenPayload(q, row.intent)
    /\ row'.intent = Transferred(row.intent, q.at)
    /\ fin' = [pc |-> "comment", id |-> row.id, payload |-> row'.pending, intent |-> None]
    /\ HooksStay /\ GitLabStays /\ nextId' = nextId /\ requests' \subseteq requests

TakesOver ==
    /\ fin.pc = "idle" /\ Pending
    /\ fin' = [pc |-> ResumeAt(row.pending), id |-> row.id, payload |-> row.pending, intent |-> None]
    /\ HooksStay /\ GitLabStays /\ UNCHANGED <<row, nextId>> /\ requests' \subseteq requests

Tells ==
    /\ fin.pc = "comment" /\ fin'.pc = "saveComment"
    /\ fin'.payload = [fin.payload EXCEPT !.commentSent = TRUE] /\ fin'.intent = fin.intent
    /\ GitLabStays /\ UNCHANGED <<row, nextId, requests, hooks>>

Rereads ==
    /\ fin.pc = "reread" /\ row # None /\ fin'.payload = fin.payload
    /\ \/ row.intent = None /\ fin'.pc = "finalize" /\ fin'.intent = fin.intent
       \/ row.intent # None /\ fin'.pc = "apply" /\ fin'.intent = row.intent /\ Restorable(row.intent)
    /\ GitLabStays /\ UNCHANGED <<row, nextId, requests, hooks>>

Saves ==
    /\ \/ fin.pc = "saveComment" /\ fin'.pc \in {"clean", "reread"}
       \/ fin.pc = "saveClean" /\ fin'.pc = "reread"
       \/ fin.pc = "saveApply" /\ fin'.pc = "finalize"
    /\ fin'.payload = fin.payload /\ fin'.intent = fin.intent
    /\ row' # None /\ row'.id = row.id /\ row'.pending = fin.payload /\ row'.intent = row.intent
    /\ GitLabStays /\ UNCHANGED <<nextId, requests, hooks>>

Begins ==
    /\ \/ fin.pc = "clean" /\ fin'.pc = "cleanPut"
       \/ fin.pc = "apply" /\ fin'.pc = "applyPut"
    /\ fin'.payload = [fin.payload EXCEPT !.started = @ \cup {Mutation}, !.open = @ \cup {Mutation}]
    /\ fin'.intent = fin.intent
    /\ row' # None /\ row'.id = row.id /\ row'.pending = fin'.payload /\ row'.intent = row.intent
    /\ GitLabStays /\ UNCHANGED <<nextId, requests, hooks>>

Puts ==
    /\ fin.pc \in {"cleanPut", "applyPut"}
    /\ \/ label # (Mutation = "add") /\ ChangeLabel(Mutation = "add", "bot")
       \/ label = (Mutation = "add") /\ GitLabStays
    /\ \/ fin' = Free
       \/ /\ \/ fin.pc = "cleanPut" /\ fin'.pc = "saveClean"
             \/ fin.pc = "applyPut" /\ fin'.pc = "saveApply"
          /\ fin'.payload.started = fin.payload.started
          /\ fin'.payload.labelsRemoved = (fin.payload.labelsRemoved \/ fin.pc = "cleanPut")
          /\ fin'.payload.receipts.instants =
               fin.payload.receipts.instants \cup Answered(label # (Mutation = "add"))
          /\ fin'.intent = fin.intent
    /\ UNCHANGED <<row, nextId, requests, hooks>>

(* The row is deleted, or the next incarnation takes its place. *)
Replaces ==
    /\ fin' = fin \/ fin' = Free
    /\ fin'.pc = "idle"
    /\ \/ row' = None /\ nextId' = nextId
       \/ /\ row' # None /\ row'.id = nextId /\ nextId' = nextId + 1
          /\ row'.pending = None /\ row'.intent = None
    /\ HooksStay /\ GitLabStays /\ requests' = requests

(* A label change of a user or of a handler. *)
Toggles(by) ==
    /\ by # "bot"
    /\ ChangeLabel(~label, by)
    /\ HooksStay /\ UNCHANGED <<row, nextId, requests, fin>>

(* An ender asks for its end, after it merged the merge request perhaps. *)
Asks(q) ==
    /\ row # None /\ row.pending = None
    /\ q.id = row.id /\ q.at = now + 1 /\ now' = now + 1
    /\ requests' = requests \cup {q}
    /\ \/ UNCHANGED <<mrOpen, sent>>
       \/ /\ "merged" \in Outcomes /\ mrOpen' = FALSE
          /\ sent' = sent \cup {[msg |-> now + 1, kind |-> "merge", by |-> "bot", open |-> FALSE]}
    /\ HooksStay /\ UNCHANGED <<label, row, nextId, fin>>
-----------------------------------------------------------------------------
(* What handlers do to their own tasks. *)

LEMMA HookDoneStays == ASSUME IInv, NEW h \in Hooks, HookDone(h) PROVE HooksStay
<1>1. hooks' = [hooks EXCEPT ![h] = IdleHook] /\ hooks \in [Hooks -> HookTasks]
  BY DEF HookDone, IInv, TypeOK
<1>2. IdleHook.pc = "idle" /\ IdleHook.ev = None /\ IdleHook.id = 0 BY DEF IdleHook
<1>3. hooks'[h] = IdleHook /\ \A g \in Hooks \ {h} : hooks'[g] = hooks[g] BY <1>1
<1> QED BY <1>2, <1>3 DEF HooksStay, HookGoesOn

LEMMA HookToStays ==
    ASSUME IInv, NEW h \in Hooks, NEW pc, pc # "write", HookTo(h, pc)
    PROVE  HooksStay
<1>1. hooks' = [hooks EXCEPT ![h].pc = pc] /\ hooks \in [Hooks -> HookTasks]
  BY DEF HookTo, IInv, TypeOK
<1>2. hooks'[h].pc = pc /\ hooks'[h].ev = hooks[h].ev /\ hooks'[h].id = hooks[h].id
  BY <1>1 DEF HookTasks
<1>3. \A g \in Hooks \ {h} : hooks'[g] = hooks[g] BY <1>1
<1> QED BY <1>2, <1>3 DEF HooksStay, HookGoesOn

LEMMA HookStartsStays ==
    ASSUME IInv, NEW h \in Hooks, NEW e \in sent, NEW pc, NEW allow, pc # "write",
           HookStarts(h, e, pc, allow)
    PROVE  HooksStay
<1>1. hooks'[h] = [pc |-> pc, ev |-> e, id |-> IF row = None THEN 0 ELSE row.id, allow |-> allow]
  BY DEF HookStarts, IInv, TypeOK
<1>2. \A g \in Hooks \ {h} : hooks'[g] = hooks[g] BY DEF HookStarts, IInv, TypeOK
<1> QED BY <1>1, <1>2 DEF HooksStay, HookGoesOn

LEMMA HooksSameStay == ASSUME hooks' = hooks PROVE HooksStay
BY DEF HooksStay

(* The tasks a finished or crashed bot leaves. *)
LEMMA HooksResetStay ==
    ASSUME NEW f, \A h \in Hooks : f[h] = IdleHook \/ f[h] = hooks[h], hooks' = [h \in Hooks |-> f[h]]
    PROVE  HooksStay
<1>1. IdleHook.pc = "idle" /\ IdleHook.ev = None /\ IdleHook.id = 0 BY DEF IdleHook
<1>2. \A h \in Hooks : hooks'[h] = f[h] OBVIOUS
<1> QED BY <1>1, <1>2 DEF HooksStay, HookGoesOn

LEMMA RowSameStays == ASSUME row' = row, nextId' = nextId PROVE RowStays
BY DEF RowStays, SameRequest
-----------------------------------------------------------------------------
(* Each action is a step of some kind. *)

LEMMA UserTogglesKind == ASSUME IInv, UserToggles PROVE Toggles("user")
BY HooksSameStay DEF UserToggles, Toggles, durable, volatile

LEMMA DecideKind ==
    ASSUME IInv, NEW outcome \in Outcomes, Decide(outcome) PROVE \E q \in requests' : Asks(q)
<1> DEFINE q == [id |-> row.id, outcome |-> outcome, at |-> now', cleanup |-> TRUE, by |-> "processor"]
<1>1. requests' = requests \cup {q} /\ now' = now + 1 /\ row # None /\ row.pending = None
  BY DEF Decide, Active
<1>2. \/ UNCHANGED <<mrOpen, sent>>
      \/ /\ "merged" \in Outcomes /\ mrOpen' = FALSE
         /\ sent' = sent \cup {[msg |-> now + 1, kind |-> "merge", by |-> "bot", open |-> FALSE]}
  BY DEF Decide, gitlab
<1>3. HooksStay /\ UNCHANGED <<label, row, nextId, fin>>
  BY HooksSameStay DEF Decide, gitlab, durable
<1>4. q.id = row.id /\ q.at = now + 1 BY <1>1
<1> HIDE DEF q
<1> QED BY <1>1, <1>2, <1>3, <1>4 DEF Asks

LEMMA PrepareKind ==
    ASSUME IInv, NEW q \in requests, Prepare(q) PROVE Quiet \/ Freezes(q) \/ TakesOver
<1>1. HooksStay /\ GitLabStays /\ requests' \subseteq requests /\ nextId' = nextId /\ fin.pc = "idle"
  <2>1. HooksStay
    <3> DEFINE f == [h \in Hooks |-> IF q.by = h THEN IdleHook ELSE hooks[h]]
    <3>1. \A h \in Hooks : f[h] = IdleHook \/ f[h] = hooks[h] OBVIOUS
    <3>2. hooks' = [h \in Hooks |-> f[h]] BY DEF Prepare
    <3> HIDE DEF f
    <3> QED BY <3>1, <3>2, HooksResetStay
  <2> QED BY <2>1 DEF Prepare, gitlab, GitLabStays
<1>2. CASE row = None \/ (row # None /\ row.id # q.id)
  BY <1>1, <1>2, RowSameStays DEF Prepare, Quiet
<1>3. CASE row # None /\ row.id = q.id /\ row.pending # None
  BY <1>1, <1>3 DEF Prepare, Finish, TakesOver, Pending
<1>4. CASE row # None /\ row.id = q.id /\ row.pending = None
  <2> DEFINE p == FrozenPayload(q, row.intent)
             i == Transferred(row.intent, q.at)
  <2>1. row' = [row EXCEPT !.pending = p, !.status = q.outcome, !.intent = i]
        /\ fin' = [pc |-> ResumeAt(p), id |-> row.id, payload |-> p, intent |-> None]
    BY <1>4 DEF Prepare, Finish
  <2>2. ResumeAt(p) = "comment" BY DEF ResumeAt, FrozenPayload
  <2>3. row \in Rows BY <1>4 DEF IInv, TypeOK
  <2>4. row'.pending = p /\ row'.intent = i /\ row'.id = row.id
    <3> HIDE DEF p, i
    <3> QED BY <2>1, <2>3 DEF Rows
  <2>5. row' # None
    <3>1. IInv' BY PrepareStep
    <3>2. fin'.pc # "idle" BY <2>1, <2>2
    <3> QED BY <3>1, <3>2 DEF IInv, LockOwnership, Pending
  <2> HIDE DEF p, i
  <2> QED BY <1>1, <1>4, <2>1, <2>2, <2>4, <2>5 DEF Freezes, p, i
<1> QED BY <1>2, <1>3, <1>4

LEMMA RecoverKind == ASSUME IInv, Recover PROVE TakesOver
BY HooksSameStay DEF Recover, Finish, TakesOver, durable, gitlab, GitLabStays

(* The lock's holder owns a row, and both are records. *)
LEMMA HolderFacts ==
    ASSUME IInv, fin.pc # "idle"
    PROVE  /\ fin \in Finishers /\ fin.payload \in Payloads
           /\ row \in Rows /\ row # None /\ Pending /\ row.id = fin.id
           /\ row.pending \in Payloads /\ fin.payload.at = row.pending.at
BY Owner DEF IInv, TypeOK, LockOwnership, Agrees, Finishers, Pending, Rows

LEMMA PostCommentKind ==
    ASSUME IInv, NEW lost \in BOOLEAN, PostComment(lost) PROVE Quiet \/ Tells
<1>1. fin.pc = "comment" /\ HooksStay /\ RowStays /\ GitLabStays /\ UNCHANGED <<row, nextId, requests, hooks>>
  BY HooksSameStay, RowSameStays DEF PostComment, FinAt, durable, GitLabStays
<1>2. CASE lost
  BY <1>1, <1>2 DEF PostComment, Release, Quiet
<1>3. CASE ~lost
  <2>1. fin' = [fin EXCEPT !.pc = "saveComment", !.payload.commentSent = TRUE] BY <1>3 DEF PostComment
  <2>2. fin \in Finishers BY DEF IInv, TypeOK
  <2>3. fin'.pc = "saveComment" /\ fin'.intent = fin.intent
        /\ fin'.payload = [fin.payload EXCEPT !.commentSent = TRUE]
    BY <2>1, <2>2 DEF Finishers
  <2> QED BY <1>1, <2>3 DEF Tells
<1> QED BY <1>2, <1>3

(* A progress write of the holder, with the payload it holds or just changed. *)
LEMMA ProgressSaved ==
    ASSUME IInv, fin.pc # "idle", NEW p \in Payloads, SaveProgress(p)
    PROVE  row' # None /\ row'.id = row.id /\ row'.pending = p /\ row'.intent = row.intent
<1>1. row' = [row EXCEPT !.pending = p] /\ row \in Rows
  BY HolderFacts DEF SaveProgress
<1> QED BY <1>1, RowUpdates, NoneIsNoRecord

LEMMA SavesKind == ASSUME IInv, SaveComment \/ SaveMutation PROVE Saves
<1>1. fin \in Finishers BY DEF IInv, TypeOK
<1>2. fin.pc # "idle" /\ SaveProgress(fin.payload)
      /\ \/ fin.pc = "saveComment" /\ FinTo(CleanupOrReread(fin.payload))
         \/ fin.pc = "saveClean" /\ FinTo("reread")
         \/ fin.pc = "saveApply" /\ FinTo("finalize")
  BY DEF SaveComment, SaveMutation, FinAt
<1>3. CleanupOrReread(fin.payload) \in {"clean", "reread"} BY DEF CleanupOrReread
<1>4. ASSUME NEW pc, FinTo(pc)
      PROVE  fin'.pc = pc /\ fin'.payload = fin.payload /\ fin'.intent = fin.intent
  BY <1>1, <1>4 DEF FinTo, Finishers
<1>5. row' # None /\ row'.id = row.id /\ row'.pending = fin.payload /\ row'.intent = row.intent
  BY <1>2, ProgressSaved, HolderFacts
<1>6. GitLabStays /\ UNCHANGED <<nextId, requests, hooks>>
  BY DEF SaveComment, SaveMutation, gitlab, GitLabStays
<1> QED BY <1>2, <1>3, <1>4, <1>5, <1>6 DEF Saves

LEMMA BeginsKind == ASSUME IInv, BeginMutation PROVE Begins
<1> DEFINE p == [fin.payload EXCEPT !.started = @ \cup {Mutation}, !.open = @ \cup {Mutation}]
<1>1. fin.pc \in {"clean", "apply"} /\ SaveProgress(p)
      /\ fin' = [fin EXCEPT !.payload = p, !.pc = IF fin.pc = "clean" THEN "cleanPut" ELSE "applyPut"]
      /\ GitLabStays /\ UNCHANGED <<nextId, requests, hooks>>
  BY DEF BeginMutation, FinAt, gitlab, GitLabStays
<1>2. p \in Payloads
  <2>1. fin.payload \in Payloads BY <1>1, HolderFacts
  <2> QED BY <2>1, MutationType, MutationBegun
<1>3. row' # None /\ row'.id = row.id /\ row'.pending = p /\ row'.intent = row.intent
  <2> HIDE DEF p
  <2> QED BY <1>1, <1>2, ProgressSaved
<1>4. fin'.payload = p /\ fin'.intent = fin.intent
      /\ fin'.pc = IF fin.pc = "clean" THEN "cleanPut" ELSE "applyPut"
  <2>1. fin \in Finishers BY DEF IInv, TypeOK
  <2> HIDE DEF p
  <2> QED BY <1>1, <2>1 DEF Finishers
<1>5. fin'.payload = [fin.payload EXCEPT !.started = @ \cup {Mutation}, !.open = @ \cup {Mutation}]
  BY <1>4
<1> HIDE DEF p
<1>6. row'.pending = fin'.payload BY <1>3, <1>4
<1> QED BY <1>1, <1>3, <1>4, <1>5, <1>6 DEF Begins

LEMMA PutLabelKind == ASSUME IInv, NEW lost \in BOOLEAN, PutLabel(lost) PROVE Puts
<1> DEFINE changed == label # (Mutation = "add")
           p == [fin.payload EXCEPT !.open = @ \ {Mutation},
                                    !.labelsRemoved = @ \/ FinAt("cleanPut"),
                                    !.receipts = Recorded(@, Mutation, Answered(changed))]
<1>1. fin.pc \in {"cleanPut", "applyPut"} /\ UNCHANGED <<row, nextId, requests, hooks>>
  BY DEF PutLabel, durable
<1>2. \/ changed /\ ChangeLabel(Mutation = "add", "bot")
      \/ ~changed /\ GitLabStays
  BY DEF PutLabel, gitlab, GitLabStays
<1>3. fin \in Finishers /\ fin.payload \in Payloads BY <1>1, HolderFacts DEF IInv, TypeOK
<1>4. /\ p.started = fin.payload.started
      /\ p.labelsRemoved = (fin.payload.labelsRemoved \/ fin.pc = "cleanPut")
      /\ p.receipts.instants = fin.payload.receipts.instants \cup Answered(changed)
  <2> HIDE DEF changed
  <2> QED BY <1>3 DEF Payloads, Receipts, Recorded, FinAt
<1>5. IF lost THEN fin' = Free
      ELSE fin' = [fin EXCEPT !.payload = p, !.pc = IF fin.pc = "cleanPut" THEN "saveClean" ELSE "saveApply"]
  BY DEF PutLabel, Release, FinAt
<1>6. ~lost => /\ fin'.payload = p /\ fin'.intent = fin.intent
               /\ fin'.pc = IF fin.pc = "cleanPut" THEN "saveClean" ELSE "saveApply"
  <2> HIDE DEF p
  <2> QED BY <1>5, <1>3 DEF Finishers
<1> HIDE DEF p
<1> QED BY <1>1, <1>2, <1>4, <1>5, <1>6 DEF Puts

LEMMA RereadKind == ASSUME IInv, Reread PROVE Quiet \/ Rereads
<1>1. fin.pc = "reread" /\ GitLabStays /\ HooksStay /\ RowStays /\ UNCHANGED <<row, nextId, requests, hooks>>
  BY HooksSameStay, RowSameStays DEF Reread, FinAt, durable, gitlab, GitLabStays
<1>2. fin \in Finishers /\ row # None /\ row.id = fin.id BY <1>1, HolderFacts
<1>3. CASE fin' = Free
  BY <1>1, <1>3 DEF Quiet
<1>4. CASE fin' # Free
  <2>1. \/ row.intent = None /\ fin' = [fin EXCEPT !.pc = "finalize"]
        \/ row.intent # None /\ Restorable(row.intent)
           /\ fin' = [fin EXCEPT !.pc = "apply", !.intent = row.intent]
    BY <1>2, <1>4 DEF Reread, Release, FinTo
  <2>2. fin'.payload = fin.payload BY <2>1, <1>2 DEF Finishers
  <2>3. CASE row.intent = None
    <3>1. fin'.pc = "finalize" /\ fin'.intent = fin.intent BY <2>1, <2>3, <1>2 DEF Finishers
    <3> QED BY <3>1, <2>2, <2>3, <1>1, <1>2 DEF Rereads
  <2>4. CASE row.intent # None
    <3>1. fin'.pc = "apply" /\ fin'.intent = row.intent BY <2>1, <2>4, <1>2 DEF Finishers
    <3> QED BY <3>1, <2>1, <2>2, <2>4, <1>1, <1>2 DEF Rereads
  <2> QED BY <2>3, <2>4
<1> QED BY <1>3, <1>4

LEMMA FinisherFailsKind == ASSUME IInv, FinisherFails PROVE Quiet
BY HooksSameStay, RowSameStays
   DEF FinisherFails, Release, Quiet, durable, gitlab, GitLabStays

LEMMA FinalizeKind == ASSUME IInv, Finalize PROVE Quiet \/ Replaces
<1>1. GitLabStays /\ HooksStay /\ requests' = requests /\ fin' = Free /\ Free.pc = "idle"
  BY HooksSameStay DEF Finalize, Release, gitlab, GitLabStays, Free
<1>2. CASE StillOwned
  <2>1. Transfer(fin.intent, fin.payload) BY <1>2 DEF Finalize
  <2>2. \/ row' = None /\ nextId' = nextId
        \/ nextId' = nextId + 1 /\ \E ignored : row' = FreshRow(nextId, ignored)
    BY <2>1 DEF Transfer
  <2>3. CASE row' = None /\ nextId' = nextId
    BY <2>3, <1>1 DEF Replaces
  <2>4. CASE nextId' = nextId + 1 /\ \E ignored : row' = FreshRow(nextId, ignored)
    <3>1. row'.id = nextId /\ row'.pending = None /\ row'.intent = None BY <2>4 DEF FreshRow
    <3>2. row' # None
      <4>1. fin.pc = "finalize" /\ nextId \in Nat /\ nextId' # nextId BY <2>4 DEF Finalize, FinAt, IInv, TypeOK
      <4>2. fin.intent \in Intents(Nat, Nat) \cup {None} /\ fin.payload \in Payloads
        BY <4>1, HolderFacts DEF Finishers
      <4>3. row' \in Rows BY <2>1, <4>1, <4>2, TransferType, NoneIsNoRecord
      <4> QED BY <4>3, NoneIsNoRecord
    <3> QED BY <3>1, <3>2, <2>4, <1>1 DEF Replaces
  <2> QED BY <2>2, <2>3, <2>4
<1>3. CASE ~StillOwned
  BY <1>1, <1>3, RowSameStays DEF Finalize, Quiet, durable
<1> QED BY <1>2, <1>3

LEMMA ReceiveKind ==
    ASSUME IInv, NEW h \in Hooks, NEW e \in sent, Receive(h, e) PROVE Quiet \/ StartsWrite(h, e)
<1>1. GitLabStays /\ RowStays /\ UNCHANGED <<row, nextId, requests, fin>>
  BY RowSameStays DEF Receive, durable, gitlab, GitLabStays
<1>2. \/ hooks' = hooks
      \/ HookStarts(h, e, "handle", FALSE)
      \/ /\ \E allow \in BOOLEAN : HookStarts(h, e, "write", allow)
         /\ row # None
         /\ row.pending # None => ~OwnCompletionEvent(e, row.pending)
  BY DEF Receive
<1>3. CASE hooks' = hooks
  BY <1>1, <1>3, HooksSameStay DEF Quiet
<1>4. CASE HookStarts(h, e, "handle", FALSE)
  BY <1>1, <1>4, HookStartsStays DEF Quiet
<1>5. ASSUME NEW allow \in BOOLEAN, HookStarts(h, e, "write", allow), row # None,
             row.pending # None => ~OwnCompletionEvent(e, row.pending)
      PROVE  StartsWrite(h, e)
  <2>1. hooks' = [hooks EXCEPT ![h] = [pc |-> "write", ev |-> e, id |-> row.id, allow |-> allow]]
        /\ hooks \in [Hooks -> HookTasks]
    BY <1>5 DEF HookStarts, IInv, TypeOK
  <2>2. hooks'[h] = [pc |-> "write", ev |-> e, id |-> row.id, allow |-> allow]
        /\ \A g \in Hooks \ {h} : hooks'[g] = hooks[g]
    BY <2>1
  <2> QED BY <2>2, <1>1, <1>5 DEF StartsWrite
<1> QED BY <1>2, <1>3, <1>4, <1>5

LEMMA WriteIntentKind ==
    ASSUME IInv, NEW h \in Hooks, WriteIntent(h) PROVE Quiet \/ WritesRequest(h)
<1>1. GitLabStays /\ HooksStay /\ UNCHANGED <<nextId, requests, fin>> /\ hooks[h].pc = "write"
  <2>1. HookTo(h, "handle") \/ HookDone(h) BY DEF WriteIntent
  <2>2. HooksStay BY <2>1, HookToStays, HookDoneStays
  <2> QED BY <2>2 DEF WriteIntent, gitlab, GitLabStays, HookAt
<1>2. CASE Writable(h)
  <2> DEFINE i == WriteRequeue(hooks[h].ev.msg, Clock(hooks[h].ev), Cancelling(hooks[h].ev), row.intent)
  <2>1. row' # None /\ row'.id = row.id /\ row'.pending = row.pending BY <1>2, WriteIntentRow
  <2>2. row' = [row EXCEPT !.intent = i] BY <1>2 DEF WriteIntent
  <2>3. row \in Rows /\ row # None /\ row.id = hooks[h].id BY <1>2 DEF Writable, IInv, TypeOK
  <2>4. row'.intent = i
    <3> HIDE DEF i
    <3> QED BY <2>2, <2>3 DEF Rows
  <2> QED BY <1>1, <2>1, <2>3, <2>4 DEF WritesRequest
<1>3. CASE ~Writable(h)
  <2>1. row' = row BY <1>3 DEF WriteIntent
  <2> QED BY <2>1, <1>1, RowSameStays DEF Quiet
<1> QED BY <1>2, <1>3

(* Handler steps that only move the task. *)
LEMMA HookQuietKind ==
    ASSUME IInv, NEW h \in Hooks,
           HandleAdd(h) \/ StaleEnqueue(h) \/ FetchMergeRequest(h) \/ HookFails(h)
    PROVE  Quiet
<1>1. HookDone(h) \/ HookTo(h, "refresh") \/ HookTo(h, "stale") \/ HookTo(h, "fetch") \/ HookTo(h, "add")
  BY DEF HandleAdd, StaleEnqueue, FetchMergeRequest, HookFails
<1>2. HooksStay BY <1>1, HookDoneStays, HookToStays
<1>3. UNCHANGED <<row, nextId, label, mrOpen, sent, now, requests, fin>>
  BY DEF HandleAdd, StaleEnqueue, FetchMergeRequest, HookFails, durable, gitlab
<1> QED BY <1>2, <1>3, RowSameStays DEF Quiet, GitLabStays

LEMMA RequestEndKind ==
    ASSUME IInv, NEW h \in Hooks, NEW outcome, NEW cleanup, RequestEnd(h, outcome, cleanup),
           row # None, row.pending = None,
           UNCHANGED <<row, nextId, label, mrOpen, sent, fin>>
    PROVE  \E q \in requests' : Asks(q)
<1> DEFINE q == [id |-> row.id, outcome |-> outcome, at |-> now', cleanup |-> cleanup, by |-> h]
<1>1. now' = now + 1 /\ requests' = requests \cup {q} /\ HookTo(h, "waiting") BY DEF RequestEnd
<1>2. HooksStay BY <1>1, HookToStays
<1>3. q.id = row.id /\ q.at = now + 1 BY <1>1
<1> HIDE DEF q
<1> QED BY <1>1, <1>2, <1>3 DEF Asks

LEMMA HandleRemoveKind ==
    ASSUME IInv, NEW h \in Hooks, HandleRemove(h) PROVE Quiet \/ \E q \in requests' : Asks(q)
<1>1. UNCHANGED <<row, nextId, label, mrOpen, sent, fin>> BY DEF HandleRemove, durable, gitlab
<1>2. CASE Active /\ row.pending = None
  BY <1>1, <1>2, RequestEndKind DEF HandleRemove, Active
<1>3. CASE ~(Active /\ row.pending = None)
  <2>1. UNCHANGED <<requests, now>> BY <1>3 DEF HandleRemove
  <2>2. HooksStay
    <3>1. CASE HookDone(h) BY <3>1, HookDoneStays
    <3>2. CASE row # None /\ hooks' = [hooks EXCEPT ![h].pc = "fallback", ![h].id = row.id]
      <4>1. hooks \in [Hooks -> HookTasks] BY DEF IInv, TypeOK
      <4>2. hooks'[h].pc = "fallback" /\ hooks'[h].ev = hooks[h].ev /\ hooks'[h].id = row.id
        BY <3>2, <4>1 DEF HookTasks
      <4>3. \A g \in Hooks \ {h} : hooks'[g] = hooks[g] BY <3>2, <4>1
      <4> QED BY <3>2, <4>2, <4>3 DEF HooksStay, HookGoesOn
    <3> QED BY <1>3, <3>1, <3>2 DEF HandleRemove
  <2> QED BY <1>1, <2>1, <2>2, RowSameStays DEF Quiet, GitLabStays
<1> QED BY <1>2, <1>3

LEMMA HandleMergeKind ==
    ASSUME IInv, NEW h \in Hooks, HandleMerge(h) PROVE Quiet \/ \E q \in requests' : Asks(q)
<1>1. UNCHANGED <<row, nextId, label, mrOpen, sent, fin>> BY DEF HandleMerge, durable, gitlab
<1>2. CASE Active /\ row.pending = None
  BY <1>1, <1>2, RequestEndKind DEF HandleMerge, Active
<1>3. CASE ~(Active /\ row.pending = None)
  <2>1. UNCHANGED <<requests, now>> /\ HookDone(h) BY <1>3 DEF HandleMerge
  <2> QED BY <1>1, <2>1, HookDoneStays, RowSameStays DEF Quiet, GitLabStays
<1> QED BY <1>2, <1>3

LEMMA RefreshMetadataKind == ASSUME IInv, NEW h \in Hooks, RefreshMetadata(h) PROVE Quiet
<1>1. HooksStay /\ nextId' = nextId /\ GitLabStays /\ requests' = requests /\ fin' = fin
  BY HookDoneStays DEF RefreshMetadata, gitlab, GitLabStays
<1>2. CASE row' = row
  BY <1>1, <1>2, RowSameStays DEF Quiet
<1>3. CASE row' # row
  <2>1. row' = [row EXCEPT !.intent.applied = now] /\ Active /\ row.pending = None /\ Uncancelled(row.intent)
    BY <1>3 DEF RefreshMetadata
  <2>2. row \in Rows /\ row.intent \in Intents(Nat, Nat) /\ row # None /\ row.intent # None
    BY <2>1 DEF Active, Uncancelled, IInv, TypeOK, Rows
  <2>3. row'.id = row.id /\ row'.pending = row.pending /\ row'.intent = [row.intent EXCEPT !.applied = now]
    BY <2>1, <2>2 DEF Rows
  <2>4. row'.intent # None /\ SameRequest(row.intent, row'.intent)
    <3>1. now \in Nat BY DEF IInv, TypeOK
    <3>2. row'.intent \in Intents(Nat, Nat) BY <2>2, <2>3, <3>1 DEF Intents
    <3> QED BY <3>2, <2>2, <2>3, NoneIsNoRequest DEF SameRequest, Intents
  <2>5. row' # None
    <3> DEFINE i == [row.intent EXCEPT !.applied = now]
    <3>1. now \in Nat BY DEF IInv, TypeOK
    <3>2. i \in Intents(Nat, Nat) BY <3>1, <2>2 DEF Intents
    <3>3. row' = [row EXCEPT !.intent = i] BY <2>1
    <3> HIDE DEF i
    <3> QED BY <3>2, <3>3, <2>2, NoneIsNoRecord DEF Rows
  <2> QED BY <1>1, <2>2, <2>3, <2>4, <2>5 DEF Quiet, RowStays
<1> QED BY <1>2, <1>3

(* add_to_queue: the row is taken as it is, or replaced when nobody owns it. *)
LEMMA AddToQueueKind ==
    ASSUME IInv, AddToQueue, GitLabStays, HooksStay, UNCHANGED <<requests, fin>>
    PROVE  Quiet \/ Replaces
<1>1. CASE row = None \/ (row # None /\ row.status # "active" /\ row.pending = None)
  <2>1. row' = FreshRow(nextId, NoReceipts) /\ nextId' = nextId + 1 /\ nextId \in Nat
    BY <1>1, Zenon DEF AddToQueue, IInv, TypeOK
  <2>2. row' \in Rows /\ row' # None BY <2>1, FreshRowType, NoReceiptsType, NoneIsNoRecord
  <2>3. row'.id = nextId /\ row'.pending = None /\ row'.intent = None BY <2>1 DEF FreshRow
  <2>4. fin.pc = "idle" BY <1>1 DEF IInv, LockOwnership, Pending
  <2> QED BY <2>1, <2>2, <2>3, <2>4 DEF Replaces
<1>2. CASE ~(row = None \/ (row # None /\ row.status # "active" /\ row.pending = None))
  <2>1. row' = row /\ nextId' = nextId BY <1>2 DEF AddToQueue
  <2> QED BY <2>1, RowSameStays DEF Quiet
<1> QED BY <1>1, <1>2

LEMMA AddFetchedKind == ASSUME IInv, NEW h \in Hooks, AddFetched(h) PROVE Quiet \/ Replaces
<1>1. AddToQueue /\ HookDone(h) /\ GitLabStays /\ UNCHANGED <<requests, fin>>
  BY DEF AddFetched, gitlab, GitLabStays
<1> QED BY <1>1, HookDoneStays, AddToQueueKind

LEMMA CompleteDirectlyKind == ASSUME IInv, NEW h \in Hooks, CompleteDirectly(h) PROVE Quiet \/ Replaces
<1>1. GitLabStays /\ nextId' = nextId /\ UNCHANGED <<requests, fin>>
  BY DEF CompleteDirectly, gitlab, GitLabStays
<1>2. HookTo(h, "unlabel") \/ HookDone(h) BY DEF CompleteDirectly
<1>3. HooksStay BY <1>2, HookToStays, HookDoneStays
<1>4. CASE row # None /\ row.id = hooks[h].id /\ row.pending = None
  <2>1. row' = None BY <1>4 DEF CompleteDirectly
  <2>2. fin.pc = "idle" BY <1>4 DEF IInv, LockOwnership, Pending
  <2> QED BY <2>1, <2>2, <1>1, <1>3 DEF Replaces
<1>5. CASE ~(row # None /\ row.id = hooks[h].id /\ row.pending = None)
  <2>1. row' = row BY <1>5 DEF CompleteDirectly
  <2> QED BY <2>1, <1>1, <1>3, RowSameStays DEF Quiet
<1> QED BY <1>4, <1>5

LEMMA RemoveQueueLabelKind ==
    ASSUME IInv, NEW h \in Hooks, RemoveQueueLabel(h)
    PROVE  Quiet \/ (hooks[h].pc = "unlabel" /\ Toggles("handler"))
<1>1. HooksStay /\ hooks[h].pc = "unlabel" /\ UNCHANGED <<row, nextId, requests, fin>>
  BY HookDoneStays DEF RemoveQueueLabel, HookAt, durable
<1>2. CASE label
  <2>1. ChangeLabel(FALSE, "handler") BY <1>2 DEF RemoveQueueLabel
  <2>2. FALSE = ~label BY <1>2
  <2> QED BY <2>1, <2>2, <1>1, Zenon DEF Toggles
<1>3. CASE ~label
  BY <1>1, <1>3, RowSameStays DEF RemoveQueueLabel, Quiet, gitlab, GitLabStays
<1> QED BY <1>2, <1>3

LEMMA HookKind ==
    ASSUME IInv, NEW h \in Hooks, Hook(h)
    PROVE  \/ Quiet \/ Replaces
           \/ \E e \in sent : StartsWrite(h, e)
           \/ WritesRequest(h)
           \/ \E q \in requests' : Asks(q)
           \/ hooks[h].pc = "unlabel" /\ Toggles("handler")
BY ReceiveKind, WriteIntentKind, HookQuietKind, HandleRemoveKind, HandleMergeKind,
   RefreshMetadataKind, AddFetchedKind, CompleteDirectlyKind, RemoveQueueLabelKind DEF Hook

LEMMA SyncKind == ASSUME IInv, Sync PROVE Quiet \/ Replaces
<1>1. GitLabStays /\ HooksStay /\ UNCHANGED <<requests, fin>>
  BY HooksSameStay DEF Sync, SyncList, SyncCompare, SyncCheck, SyncAdd, SyncVerify, SyncRemove,
                       SyncFails, gitlab, GitLabStays
<1>2. CASE SyncAdd
  BY <1>1, <1>2, AddToQueueKind DEF SyncAdd
<1>3. CASE SyncRemove
  <2>1. nextId' = nextId /\ row' = IF row = None THEN None ELSE [row EXCEPT !.status = "removed"]
    BY <1>3 DEF SyncRemove
  <2>2. RowStays
    <3>1. CASE row = None BY <2>1, <3>1 DEF RowStays
    <3>2. CASE row # None
      <4>1. row \in Rows /\ row' = [row EXCEPT !.status = "removed"] BY <2>1, <3>2 DEF IInv, TypeOK
      <4>2. row' # None BY <4>1, RowUpdates, NoneIsNoRecord
      <4>3. row'.id = row.id /\ row'.pending = row.pending /\ row'.intent = row.intent BY <4>1 DEF Rows
      <4> QED BY <2>1, <3>2, <4>2, <4>3 DEF RowStays, SameRequest
    <3> QED BY <3>1, <3>2
  <2> QED BY <1>1, <2>2 DEF Quiet
<1>4. CASE ~SyncAdd /\ ~SyncRemove
  <2>1. UNCHANGED durable
    BY <1>4 DEF Sync, SyncList, SyncCompare, SyncCheck, SyncVerify, SyncFails
  <2> QED BY <1>1, <2>1, RowSameStays DEF Quiet, durable
<1> QED BY <1>2, <1>3, <1>4

LEMMA CrashKind == ASSUME IInv, Crash PROVE Quiet
<1>1. HooksStay
  <2> DEFINE f == [h \in Hooks |-> IdleHook]
  <2>1. \A h \in Hooks : f[h] = IdleHook \/ f[h] = hooks[h] OBVIOUS
  <2>2. hooks' = [h \in Hooks |-> f[h]] BY DEF Crash
  <2> HIDE DEF f
  <2> QED BY <2>1, <2>2, HooksResetStay
<1> QED BY <1>1, RowSameStays DEF Crash, Quiet, GitLabStays, durable, gitlab

(* What a step of the system does to the rows, the label, the clock, the     *)
(* webhooks and the tasks.                                                   *)
StepKind ==
    \/ Quiet \/ TakesOver \/ Tells \/ Rereads \/ Saves \/ Begins \/ Puts \/ Replaces
    \/ \E h \in Hooks, e \in sent : StartsWrite(h, e)
    \/ \E h \in Hooks : WritesRequest(h)
    \/ \E q \in requests : Freezes(q)
    \/ \E q \in requests' : Asks(q)
    \/ Toggles("user")
    \/ \E h \in Hooks : hooks[h].pc = "unlabel" /\ Toggles("handler")

LEMMA NextKind == ASSUME IInv, [Next]_vars PROVE StepKind
<1>1. CASE UserToggles BY <1>1, UserTogglesKind DEF StepKind
<1>2. CASE \E outcome \in Outcomes : Decide(outcome) BY <1>2, DecideKind DEF StepKind
<1>3. CASE \E q \in requests : Prepare(q) BY <1>3, PrepareKind DEF StepKind
<1>4. CASE Recover BY <1>4, RecoverKind DEF StepKind
<1>5. CASE Finisher
  BY <1>5, PostCommentKind, PutLabelKind, SavesKind, BeginsKind, RereadKind, FinalizeKind,
     FinisherFailsKind DEF Finisher, StepKind
<1>6. CASE \E h \in Hooks : Hook(h) BY <1>6, HookKind DEF StepKind
<1>7. CASE Sync BY <1>7, SyncKind DEF StepKind
<1>8. CASE Crash BY <1>8, CrashKind DEF StepKind
<1>9. CASE UNCHANGED vars
  BY <1>9, HooksSameStay, RowSameStays
     DEF vars, durable, gitlab, volatile, Quiet, GitLabStays, StepKind
<1> QED BY <1>1, <1>2, <1>3, <1>4, <1>5, <1>6, <1>7, <1>8, <1>9 DEF Next
-----------------------------------------------------------------------------
(***************************************************************************)
(* The completion's own label changes.                                     *)
(*                                                                         *)
(* The argument follows the life of such a change's webhook.  The change   *)
(* is on record before it happens (OwnOnRecord, HolderOnRecord), so that   *)
(* no handler that finds the row pending takes it up.  A handler that      *)
(* decided on the write while the row was active holds a webhook from      *)
(* before the outcome, because the outcome's instant is read before the    *)
(* lock is waited for (RequestsStamped, WritesAreNotOwn).                  *)
(***************************************************************************)

(* A label change a completion made while the merge request was open. *)
Own(e) == e.by = "bot" /\ e.open

(* A change is identified by its tick, and none is from the future. *)
EventsStamped ==
    /\ \A e \in sent : e.msg =< now
    /\ \A e, f \in sent : e.msg = f.msg => e = f

OutcomeStamped == Pending => row.pending.at =< now

(* No own change follows the instant of an end that somebody waits to freeze. *)
RequestsStamped ==
    \A q \in requests :
       /\ q.at =< now /\ q.id < nextId
       /\ (row # None /\ row.id = q.id /\ row.pending = None) =>
            \A e \in sent : Own(e) => e.msg =< q.at

HooksStamped ==
    /\ 0 < nextId
    /\ \A h \in Hooks : /\ hooks[h].id < nextId
                        /\ hooks[h].ev # None => hooks[h].ev \in sent

Carries == row # None /\ row.intent # None

SeenWasSent == Carries => \A m \in row.intent.seen : \E e \in sent : e.msg = m

(* A cancellation is the interval of a change that was handled. *)
CancelWasHandled ==
    Carries /\ row.intent.cancelled # {} =>
        \E e \in sent : /\ e.msg \in row.intent.seen /\ Cancelling(e)
                        /\ row.intent.cancelled = {Clock(e).at}

OwnOnRecord ==
    Pending => \A e \in sent : Own(e) /\ row.pending.at < e.msg => e.kind \in row.pending.started

HolderOnRecord ==
    fin.pc # "idle" =>
       /\ fin.payload.started = row.pending.started
       /\ fin.pc \in {"cleanPut", "applyPut"} => Mutation \in fin.payload.started

WritesAreNotOwn ==
    \A h \in Hooks : hooks[h].pc = "write" /\ Pending /\ hooks[h].id = row.id /\ Own(hooks[h].ev)
                       => hooks[h].ev.msg =< row.pending.at

Stamps == EventsStamped /\ OutcomeStamped /\ RequestsStamped /\ HooksStamped

OwnInv == /\ Stamps /\ SeenWasSent /\ CancelWasHandled
          /\ OwnOnRecord /\ HolderOnRecord /\ WritesAreNotOwn /\ OwnChangesAreNotIntent

(* Types the steps below use. *)
LEMMA StampTypes ==
    ASSUME IInv
    PROVE  /\ now \in Nat /\ nextId \in Nat
           /\ \A e \in sent : e \in Events /\ e.msg \in Nat /\ e # None
           /\ \A q \in requests : q.id \in Nat /\ q.at \in Nat
           /\ \A h \in Hooks : hooks[h].id \in Nat
           /\ row # None => /\ row \in Rows /\ row.id \in Nat /\ row.id < nextId
                            /\ row.intent # None => row.intent \in Intents(Nat, Nat)
           /\ Pending => row.pending \in Payloads /\ row.pending.at \in Nat
<1>1. Pending => row.pending \in Payloads /\ row.pending.at \in Nat
  BY DEF IInv, TypeOK, Pending, Rows, Payloads
<1> QED BY <1>1, NoneIsNoRecord
        DEF IInv, TypeOK, LockOwnership, Events, Requests, Rows, HookTasks

LEMMA InitOwn == Init => OwnInv
<1> SUFFICES ASSUME Init PROVE OwnInv
  OBVIOUS
<1>1. row # None => row.pending = None /\ row.intent = None
  BY DEF Init, FreshRow
<1>2. IdleHook.pc = "idle" /\ IdleHook.ev = None /\ IdleHook.id = 0 /\ Free.pc = "idle"
  BY DEF IdleHook, Free
<1> QED BY <1>1, <1>2
        DEF Init, OwnInv, Stamps, EventsStamped, OutcomeStamped, RequestsStamped, HooksStamped,
            SeenWasSent, CancelWasHandled, Carries, OwnOnRecord, HolderOnRecord, WritesAreNotOwn,
            OwnChangesAreNotIntent, Pending

(* The webhooks do not change: the messages the tasks hold stay sent. *)
LEMMA HooksStampedStay ==
    ASSUME IInv, HooksStamped, HooksStay, sent' = sent, nextId' \in {nextId, nextId + 1}
    PROVE  HooksStamped'
BY StampTypes DEF HooksStamped, HooksStay, HookGoesOn

(* Whatever happens to the lock while everything else stays. *)
LEMMA StaysOwn ==
    ASSUME IInv, OwnInv, RowStays, HooksStay, GitLabStays, requests' \subseteq requests
    PROVE  /\ Stamps' /\ SeenWasSent' /\ CancelWasHandled'
           /\ OwnOnRecord' /\ WritesAreNotOwn' /\ OwnChangesAreNotIntent'
<1>1. Pending' <=> Pending
  BY DEF RowStays, Pending
<1>2. HooksStamped' BY HooksStampedStay DEF OwnInv, Stamps, RowStays, GitLabStays
<1>3. (EventsStamped /\ OutcomeStamped /\ RequestsStamped)'
  BY <1>1 DEF OwnInv, Stamps, EventsStamped, OutcomeStamped, RequestsStamped, RowStays,
              GitLabStays, Pending
<1>4. SeenWasSent'
  BY DEF OwnInv, SeenWasSent, Carries, RowStays, SameRequest, GitLabStays
<1>5. CancelWasHandled'
  BY DEF OwnInv, CancelWasHandled, Carries, RowStays, SameRequest, GitLabStays
<1>6. OwnOnRecord' /\ WritesAreNotOwn'
  BY <1>1 DEF OwnInv, OwnOnRecord, WritesAreNotOwn, RowStays, GitLabStays, HooksStay,
              HookGoesOn, Pending
<1>7. OwnChangesAreNotIntent'
  BY <1>1 DEF OwnInv, OwnChangesAreNotIntent, Handled, Own, RowStays, SameRequest,
              GitLabStays, Pending
<1> QED BY <1>2, <1>3, <1>4, <1>5, <1>6, <1>7 DEF Stamps

LEMMA QuietOwn == ASSUME IInv, OwnInv, Quiet PROVE OwnInv'
<1>1. HolderOnRecord'
  <2>1. CASE fin' = Free BY <2>1, FreeType DEF HolderOnRecord
  <2>2. CASE fin' = fin
    <3>1. fin.pc # "idle" => row # None BY HolderFacts
    <3>2. Mutation' = Mutation BY <2>2 DEF Mutation, RequeueMutation, OwnInstants
    <3> QED BY <3>1, <3>2, <2>2 DEF OwnInv, HolderOnRecord, Quiet, RowStays
  <2> QED BY <2>1, <2>2 DEF Quiet
<1> QED BY <1>1, StaysOwn DEF Quiet, OwnInv

(* The lock passes on with the payload of the row, or with more progress. *)
LEMMA LockOwn == ASSUME IInv, OwnInv, TakesOver \/ Tells \/ Rereads PROVE OwnInv'
<1>1. RowStays /\ HooksStay /\ GitLabStays /\ requests' \subseteq requests /\ row' = row
  BY RowSameStays, HooksSameStay DEF TakesOver, Tells, Rereads
<1>2. fin'.pc \notin {"idle", "cleanPut", "applyPut"} /\ fin'.payload.started = row.pending.started
  <2>1. CASE TakesOver
    BY <2>1 DEF TakesOver, ResumeAt, CleanupOrReread
  <2>2. CASE Tells
    <3>1. fin.payload \in Payloads BY <2>2, HolderFacts DEF Tells
    <3> QED BY <3>1, <2>2 DEF Tells, Payloads, OwnInv, HolderOnRecord
  <2>3. CASE Rereads
    BY <2>3 DEF Rereads, OwnInv, HolderOnRecord
  <2> QED BY <2>1, <2>2, <2>3
<1>3. HolderOnRecord'
  BY <1>1, <1>2 DEF HolderOnRecord
<1> QED BY <1>1, <1>3, StaysOwn DEF OwnInv

(* Progress is written: an operation may come on record, none goes. *)
LEMMA ProgressOwn == ASSUME IInv, OwnInv, Saves \/ Begins PROVE OwnInv'
<1>1. /\ fin.payload \in Payloads /\ Pending /\ row # None /\ row.pending \in Payloads
      /\ fin.payload.at = row.pending.at
      /\ fin.payload.started = row.pending.started
  BY HolderFacts DEF Saves, Begins, OwnInv, HolderOnRecord
<1>2. /\ row' # None /\ row'.id = row.id /\ row'.intent = row.intent
      /\ row'.pending = fin'.payload
      /\ GitLabStays /\ UNCHANGED <<nextId, requests, hooks>>
  BY DEF Saves, Begins
<1>3. /\ fin'.payload \in Payloads /\ fin'.payload.at = row.pending.at
      /\ row.pending.started \subseteq fin'.payload.started
  <2>1. CASE Saves BY <2>1, <1>1 DEF Saves
  <2>2. CASE Begins
    <3> DEFINE p == [fin.payload EXCEPT !.started = @ \cup {Mutation}, !.open = @ \cup {Mutation}]
    <3>1. fin'.payload = p BY <2>2 DEF Begins
    <3>2. p \in Payloads BY <1>1, MutationBegun, MutationType
    <3>3. p.at = fin.payload.at /\ p.started = fin.payload.started \cup {Mutation}
      BY <1>1 DEF Payloads
    <3> HIDE DEF p
    <3> QED BY <3>1, <3>2, <3>3, <1>1
  <2> QED BY <2>1, <2>2
<1>4. Pending' BY <1>2, <1>3, NoneIsNoRecord DEF Pending
<1>5. (EventsStamped /\ OutcomeStamped /\ RequestsStamped)'
  BY <1>1, <1>2, <1>3, <1>4 DEF OwnInv, Stamps, EventsStamped, OutcomeStamped, RequestsStamped,
              GitLabStays, Pending
<1>6. HooksStamped' /\ SeenWasSent' /\ CancelWasHandled'
  BY <1>1, <1>2 DEF OwnInv, Stamps, HooksStamped, SeenWasSent, CancelWasHandled, Carries, GitLabStays
<1>7. OwnOnRecord' /\ WritesAreNotOwn' /\ OwnChangesAreNotIntent'
  BY <1>1, <1>2, <1>3, <1>4 DEF OwnInv, OwnOnRecord, WritesAreNotOwn, OwnChangesAreNotIntent,
              Handled, Own, GitLabStays
<1>8. HolderOnRecord'
  <2>1. CASE Saves
    BY <2>1, <1>2 DEF Saves, HolderOnRecord
  <2>2. CASE Begins
    <3>1. Mutation \in fin'.payload.started BY <2>2, <1>1 DEF Begins, Payloads
    <3>2. Mutation' = Mutation
      <4>1. fin'.payload.receipts = fin.payload.receipts BY <2>2, <1>1 DEF Begins, Payloads
      <4> QED BY <4>1, <2>2 DEF Begins, Mutation, RequeueMutation, OwnInstants
    <3> QED BY <3>1, <3>2, <1>2 DEF HolderOnRecord
  <2> QED BY <2>1, <2>2
<1> QED BY <1>5, <1>6, <1>7, <1>8 DEF OwnInv, Stamps

(* A tick, with the webhook of a change perhaps. *)
LEMMA TickOwn ==
    ASSUME IInv, OwnInv, NEW e, e.msg = now + 1, now' = now + 1,
           sent' = sent \/ sent' = sent \cup {e},
           row' = row, nextId' = nextId, HooksStay
    PROVE  /\ EventsStamped' /\ OutcomeStamped' /\ HooksStamped' /\ SeenWasSent'
           /\ CancelWasHandled' /\ WritesAreNotOwn' /\ OwnChangesAreNotIntent'
<1>1. /\ now \in Nat /\ \A f \in sent : f.msg \in Nat /\ f.msg =< now /\ f.msg # now + 1
      /\ row # None /\ row.intent # None => \A m \in row.intent.seen : m # now + 1
  <2>1. now \in Nat /\ \A f \in sent : f.msg \in Nat /\ f.msg =< now
    BY StampTypes DEF OwnInv, Stamps, EventsStamped
  <2>2. \A f \in sent : f.msg # now + 1 BY <2>1
  <2> QED BY <2>1, <2>2 DEF OwnInv, SeenWasSent, Carries
<1>2. EventsStamped'
  <2>1. \A f \in sent' : f.msg =< now' BY <1>1
  <2>2. \A f, g \in sent' : f.msg = g.msg => f = g
    BY <1>1 DEF OwnInv, Stamps, EventsStamped
  <2> QED BY <2>1, <2>2 DEF EventsStamped
<1>3. OutcomeStamped'
  BY <1>1, StampTypes DEF OwnInv, Stamps, OutcomeStamped, Pending
<1>4. HooksStamped'
  <2>1. \A h \in Hooks : hooks'[h].id < nextId' /\ (hooks'[h].ev # None => hooks'[h].ev \in sent)
    BY StampTypes DEF OwnInv, Stamps, HooksStamped, HooksStay, HookGoesOn
  <2> QED BY <2>1 DEF OwnInv, Stamps, HooksStamped
<1>5. SeenWasSent' /\ CancelWasHandled'
  BY DEF OwnInv, SeenWasSent, CancelWasHandled, Carries
<1>6. WritesAreNotOwn'
  BY DEF OwnInv, WritesAreNotOwn, HooksStay, HookGoesOn, Pending
<1>7. OwnChangesAreNotIntent'
  BY <1>1 DEF OwnInv, OwnChangesAreNotIntent, Handled, Pending
<1> QED BY <1>2, <1>3, <1>4, <1>5, <1>6, <1>7

(* The PUT's change was put on record before. *)
LEMMA PutsOwn == ASSUME IInv, OwnInv, Puts PROVE OwnInv'
<1>1. /\ Pending /\ row # None /\ row.pending # None /\ row.pending.at \in Nat
      /\ fin.payload.started = row.pending.started /\ Mutation \in row.pending.started
  BY HolderFacts, StampTypes DEF Puts, OwnInv, HolderOnRecord, Pending
<1>2. row' = row /\ nextId' = nextId /\ requests' = requests /\ hooks' = hooks
      /\ RowStays /\ HooksStay
  BY RowSameStays, HooksSameStay DEF Puts
<1>3. HolderOnRecord'
  <2>1. fin' = Free \/ /\ fin'.payload.started = fin.payload.started
                       /\ fin'.pc \in {"saveClean", "saveApply"}
    BY DEF Puts
  <2> QED BY <2>1, <1>1, <1>2, FreeType DEF HolderOnRecord
<1>4. CASE GitLabStays
  BY <1>2, <1>3, <1>4, StaysOwn DEF OwnInv
<1>5. CASE ChangeLabel(Mutation = "add", "bot")
  <2> DEFINE kind == IF Mutation = "add" THEN "add" ELSE "remove"
             e    == [msg |-> now + 1, kind |-> kind, by |-> "bot", open |-> mrOpen]
  <2>1. now' = now + 1 /\ sent' = sent \cup {e} BY <1>5 DEF ChangeLabel
  <2>2. kind = Mutation BY MutationType
  <2>3. e.msg = now + 1 /\ e.kind = Mutation BY <2>2
  <2> HIDE DEF e, kind
  <2>4. /\ EventsStamped' /\ OutcomeStamped' /\ HooksStamped' /\ SeenWasSent'
        /\ CancelWasHandled' /\ WritesAreNotOwn' /\ OwnChangesAreNotIntent'
    BY <1>2, <2>1, <2>3, TickOwn
  <2>5. RequestsStamped'
    BY <1>1, <1>2, <2>1, StampTypes DEF OwnInv, Stamps, RequestsStamped
  <2>6. OwnOnRecord'
    BY <1>1, <1>2, <2>1, <2>3 DEF OwnInv, OwnOnRecord, Pending
  <2> QED BY <1>3, <2>4, <2>5, <2>6 DEF OwnInv, Stamps
<1> QED BY <1>4, <1>5 DEF Puts

(* A change of a user or a handler is not the completion's own. *)
LEMMA TogglesOwn == ASSUME IInv, OwnInv, NEW by, Toggles(by) PROVE OwnInv'
<1> DEFINE kind == IF ~label THEN "add" ELSE "remove"
           e    == [msg |-> now + 1, kind |-> kind, by |-> by, open |-> mrOpen]
<1>1. now' = now + 1 /\ sent' = sent \cup {e} BY DEF Toggles, ChangeLabel
<1>2. e.msg = now + 1 /\ ~Own(e) BY DEF Toggles, Own
<1> HIDE DEF e, kind
<1>3. row' = row /\ nextId' = nextId /\ HooksStay /\ requests' = requests /\ fin' = fin BY DEF Toggles
<1>4. /\ EventsStamped' /\ OutcomeStamped' /\ HooksStamped' /\ SeenWasSent'
      /\ CancelWasHandled' /\ WritesAreNotOwn' /\ OwnChangesAreNotIntent'
  BY <1>1, <1>2, <1>3, TickOwn
<1>5. RequestsStamped'
  BY <1>1, <1>2, <1>3, StampTypes DEF OwnInv, Stamps, RequestsStamped
<1>6. OwnOnRecord'
  BY <1>1, <1>2, <1>3 DEF OwnInv, OwnOnRecord, Pending
<1>7. HolderOnRecord'
  <2>1. Mutation' = Mutation BY <1>3 DEF Mutation, RequeueMutation, OwnInstants
  <2> QED BY <2>1, <1>3 DEF OwnInv, HolderOnRecord
<1> QED BY <1>4, <1>5, <1>6, <1>7 DEF OwnInv, Stamps

(* The instant of an end is read before it is asked for. *)
LEMMA AsksOwn == ASSUME IInv, OwnInv, NEW q, Asks(q) PROVE OwnInv'
<1> DEFINE e == [msg |-> now + 1, kind |-> "merge", by |-> "bot", open |-> FALSE]
<1>1. now' = now + 1 /\ (sent' = sent \/ sent' = sent \cup {e}) BY DEF Asks
<1>2. e.msg = now + 1 /\ ~Own(e) BY DEF Own
<1> HIDE DEF e
<1>3. row' = row /\ nextId' = nextId /\ HooksStay /\ fin' = fin BY DEF Asks
<1>4. /\ EventsStamped' /\ OutcomeStamped' /\ HooksStamped' /\ SeenWasSent'
      /\ CancelWasHandled' /\ WritesAreNotOwn' /\ OwnChangesAreNotIntent'
  BY <1>1, <1>2, <1>3, TickOwn
<1>5. RequestsStamped'
  <2>1. q.id = row.id /\ q.at = now + 1 /\ requests' = requests \cup {q} /\ row # None BY DEF Asks
  <2>2. q.id < nextId BY <2>1, StampTypes
  <2>3. \A f \in sent : f.msg =< now BY DEF OwnInv, Stamps, EventsStamped
  <2> QED BY <1>1, <1>2, <1>3, <2>1, <2>2, <2>3, StampTypes DEF OwnInv, Stamps, RequestsStamped
<1>6. OwnOnRecord'
  BY <1>1, <1>2, <1>3 DEF OwnInv, OwnOnRecord, Pending
<1>7. HolderOnRecord'
  <2>1. Mutation' = Mutation BY <1>3 DEF Mutation, RequeueMutation, OwnInstants
  <2> QED BY <2>1, <1>3 DEF OwnInv, HolderOnRecord
<1> QED BY <1>4, <1>5, <1>6, <1>7 DEF OwnInv, Stamps

(* All own changes precede the outcome that is frozen. *)
LEMMA FreezesOwn == ASSUME IInv, OwnInv, NEW q \in requests, Freezes(q) PROVE OwnInv'
<1>1. /\ row' # None /\ row'.id = row.id /\ row # None /\ row.id = q.id /\ row.pending = None
      /\ row'.intent \in {row.intent, None}
      /\ fin'.payload = row'.pending /\ fin'.pc = "comment"
      /\ HooksStay /\ GitLabStays /\ nextId' = nextId /\ requests' \subseteq requests
  BY DEF Freezes, Transferred
<1>2. row'.pending.at = q.at BY DEF Freezes, FrozenPayload
<1>3. q.at =< now /\ \A e \in sent : Own(e) => e.msg =< q.at
  BY <1>1 DEF OwnInv, Stamps, RequestsStamped
<1>4. row'.pending # None
  <2>1. IInv' => Pending' BY <1>1 DEF IInv, LockOwnership
  <2>2. FrozenPayload(q, row.intent) \in Payloads
    <3>1. q \in Requests /\ row.intent \in Intents(Nat, Nat) \cup {None}
      BY <1>1 DEF IInv, TypeOK, Rows
    <3> QED BY <3>1, FrozenPayloadType
  <2> QED BY <2>2, NoneIsNoRecord DEF Freezes
<1>5. (EventsStamped /\ OutcomeStamped /\ RequestsStamped)'
  BY <1>1, <1>2, <1>3, <1>4 DEF OwnInv, Stamps, EventsStamped, OutcomeStamped, RequestsStamped, GitLabStays
<1>6. HooksStamped' BY <1>1, HooksStampedStay DEF OwnInv, Stamps, GitLabStays
<1>7. SeenWasSent' /\ CancelWasHandled'
  BY <1>1 DEF OwnInv, SeenWasSent, CancelWasHandled, Carries, GitLabStays
<1>8. OwnOnRecord' /\ OwnChangesAreNotIntent'
  <2>1. \A e \in sent : Own(e) => ~(q.at < e.msg) /\ ~(e.msg > q.at)
    BY <1>3, StampTypes
  <2> QED BY <1>1, <1>2, <2>1 DEF OwnOnRecord, OwnChangesAreNotIntent, Own, GitLabStays
<1>9. WritesAreNotOwn'
  <2> SUFFICES ASSUME NEW h \in Hooks, hooks'[h].pc = "write", Own(hooks'[h].ev)
               PROVE  hooks'[h].ev.msg =< q.at
    BY <1>2 DEF WritesAreNotOwn
  <2>1. hooks'[h] = hooks[h] BY <1>1 DEF HooksStay, HookGoesOn
  <2>2. hooks[h].ev # None BY <2>1 DEF IInv, HooksHoldEvents
  <2>3. hooks[h].ev \in sent BY <2>2 DEF OwnInv, Stamps, HooksStamped
  <2> QED BY <2>1, <2>3, <1>3
<1>10. HolderOnRecord' BY <1>1 DEF HolderOnRecord
<1> QED BY <1>5, <1>6, <1>7, <1>8, <1>9, <1>10 DEF OwnInv, Stamps

(* The next incarnation has an id that no task knows yet. *)
LEMMA ReplacesOwn == ASSUME IInv, OwnInv, Replaces PROVE OwnInv'
<1>1. /\ HooksStay /\ GitLabStays /\ requests' = requests /\ fin'.pc = "idle" /\ ~Pending'
      /\ ~Carries'
  BY DEF Replaces, Pending, Carries
<1>2. nextId \in Nat /\ nextId' \in {nextId, nextId + 1} BY StampTypes DEF Replaces
<1>3. HooksStamped' BY <1>1, <1>2, HooksStampedStay DEF OwnInv, Stamps, GitLabStays
<1>4. RequestsStamped'
  <2> SUFFICES ASSUME NEW q \in requests
               PROVE  /\ q.at =< now /\ q.id < nextId'
                      /\ ~(row' # None /\ row'.id = q.id)
    BY <1>1 DEF RequestsStamped, GitLabStays
  <2>1. q.at =< now /\ q.id < nextId /\ q.id \in Nat
    BY StampTypes DEF OwnInv, Stamps, RequestsStamped
  <2> QED BY <2>1, <1>2 DEF Replaces
<1> QED BY <1>1, <1>3, <1>4
        DEF OwnInv, Stamps, EventsStamped, OutcomeStamped, SeenWasSent, CancelWasHandled,
            OwnOnRecord, HolderOnRecord, WritesAreNotOwn, OwnChangesAreNotIntent, GitLabStays, Pending, Carries

(* A handler does not take up a change that is on record. *)
LEMMA StartsWriteOwn ==
    ASSUME IInv, OwnInv, NEW h \in Hooks, NEW e \in sent, StartsWrite(h, e) PROVE OwnInv'
<1>1. /\ row # None /\ GitLabStays /\ UNCHANGED <<row, nextId, requests, fin>>
      /\ hooks'[h].pc = "write" /\ hooks'[h].ev = e /\ hooks'[h].id = row.id
      /\ \A g \in Hooks \ {h} : hooks'[g] = hooks[g]
  BY DEF StartsWrite
<1>2. HooksStamped'
  BY <1>1, StampTypes DEF OwnInv, Stamps, HooksStamped, GitLabStays
<1>3. WritesAreNotOwn'
  <2> SUFFICES ASSUME NEW g \in Hooks, hooks'[g].pc = "write", Pending, hooks'[g].id = row.id,
                      Own(hooks'[g].ev)
               PROVE  hooks'[g].ev.msg =< row.pending.at
    BY <1>1 DEF WritesAreNotOwn, Pending
  <2>1. CASE g = h
    <3>1. e.kind \notin row.pending.started
      BY <2>1, <1>1 DEF StartsWrite, OwnCompletionEvent, ByBot, Own, Pending
    <3>2. ~(row.pending.at < e.msg) BY <3>1, <2>1, <1>1 DEF OwnInv, OwnOnRecord
    <3> QED BY <3>2, <2>1, <1>1, StampTypes
  <2>2. CASE g # h
    BY <2>2, <1>1 DEF OwnInv, WritesAreNotOwn
  <2> QED BY <2>1, <2>2
<1>4. HolderOnRecord'
  <2>1. Mutation' = Mutation BY <1>1 DEF Mutation, RequeueMutation, OwnInstants
  <2> QED BY <2>1, <1>1 DEF OwnInv, HolderOnRecord
<1> QED BY <1>1, <1>2, <1>3, <1>4
        DEF OwnInv, Stamps, EventsStamped, OutcomeStamped, RequestsStamped, SeenWasSent,
            CancelWasHandled, Carries, OwnOnRecord, OwnChangesAreNotIntent, Handled, GitLabStays, Pending

(* The handler that writes holds a webhook GitLab sent. *)
LEMMA WriterFacts ==
    ASSUME IInv, OwnInv, NEW h \in Hooks, WritesRequest(h)
    PROVE  /\ hooks[h].ev \in sent /\ hooks[h].ev \in Events /\ hooks[h].ev.msg \in Nat
           /\ row.intent \in Intents(Nat, Nat) \cup {None}
           /\ Pending' <=> Pending
<1>1. hooks[h].ev # None BY DEF WritesRequest, IInv, HooksHoldEvents
<1>2. hooks[h].ev \in sent BY <1>1 DEF OwnInv, Stamps, HooksStamped
<1> QED BY <1>2, StampTypes DEF WritesRequest, Pending

(* The request takes up no change that is the completion's own. *)
LEMMA WritesRequestOwn == ASSUME IInv, OwnInv, NEW h \in Hooks, WritesRequest(h) PROVE OwnInv'
<1> DEFINE e == hooks[h].ev
<1>1. /\ e \in sent /\ e \in Events /\ e.msg \in Nat /\ (Pending' <=> Pending)
      /\ row.intent \in Intents(Nat, Nat) \cup {None}
  BY WriterFacts
<1>2. /\ row # None /\ row' # None /\ row'.id = row.id /\ row'.pending = row.pending
      /\ hooks[h].pc = "write" /\ row.id = hooks[h].id
      /\ HooksStay /\ GitLabStays /\ UNCHANGED <<nextId, requests, fin>>
      /\ row'.intent = WriteRequeue(e.msg, Clock(e), Cancelling(e), row.intent)
  BY DEF WritesRequest
<1> HIDE DEF e
(* What _write_requeue remembers: it forgets no message, learns at most the  *)
(* one that arrived, and a cancellation is that one's or an earlier one's.   *)
<1>3. \/ row'.intent = row.intent
      \/ /\ row'.intent.seen = Seen(row.intent) \cup {e.msg}
         /\ \/ row'.intent.cancelled = {}
            \/ row'.intent.cancelled = {Clock(e).at} /\ Cancelling(e)
  <2> DEFINE next == WriteRequeue(e.msg, Clock(e), Cancelling(e), row.intent)
  <2>1. row'.intent = next BY <1>2
  <2>2. \/ next = row.intent
        \/ /\ next.seen = Seen(row.intent) \cup {e.msg}
           /\ \/ next.cancelled = {}
              \/ next.cancelled = {Clock(e).at} /\ Cancelling(e)
    BY DEF WriteRequeue, CancelledRequeue, EnqueuedRequeue
  <2> HIDE DEF next
  <2> QED BY <2>1, <2>2
<1>4. \A m : Carries' /\ m \in row'.intent.seen => m = e.msg \/ (Carries /\ m \in row.intent.seen)
  BY <1>2, <1>3 DEF Seen, Carries
<1>5. SeenWasSent'
  BY <1>1, <1>2, <1>4 DEF OwnInv, SeenWasSent, Carries, GitLabStays
<1>6. CancelWasHandled'
  <2>1. CASE row'.intent = row.intent
    BY <2>1, <1>2 DEF OwnInv, CancelWasHandled, Carries, GitLabStays
  <2>2. CASE /\ row'.intent.seen = Seen(row.intent) \cup {e.msg}
             /\ \/ row'.intent.cancelled = {}
                \/ row'.intent.cancelled = {Clock(e).at} /\ Cancelling(e)
    <3>1. sent' = sent BY <1>2 DEF GitLabStays
    <3> QED BY <2>2, <3>1, <1>1 DEF CancelWasHandled
  <2> QED BY <1>3, <2>1, <2>2
<1>7. OwnChangesAreNotIntent'
  <2> SUFFICES ASSUME Pending, Carries', NEW f \in sent, Own(f), f.msg > row.pending.at,
                      f.msg \in row'.intent.seen
               PROVE  FALSE
    BY <1>1, <1>2 DEF OwnChangesAreNotIntent, Handled, Own, GitLabStays, Carries
  <2>1. CASE Carries /\ f.msg \in row.intent.seen
    BY <2>1 DEF OwnInv, OwnChangesAreNotIntent, Handled, Own, Carries
  <2>2. CASE f.msg = e.msg
    <3>1. f = e BY <2>2, <1>1 DEF OwnInv, Stamps, EventsStamped
    <3>2. e.msg =< row.pending.at BY <3>1, <1>2 DEF OwnInv, WritesAreNotOwn, e
    <3> QED BY <3>1, <3>2, <1>1, StampTypes
  <2> QED BY <1>4, <2>1, <2>2
<1>8. HolderOnRecord'
  <2>1. Mutation' = Mutation BY <1>2 DEF Mutation, RequeueMutation, OwnInstants
  <2> QED BY <2>1, <1>2 DEF OwnInv, HolderOnRecord
<1>9. HooksStamped' BY <1>2, HooksStampedStay DEF OwnInv, Stamps, GitLabStays
<1> QED BY <1>1, <1>2, <1>5, <1>6, <1>7, <1>8, <1>9
        DEF OwnInv, Stamps, EventsStamped, OutcomeStamped, RequestsStamped, OwnOnRecord,
            WritesAreNotOwn, HooksStay, HookGoesOn, GitLabStays, Pending

(* OwnInv is inductive, relative to IInv. *)
LEMMA NextOwn == IInv /\ OwnInv /\ [Next]_vars => OwnInv'
<1> SUFFICES ASSUME IInv, OwnInv, [Next]_vars PROVE OwnInv'
  OBVIOUS
<1>1. StepKind BY NextKind
<1> QED BY <1>1, QuietOwn, LockOwn, ProgressOwn, PutsOwn, TogglesOwn, AsksOwn, FreezesOwn,
           ReplacesOwn, StartsWriteOwn, WritesRequestOwn DEF StepKind

(***************************************************************************)
(* models/completion.py: "Bot cleanup events cannot cancel a user's        *)
(* explicit enqueue request."  For every number of handlers, lifecycles,   *)
(* crashes and lost answers, every timestamp precision, a shared account   *)
(* or none: no webhook of a label change the running completion made is    *)
(* ever taken into the request of its row.                                 *)
(***************************************************************************)
THEOREM CompletionIgnoresItself == Spec => []OwnChangesAreNotIntent
<1>1. OwnInv => OwnChangesAreNotIntent BY DEF OwnInv
<1> QED BY <1>1, InitIInv, NextIInv, InitOwn, NextOwn, PTL DEF Spec
-----------------------------------------------------------------------------
(***************************************************************************)
(* The request a completion rereads can be carried out.                    *)
(*                                                                         *)
(* It could not if every cancellation it took looked like the bot's while  *)
(* it names no trigger to restore.  A cancellation looks like the bot's    *)
(* when its truncated timestamp is the exact instant of an own change.     *)
(* That change itself was not handled (OwnChangesAreNotIntent); of the     *)
(* changes truncated to its instant only the next one is left when at most *)
(* two changes share a timestamp, and two removals do not follow each      *)
(* other, so that the own change put the label back: for a request that    *)
(* names its triggers (AddsAreWanted).                                     *)
(*                                                                         *)
(* Each restriction is needed.  With three changes in one interval a user  *)
(* may set and remove the label within the tick of the cleanup; with a PUT *)
(* echoing an old instant (NoopEcho) that instant may be a user's; and     *)
(* once the merge request is merged the bot's own changes are handled as   *)
(* cancellations, so the invariant speaks of an open one only.             *)
(***************************************************************************)

FewChangesPerTimestamp == Prec =< 2

OnlyLabelChanges == mrOpen /\ \A e \in sent : e.open /\ e.kind # "merge"

NoTwoRemovals ==
    /\ \A e, f \in sent : e.kind = "remove" /\ f.kind = "remove" => f.msg # e.msg + 1
    /\ \A e \in sent : e.kind = "remove" /\ e.msg = now => ~label

AreOwn(instants, at, events) == \A t \in instants : \E e \in events : Own(e) /\ e.msg = t /\ at < t

InstantsAreOwn ==
    /\ Pending => AreOwn(row.pending.receipts.instants, row.pending.at, sent)
    /\ fin.pc # "idle" => AreOwn(fin.payload.receipts.instants, row.pending.at, sent)

WantedOrCancelled == Carries /\ ~row.intent.wanted => row.intent.cancelled # {}

AddsAreWanted ==
    /\ Pending /\ "add" \in row.pending.started => Carries /\ row.intent.wanted
    /\ fin.pc = "apply" =>
         Carries /\ (RequeueIsCancelled(fin.intent, OwnInstants) \/ row.intent.wanted)

RestoreInv == OnlyLabelChanges /\ NoTwoRemovals /\ InstantsAreOwn /\ WantedOrCancelled /\ AddsAreWanted

(* _write_requeue leaves a request, whatever it found. *)
LEMMA WriteLeavesRequest ==
    ASSUME NEW msg \in Nat, NEW clock \in SimpleClocks, NEW cancelling \in BOOLEAN,
           NEW prev \in Intents(Nat, Nat) \cup {None}
    PROVE  WriteRequeue(msg, clock, cancelling, prev) \in Intents(Nat, Nat)
<1>1. prev = None => ~RequeueUnchanged(msg, clock, cancelling, prev)
  BY DEF RequeueUnchanged, OrderAgainst, Uncancelled
<1>2. WriteRequeue(msg, clock, cancelling, prev) \in Intents(Nat, Nat) \cup {None}
  BY WriteRequeueType
<1>3. prev = None => WriteRequeue(msg, clock, cancelling, prev) # None
  <2> SUFFICES ASSUME prev = None PROVE WriteRequeue(msg, clock, cancelling, prev) # None
    OBVIOUS
  <2>1. CASE cancelling
    <3>1. CancelledRequeue(msg, clock, prev) \in Intents(Nat, Nat)
      BY DEF CancelledRequeue, Intents, Seen, SimpleClocks
    <3> QED BY <2>1, <3>1, <1>1, NoneIsNoRequest DEF WriteRequeue
  <2>2. CASE ~cancelling
    <3>1. EnqueuedRequeue(msg, clock, prev) \in Intents(Nat, Nat)
      BY DEF EnqueuedRequeue, Intents, Seen, SimpleClocks, Uncancelled
    <3> QED BY <2>2, <3>1, <1>1, NoneIsNoRequest DEF WriteRequeue
  <2> QED BY <2>1, <2>2
<1>4. prev # None => WriteRequeue(msg, clock, cancelling, prev) # None
  <2> SUFFICES ASSUME prev # None PROVE WriteRequeue(msg, clock, cancelling, prev) # None
    OBVIOUS
  <2>1. CASE RequeueUnchanged(msg, clock, cancelling, prev)
    BY <2>1 DEF WriteRequeue
  <2>2. CASE ~RequeueUnchanged(msg, clock, cancelling, prev)
    <3>1. CancelledRequeue(msg, clock, prev) \in Intents(Nat, Nat)
      BY DEF CancelledRequeue, Intents, Seen, SimpleClocks
    <3>2. EnqueuedRequeue(msg, clock, prev) \in Intents(Nat, Nat)
      <4>1. Uncancelled(prev) => PreserveUncertainty(clock, prev.clock) \in SimpleClocks
        <5>1. Uncancelled(prev) => prev.clock \in SimpleClocks BY DEF Uncancelled, Intents, SimpleClocks
        <5> QED BY <5>1, PreserveType
      <4> QED BY <4>1 DEF EnqueuedRequeue, Intents, Seen, SimpleClocks
    <3> QED BY <2>2, <3>1, <3>2, NoneIsNoRequest DEF WriteRequeue
  <2> QED BY <2>1, <2>2
<1> QED BY <1>2, <1>3, <1>4

(* What GitLab sees of a step: nothing, a label change, or an end asked for. *)
GitLabKind ==
    \/ GitLabStays
    \/ \E by \in {"user", "bot", "handler"} : ChangeLabel(~label, by)
    \/ \E q \in requests' : Asks(q)

LEMMA StepEmits == ASSUME IInv, StepKind PROVE GitLabKind
<1>1. CASE Puts
  <2>1. CASE label # (Mutation = "add") /\ ChangeLabel(Mutation = "add", "bot")
    <3>1. (Mutation = "add") = ~label BY <2>1 DEF IInv, TypeOK
    <3>2. ChangeLabel(~label, "bot") BY <2>1, <3>1, Zenon
    <3> QED BY <3>2 DEF GitLabKind
  <2> QED BY <1>1, <2>1 DEF Puts, GitLabKind
<1>2. CASE Toggles("user") \/ \E h \in Hooks : Toggles("handler")
  BY <1>2 DEF Toggles, GitLabKind
<1>3. CASE \E q \in requests' : Asks(q)
  BY <1>3 DEF GitLabKind
<1>4. Quiet \/ TakesOver \/ Tells \/ Rereads \/ Saves \/ Begins \/ Replaces => GitLabStays
  BY DEF Quiet, TakesOver, Tells, Rereads, Saves, Begins, Replaces
<1>5. /\ \A h \in Hooks, e \in sent : StartsWrite(h, e) => GitLabStays
      /\ \A h \in Hooks : WritesRequest(h) => GitLabStays
      /\ \A q \in requests : Freezes(q) => GitLabStays
  BY DEF StartsWrite, WritesRequest, Freezes
<1> QED BY <1>1, <1>2, <1>3, <1>4, <1>5 DEF StepKind, GitLabKind

(* No webhook is unsent. *)
LEMMA SentGrows == ASSUME GitLabKind PROVE sent \subseteq sent'
BY DEF GitLabKind, GitLabStays, ChangeLabel, Asks

(* The merge request is not opened again, and only a merge closes it. *)
LEMMA NeverReopened == ASSUME GitLabKind PROVE mrOpen' => mrOpen
BY DEF GitLabKind, GitLabStays, ChangeLabel, Asks

LEMMA StaysOpen == ASSUME "merged" \notin Outcomes, GitLabKind PROVE mrOpen => mrOpen'
BY DEF GitLabKind, GitLabStays, ChangeLabel, Asks

LEMMA NextOnlyLabels ==
    ASSUME mrOpen', OnlyLabelChanges, GitLabKind PROVE OnlyLabelChanges'
<1>1. CASE GitLabStays BY <1>1 DEF OnlyLabelChanges, GitLabStays
<1>2. ASSUME NEW by, ChangeLabel(~label, by) PROVE OnlyLabelChanges'
  <2> DEFINE e == [msg |-> now + 1, kind |-> IF ~label THEN "add" ELSE "remove", by |-> by, open |-> mrOpen]
  <2>1. sent' = sent \cup {e} /\ mrOpen' = mrOpen BY <1>2 DEF ChangeLabel
  <2>2. e.open = mrOpen /\ e.kind # "merge" OBVIOUS
  <2> HIDE DEF e
  <2> QED BY <2>1, <2>2 DEF OnlyLabelChanges
<1>3. ASSUME NEW q, Asks(q) PROVE OnlyLabelChanges'
  BY <1>3 DEF OnlyLabelChanges, Asks
<1> QED BY <1>1, <1>2, <1>3 DEF GitLabKind

LEMMA NextNoTwoRemovals ==
    ASSUME IInv, OwnInv, NoTwoRemovals, GitLabKind PROVE NoTwoRemovals'
<1>1. now \in Nat /\ \A e \in sent : e.msg \in Nat /\ e.msg =< now
  BY StampTypes DEF OwnInv, Stamps, EventsStamped
<1>2. CASE GitLabStays
  BY <1>2 DEF NoTwoRemovals, GitLabStays
<1>3. ASSUME NEW by, ChangeLabel(~label, by) PROVE NoTwoRemovals'
  <2> DEFINE n == [msg |-> now + 1, kind |-> IF ~label THEN "add" ELSE "remove", by |-> by, open |-> mrOpen]
  <2>1. now' = now + 1 /\ label' = ~label /\ sent' = sent \cup {n} BY <1>3 DEF ChangeLabel
  <2>2. n.msg = now + 1 /\ (n.kind = "remove" <=> label) OBVIOUS
  <2> HIDE DEF n
  <2>3. ASSUME NEW e \in sent', NEW f \in sent', e.kind = "remove", f.kind = "remove", f.msg = e.msg + 1
        PROVE  FALSE
    <3>1. e \in sent BY <2>1, <2>2, <2>3, <1>1
    <3>2. CASE f \in sent BY <3>1, <3>2, <2>3 DEF NoTwoRemovals
    <3>3. CASE f = n
      <4>1. e.msg = now BY <3>1, <3>3, <2>2, <2>3, <1>1
      <4> QED BY <3>1, <3>3, <4>1, <2>2, <2>3 DEF NoTwoRemovals
    <3> QED BY <3>2, <3>3, <2>1
  <2>4. ASSUME NEW e \in sent', e.kind = "remove", e.msg = now' PROVE ~label'
    <3>1. e \notin sent BY <2>1, <2>4, <1>1
    <3>2. e = n BY <2>1, <3>1
    <3> QED BY <2>1, <2>2, <2>4, <3>2
  <2> QED BY <2>3, <2>4 DEF NoTwoRemovals
<1>4. ASSUME NEW q, Asks(q) PROVE NoTwoRemovals'
  <2>1. now' = now + 1 /\ label' = label /\ \A e \in sent' : e.kind = "remove" => e \in sent
    BY <1>4 DEF Asks
  <2>2. \A e \in sent' : e.kind = "remove" => e.msg # now'
    BY <2>1, <1>1
  <2> QED BY <2>1, <2>2 DEF NoTwoRemovals
<1> QED BY <1>2, <1>3, <1>4 DEF GitLabKind

(* The instants on record are ticks of own changes after the outcome. *)
LEMMA NextInstantsAreOwn ==
    ASSUME ~NoopEcho, IInv, OwnInv, OnlyLabelChanges, InstantsAreOwn, StepKind
    PROVE  InstantsAreOwn'
<1>1. \A I, a : AreOwn(I, a, sent) => AreOwn(I, a, sent')
  BY StepEmits, SentGrows DEF AreOwn
<1>2. fin.pc # "idle" => /\ row # None /\ row.pending # None /\ fin.payload \in Payloads
                         /\ fin.payload.at = row.pending.at
                         /\ AreOwn(fin.payload.receipts.instants, row.pending.at, sent)
  BY HolderFacts DEF InstantsAreOwn, Pending
<1>3. ASSUME row' = row \/ RowStays, fin' = fin \/ fin'.pc = "idle" PROVE InstantsAreOwn'
  <2>1. Pending' => Pending /\ row'.pending = row.pending BY <1>3 DEF RowStays, Pending
  <2>2. fin'.pc # "idle" => row'.pending = row.pending BY <1>2, <1>3 DEF RowStays
  <2> QED BY <1>1, <1>3, <2>1, <2>2 DEF InstantsAreOwn
<1>4. CASE Quiet
  BY <1>3, <1>4, FreeType DEF Quiet
<1>5. CASE TakesOver
  BY <1>1, <1>5 DEF TakesOver, InstantsAreOwn, Pending
<1>6. CASE Tells \/ Rereads
  <2>1. row' = row /\ fin.pc # "idle" BY <1>6 DEF Tells, Rereads
  <2>2. fin'.payload.receipts = fin.payload.receipts
    <3>1. CASE Tells BY <3>1, <1>2, <2>1 DEF Tells, Payloads
    <3>2. CASE Rereads BY <3>2 DEF Rereads
    <3> QED BY <1>6, <3>1, <3>2
  <2> QED BY <1>1, <1>2, <2>1, <2>2 DEF InstantsAreOwn, Pending
<1>7. CASE Saves \/ Begins
  <2>1. fin.pc # "idle" /\ row'.pending = fin'.payload BY <1>7 DEF Saves, Begins
  <2>2. fin'.payload.receipts = fin.payload.receipts /\ fin'.payload.at = row.pending.at
    <3>1. CASE Saves BY <3>1, <1>2, <2>1 DEF Saves
    <3>2. CASE Begins BY <3>2, <1>2, <2>1 DEF Begins, Payloads
    <3> QED BY <1>7, <3>1, <3>2
  <2> QED BY <1>1, <1>2, <2>1, <2>2 DEF InstantsAreOwn
<1>8. CASE Puts
  <2>1. row' = row /\ fin.pc # "idle" BY <1>8 DEF Puts
  <2>2. row.pending.at \in Nat /\ row.pending.at =< now /\ now \in Nat /\ row.pending.at < now + 1
    <3>1. row.pending.at \in Nat /\ row.pending.at =< now /\ now \in Nat
      BY <1>2, <2>1, StampTypes DEF OwnInv, Stamps, OutcomeStamped, Pending
    <3> QED BY <3>1
  <2> DEFINE changed == label # (Mutation = "add")
  <2>3. AreOwn(Answered(changed), row.pending.at, sent')
    <3>1. CASE ~changed BY <3>1 DEF Answered, AreOwn
    <3>2. CASE changed
      <4>1. ChangeLabel(Mutation = "add", "bot") BY <3>2, <1>8 DEF Puts, GitLabStays
      <4> DEFINE n == [msg |-> now + 1, kind |-> IF Mutation = "add" THEN "add" ELSE "remove",
                       by |-> "bot", open |-> mrOpen]
      <4>2. n \in sent' BY <4>1 DEF ChangeLabel
      <4>3. n.msg = now + 1 /\ Own(n) BY DEF Own, OnlyLabelChanges
      <4>4. Answered(changed) = {now + 1} BY <3>2 DEF Answered
      <4> HIDE DEF n, changed
      <4> QED BY <4>2, <4>3, <4>4, <2>2 DEF AreOwn
    <3> QED BY <3>1, <3>2
  <2>4. \/ fin' = Free
        \/ fin'.payload.receipts.instants = fin.payload.receipts.instants \cup Answered(changed)
    BY <1>8 DEF Puts
  <2> HIDE DEF changed
  <2>5. Pending' => AreOwn(row'.pending.receipts.instants, row'.pending.at, sent')
    BY <1>1, <2>1 DEF InstantsAreOwn, Pending
  <2>6. fin'.pc # "idle" => AreOwn(fin'.payload.receipts.instants, row'.pending.at, sent')
    BY <1>1, <1>2, <2>1, <2>3, <2>4, FreeType DEF AreOwn
  <2> QED BY <2>5, <2>6 DEF InstantsAreOwn
<1>9. CASE Replaces
  BY <1>9 DEF Replaces, InstantsAreOwn, Pending
<1>10. ASSUME NEW q \in requests, Freezes(q) PROVE InstantsAreOwn'
  <2>1. fin'.payload = row'.pending BY <1>10 DEF Freezes
  <2>2. row'.pending.receipts.instants = {} BY <1>10 DEF Freezes, FrozenPayload, NoReceipts
  <2> QED BY <2>1, <2>2 DEF InstantsAreOwn, AreOwn
<1>11. ASSUME NEW h \in Hooks, WritesRequest(h) PROVE InstantsAreOwn'
  <2>1. row'.pending = row.pending /\ (Pending' => Pending) /\ fin' = fin
    BY <1>11, WriterFacts DEF WritesRequest
  <2> QED BY <1>1, <2>1 DEF InstantsAreOwn
<1>12. CASE \/ \E h \in Hooks, e \in sent : StartsWrite(h, e)
            \/ \E q \in requests' : Asks(q)
            \/ Toggles("user") \/ \E h \in Hooks : Toggles("handler")
  <2>1. row' = row /\ fin' = fin BY <1>12 DEF StartsWrite, Asks, Toggles
  <2> QED BY <2>1, <1>3
<1> QED BY <1>4, <1>5, <1>6, <1>7, <1>8, <1>9, <1>10, <1>11, <1>12 DEF StepKind

(* The request of a row the step leaves: the same, or the one a handler wrote. *)
LEMMA RequestSteps ==
    ASSUME IInv, OwnInv, StepKind, Carries'
    PROVE  \/ Carries /\ SameRequest(row.intent, row'.intent)
           \/ \E h \in Hooks : WritesRequest(h)
<1>1. ASSUME row # None, row'.intent = row.intent
      PROVE  Carries /\ SameRequest(row.intent, row'.intent)
  BY <1>1 DEF Carries, SameRequest
<1>2. CASE Quiet BY <1>2 DEF Quiet, RowStays, Carries, SameRequest
<1>3. CASE TakesOver \/ Tells \/ Rereads \/ Puts \/ (\E h \in Hooks, e \in sent : StartsWrite(h, e))
           \/ (\E q \in requests' : Asks(q)) \/ Toggles("user") \/ (\E h \in Hooks : Toggles("handler"))
  <2>1. row' = row BY <1>3 DEF TakesOver, Tells, Rereads, Puts, StartsWrite, Asks, Toggles
  <2> QED BY <2>1, <1>1 DEF Carries
<1>4. CASE Saves \/ Begins
  BY <1>1, <1>4, HolderFacts DEF Saves, Begins
<1>5. ~Replaces BY DEF Replaces, Carries
<1>6. ASSUME NEW q \in requests, Freezes(q) PROVE Carries /\ SameRequest(row.intent, row'.intent)
  BY <1>6, <1>1 DEF Freezes, Transferred, Carries
<1> QED BY <1>2, <1>3, <1>4, <1>5, <1>6 DEF StepKind

(* The request a handler wrote. *)
LEMMA WrittenRequest ==
    ASSUME IInv, OwnInv, NEW h \in Hooks, WritesRequest(h)
    PROVE  /\ Carries'
           /\ (Carries /\ row.intent.wanted) => row'.intent.wanted
           /\ \/ Carries /\ row'.intent = row.intent
              \/ row'.intent.cancelled # {}
              \/ row'.intent.wanted
<1> DEFINE e == hooks[h].ev
<1>1. e \in Events /\ e.msg \in Nat /\ row.intent \in Intents(Nat, Nat) \cup {None}
      /\ row # None /\ row' # None
      /\ row'.intent = WriteRequeue(e.msg, Clock(e), Cancelling(e), row.intent)
  BY WriterFacts DEF WritesRequest
<1> HIDE DEF e
<1>2. Clock(e) \in SimpleClocks /\ Cancelling(e) \in BOOLEAN
  BY <1>1, ClockType DEF SimpleClocks, Cancelling
<1>3. row'.intent \in Intents(Nat, Nat) /\ row'.intent # None
  BY <1>1, <1>2, WriteLeavesRequest, NoneIsNoRequest
<1>4. \/ row'.intent = row.intent
      \/ row'.intent.cancelled = {} /\ row'.intent.wanted = TRUE
      \/ /\ row'.intent.cancelled = {Clock(e).at}
         /\ row'.intent.wanted = (row.intent # None /\ row.intent.wanted)
  <2> DEFINE next == WriteRequeue(e.msg, Clock(e), Cancelling(e), row.intent)
  <2>1. row'.intent = next BY <1>1
  <2>2. \/ next = row.intent
        \/ next.cancelled = {} /\ next.wanted = TRUE
        \/ /\ next.cancelled = {Clock(e).at}
           /\ next.wanted = (row.intent # None /\ row.intent.wanted)
    BY DEF WriteRequeue, CancelledRequeue, EnqueuedRequeue
  <2> HIDE DEF next
  <2> QED BY <2>1, <2>2
<1> QED BY <1>1, <1>3, <1>4 DEF Carries

LEMMA NextWantedOrCancelled ==
    ASSUME IInv, OwnInv, WantedOrCancelled, StepKind PROVE WantedOrCancelled'
<1> SUFFICES ASSUME Carries', ~row'.intent.wanted PROVE row'.intent.cancelled # {}
  BY DEF WantedOrCancelled
<1>1. CASE Carries /\ SameRequest(row.intent, row'.intent)
  BY <1>1 DEF WantedOrCancelled, Carries, SameRequest
<1>2. ASSUME NEW h \in Hooks, WritesRequest(h) PROVE row'.intent.cancelled # {}
  BY <1>2, WrittenRequest DEF WantedOrCancelled
<1> QED BY <1>1, <1>2, RequestSteps

(* Nothing but the end of the lifecycle takes a request away that names its  *)
(* triggers.                                                                 *)
LEMMA WantedStays ==
    ASSUME IInv, OwnInv, StepKind, Pending, Pending', Carries
    PROVE  Carries' /\ (row.intent.wanted => row'.intent.wanted)
<1>1. Carries'
  <2>1. CASE Quiet BY <2>1 DEF Quiet, RowStays, Carries, SameRequest
  <2>2. CASE TakesOver \/ Tells \/ Rereads \/ Puts \/ (\E h \in Hooks, e \in sent : StartsWrite(h, e))
             \/ (\E q \in requests' : Asks(q)) \/ Toggles("user") \/ (\E h \in Hooks : Toggles("handler"))
    <3>1. row' = row BY <2>2 DEF TakesOver, Tells, Rereads, Puts, StartsWrite, Asks, Toggles
    <3> QED BY <3>1 DEF Carries
  <2>3. CASE Saves \/ Begins BY <2>3 DEF Saves, Begins, Carries
  <2>4. ~Replaces BY DEF Replaces, Pending
  <2>5. \A q \in requests : ~Freezes(q) BY DEF Freezes, Pending
  <2>6. \A h \in Hooks : WritesRequest(h) => Carries' BY WrittenRequest
  <2> QED BY <2>1, <2>2, <2>3, <2>4, <2>5, <2>6 DEF StepKind
<1>2. row.intent.wanted => row'.intent.wanted
  BY <1>1, RequestSteps, WrittenRequest DEF Carries, SameRequest
<1> QED BY <1>1, <1>2

(* The row still is this lifecycle's, and nothing new is put on record. *)
LEMMA AddsStay ==
    ASSUME IInv, IInv', OwnInv, StepKind, AddsAreWanted,
           Pending' => Pending /\ row'.pending.started \subseteq row.pending.started,
           fin'.pc = "apply" => /\ fin.pc = "apply" /\ fin'.intent = fin.intent
                                /\ OwnInstants' = OwnInstants
    PROVE  AddsAreWanted'
<1>1. Pending' /\ "add" \in row'.pending.started => Carries' /\ row'.intent.wanted
  BY WantedStays DEF AddsAreWanted
<1>2. ASSUME fin'.pc = "apply"
      PROVE  Carries' /\ (RequeueIsCancelled(fin'.intent, OwnInstants') \/ row'.intent.wanted)
  <2>1. Pending' /\ Pending BY <1>2 DEF IInv, LockOwnership
  <2>2. Carries /\ (RequeueIsCancelled(fin.intent, OwnInstants) \/ row.intent.wanted)
    BY <1>2 DEF AddsAreWanted
  <2> QED BY <2>1, <2>2, <1>2, WantedStays
<1> QED BY <1>1, <1>2 DEF AddsAreWanted

LEMMA NextAddsAreWanted ==
    ASSUME IInv, IInv', OwnInv, StepKind, AddsAreWanted PROVE AddsAreWanted'
<1>1. fin.pc # "idle" => /\ row # None /\ Pending /\ fin.payload \in Payloads
                         /\ fin.payload.started = row.pending.started
  BY HolderFacts DEF OwnInv, HolderOnRecord
<1>2. CASE Quiet
  <2>1. Pending' => Pending /\ row'.pending = row.pending BY <1>2 DEF Quiet, RowStays, Pending
  <2>2. fin' = fin \/ fin'.pc = "idle" BY <1>2, FreeType DEF Quiet
  <2> QED BY <2>1, <2>2, AddsStay DEF OwnInstants
<1>3. CASE TakesOver \/ Tells
  <2>1. row' = row /\ fin'.pc # "apply"
    BY <1>3 DEF TakesOver, Tells, ResumeAt, CleanupOrReread
  <2> QED BY <2>1, AddsStay DEF Pending
<1>4. CASE Rereads
  <2>1. row' = row /\ fin'.payload = fin.payload BY <1>4 DEF Rereads
  <2>2. fin'.pc = "apply" => Carries /\ fin'.intent = row.intent /\ Restorable(row.intent)
    BY <1>4 DEF Rereads, Carries
  <2> QED BY <2>1, <2>2 DEF AddsAreWanted, Restorable, OwnInstants, Pending, Carries
<1>5. CASE Saves
  <2>1. fin'.pc # "apply" /\ row'.pending.started = row.pending.started /\ Pending
    BY <1>1, <1>5 DEF Saves
  <2> QED BY <2>1, AddsStay
<1>6. CASE Begins
  <2>1. fin.pc \in {"clean", "apply"} /\ fin'.pc # "apply" /\ row'.intent = row.intent
        /\ row' # None /\ row'.pending.started = row.pending.started \cup {Mutation} /\ Pending
    BY <1>1, <1>6 DEF Begins, Payloads
  <2>2. Mutation = "add" => Carries /\ row.intent.wanted
    BY <2>1 DEF Mutation, RequeueMutation, AddsAreWanted
  <2>3. "add" \in row'.pending.started => Carries /\ row.intent.wanted
    BY <2>1, <2>2 DEF AddsAreWanted
  <2> QED BY <2>1, <2>3 DEF AddsAreWanted, Carries
<1>7. CASE Puts
  <2>1. row' = row /\ fin'.pc # "apply" BY <1>7, FreeType DEF Puts
  <2> QED BY <2>1, AddsStay DEF Pending
<1>8. CASE Replaces
  BY <1>8 DEF Replaces, AddsAreWanted, Pending
<1>9. ASSUME NEW q \in requests, Freezes(q) PROVE AddsAreWanted'
  <2>1. row'.pending.started = {} /\ fin'.pc = "comment" BY <1>9 DEF Freezes, FrozenPayload
  <2> QED BY <2>1 DEF AddsAreWanted
<1>10. ASSUME NEW h \in Hooks, WritesRequest(h) PROVE AddsAreWanted'
  <2>1. row'.pending = row.pending /\ (Pending' => Pending) /\ fin' = fin
    BY <1>10, WriterFacts DEF WritesRequest
  <2> QED BY <2>1, AddsStay DEF OwnInstants
<1>11. CASE \/ \E h \in Hooks, e \in sent : StartsWrite(h, e)
            \/ \E q \in requests' : Asks(q)
            \/ Toggles("user") \/ \E h \in Hooks : Toggles("handler")
  <2>1. row' = row /\ fin' = fin BY <1>11 DEF StartsWrite, Asks, Toggles
  <2> QED BY <2>1, AddsStay DEF OwnInstants, Pending
<1> QED BY <1>2, <1>3, <1>4, <1>5, <1>6, <1>7, <1>8, <1>9, <1>10, <1>11 DEF StepKind

LEMMA InitRestore == Init => RestoreInv
<1> SUFFICES ASSUME Init PROVE RestoreInv
  OBVIOUS
<1>1. row # None => row.pending = None /\ row.intent = None BY DEF Init, FreshRow
<1>2. Free.pc = "idle" BY DEF Free
<1> QED BY <1>1, <1>2
        DEF Init, RestoreInv, OnlyLabelChanges, NoTwoRemovals, InstantsAreOwn, WantedOrCancelled,
            AddsAreWanted, Carries, Pending

RestorableWhileOpen == mrOpen => RestoreInv

LEMMA NextRestore ==
    ASSUME ~NoopEcho
    PROVE  IInv /\ OwnInv /\ RestorableWhileOpen /\ [Next]_vars => RestorableWhileOpen'
<1> SUFFICES ASSUME IInv, OwnInv, RestorableWhileOpen, [Next]_vars, mrOpen' PROVE RestoreInv'
  BY DEF RestorableWhileOpen
<1>1. StepKind /\ GitLabKind BY NextKind, StepEmits
<1>0. RestoreInv BY <1>1, NeverReopened DEF RestorableWhileOpen
<1>2. IInv' BY NextIInv
<1> QED BY <1>0, <1>1, <1>2, NextOnlyLabels, NextNoTwoRemovals, NextInstantsAreOwn,
           NextWantedOrCancelled, NextAddsAreWanted DEF RestoreInv

(* The changes a truncated timestamp may belong to. *)
LEMMA FewTicks ==
    ASSUME FewChangesPerTimestamp, NEW e, e.msg \in Nat
    PROVE  e.msg = Clock(e).at \/ e.msg = Clock(e).at + 1
<1>1. Prec = 1 \/ Prec = 2 BY CompletionConstants DEF FewChangesPerTimestamp
<1>2. CASE Prec = 1
  <2>1. e.msg % 1 = 0 OBVIOUS
  <2> QED BY <2>1, <1>2 DEF Clock
<1>3. CASE Prec = 2
  <2>1. e.msg % 2 = 0 \/ e.msg % 2 = 1 OBVIOUS
  <2> QED BY <2>1, <1>3 DEF Clock
<1> QED BY <1>1, <1>2, <1>3

(* A request that names no trigger was cancelled by somebody else. *)
LEMMA UnwantedIsCancelled ==
    ASSUME FewChangesPerTimestamp, IInv, OwnInv, RestoreInv, Pending, Carries, ~row.intent.wanted,
           NEW instants, AreOwn(instants, row.pending.at, sent)
    PROVE  RequeueIsCancelled(row.intent, instants)
<1> SUFFICES ASSUME row.intent.cancelled \subseteq instants PROVE FALSE
  BY DEF RequeueIsCancelled
<1>1. row.intent.cancelled # {} BY DEF RestoreInv, WantedOrCancelled
<1>2. PICK e \in sent : /\ e.msg \in row.intent.seen /\ Cancelling(e)
                        /\ row.intent.cancelled = {Clock(e).at}
  BY <1>1 DEF OwnInv, CancelWasHandled
<1>3. PICK f \in sent : Own(f) /\ f.msg = Clock(e).at /\ row.pending.at < f.msg
  BY <1>2 DEF AreOwn
<1>4. e \in Events /\ f \in Events /\ e.msg \in Nat /\ e.kind = "remove" /\ f.kind \in {"add", "remove"}
  <2>1. e \in Events /\ f \in Events /\ e.msg \in Nat BY StampTypes
  <2> QED BY <1>2, <2>1 DEF RestoreInv, OnlyLabelChanges, Cancelling, Events
<1>5. f.msg \notin row.intent.seen
  BY <1>3 DEF Own, OwnInv, OwnChangesAreNotIntent, Handled, Carries,
              Pending
<1>6. e.msg = f.msg + 1 BY <1>2, <1>3, <1>4, <1>5, FewTicks
<1>7. f.kind = "add" BY <1>4, <1>6 DEF RestoreInv, NoTwoRemovals
<1>8. "add" \in row.pending.started BY <1>3, <1>7 DEF OwnInv, OwnOnRecord
<1> QED BY <1>8 DEF RestoreInv, AddsAreWanted

(***************************************************************************)
(* models/completion.py restores the label of a request that is not        *)
(* cancelled from the triggers it names; a KeyError on the way would leave *)
(* the row pending on this attempt and on every recovery.  Whatever        *)
(* changes users, handlers and crashes interleave with the completion of   *)
(* an open merge request, the request it rereads is cancelled or names its *)
(* triggers.                                                               *)
(***************************************************************************)
THEOREM OpenRequestsAreRestorable ==
    ASSUME FewChangesPerTimestamp, ~NoopEcho PROVE Spec => [](mrOpen => RequestIsRestorable)
<1>1. IInv /\ OwnInv /\ RestorableWhileOpen => (mrOpen => RequestIsRestorable)
  <2> SUFFICES ASSUME IInv, OwnInv, RestoreInv, fin.pc = "reread", Pending, row.intent # None
               PROVE  Restorable(row.intent)
    BY DEF RequestIsRestorable, FinAt, RestorableWhileOpen
  <2>1. Carries /\ AreOwn(OwnInstants, row.pending.at, sent)
    BY DEF Carries, Pending, RestoreInv, InstantsAreOwn, OwnInstants
  <2> QED BY <2>1, UnwantedIsCancelled DEF Restorable
<1>2. Init => RestorableWhileOpen BY InitRestore DEF RestorableWhileOpen
<1> QED BY <1>1, <1>2, InitIInv, NextIInv, InitOwn, NextOwn, NextRestore, PTL DEF Spec

(* Without merges the merge request stays open. *)
LEMMA AlwaysOpen == ASSUME "merged" \notin Outcomes PROVE Spec => []mrOpen
<1>1. Init => mrOpen BY DEF Init
<1>2. IInv /\ mrOpen /\ [Next]_vars => mrOpen' BY NextKind, StepEmits, StaysOpen
<1> QED BY <1>1, <1>2, InitIInv, NextIInv, PTL DEF Spec

(***************************************************************************)
(* models/completion.py: when the processor's outcomes are failures, no    *)
(* completion rereads a request whose restoration raises, not even when a  *)
(* crash or a failed call made it start over.                              *)
(***************************************************************************)
THEOREM RequestsAreRestorable ==
    ASSUME FewChangesPerTimestamp, "merged" \notin Outcomes, ~NoopEcho
    PROVE  Spec => []RequestIsRestorable
BY OpenRequestsAreRestorable, AlwaysOpen, PTL
-----------------------------------------------------------------------------
(***************************************************************************)
(* The label agrees with the queue when a completion ends.                 *)
(*                                                                         *)
(* Two cases meet at the finalization.  With a request the holder applied  *)
(* its label, and a user who touched the label since then emitted a        *)
(* webhook the request of the holder does not know (Applied).  Without one *)
(* the cleanup took the label off, and whoever put it back is a user after *)
(* the outcome (CleanedUpIsClean).  A handler that takes the label off     *)
(* without a record would break both; it does so only for a row that was   *)
(* removed without a completion, which needs the scheduler's sync          *)
(* (NobodyUnlabels).                                                       *)
(***************************************************************************)

OnlyOwnedRowsEnd ==
    /\ sync.pc = "idle"
    /\ row # None /\ row.pending = None => row.status = "active"

NobodyUnlabels ==
    \A h \in Hooks :
        /\ hooks[h].pc # "unlabel"
        /\ hooks[h].pc = "fallback" /\ row # None /\ row.id = hooks[h].id => Pending

HolderHasRequest ==
    /\ fin.pc \in {"comment", "saveComment", "clean", "cleanPut", "saveClean", "reread"} =>
         fin.intent = None
    /\ fin.pc \in {"apply", "applyPut", "saveApply"} => fin.intent # None
    /\ fin.pc # "idle" /\ fin.intent # None =>
         /\ Carries
         /\ \A m \in fin.intent.seen \cup fin.intent.cancelled : m =< now

UsersKnown(seen) == \A e \in UserEvents : e.msg > row.pending.at => e.msg \in seen

Applied ==
    fin.pc \in {"saveApply", "finalize"} /\ fin.intent # None =>
        (UsersKnown(fin.intent.seen) => (label <=> RequeueMutation = "add"))

CleanedUp == row.pending.labelsRemoved \/ (fin.pc # "idle" /\ fin.payload.labelsRemoved)

CleanedUpIsClean ==
    Pending /\ CleanedUp /\ row.intent = None /\ UsersKnown({}) => ~label

LabelInv == OnlyOwnedRowsEnd /\ NobodyUnlabels /\ HolderHasRequest /\ Applied /\ CleanedUpIsClean

(* A request knows nothing of the future. *)
LEMMA RequestIsPast ==
    ASSUME IInv, OwnInv, Carries
    PROVE  \A m \in row.intent.seen \cup row.intent.cancelled : m =< now
<1>1. now \in Nat /\ \A e \in sent : e.msg \in Nat /\ e.msg =< now
  BY StampTypes DEF OwnInv, Stamps, EventsStamped
<1>2. \A m \in row.intent.seen : m =< now
  BY <1>1 DEF OwnInv, SeenWasSent
<1>3. ASSUME NEW t \in row.intent.cancelled PROVE t =< now
  <2>1. PICK e \in sent : row.intent.cancelled = {Clock(e).at}
    BY <1>3 DEF OwnInv, CancelWasHandled
  <2>2. Clock(e).at =< e.msg
    <3>1. e.msg % Prec \in 0 .. Prec - 1 BY <1>1, CompletionConstants
    <3> QED BY <3>1, <1>1, CompletionConstants DEF Clock
  <2>3. t = Clock(e).at BY <1>3, <2>1
  <2>4. Clock(e).at \in Int
    <3>1. e.msg % Prec \in 0 .. Prec - 1 BY <1>1, CompletionConstants
    <3> QED BY <3>1, <1>1, CompletionConstants DEF Clock
  <2> QED BY <2>2, <2>3, <2>4, <1>1
<1> QED BY <1>2, <1>3

(* Without the sync a row is active or owned. *)
LEMMA NextOnlyOwnedRowsEnd ==
    ASSUME ~Polling, IInv, OnlyOwnedRowsEnd, [Next]_vars PROVE OnlyOwnedRowsEnd'
<1>1. ~Sync
  BY DEF OnlyOwnedRowsEnd, Sync, SyncList, SyncCompare, SyncCheck, SyncAdd, SyncVerify, SyncRemove,
         SyncFails, SyncAt
<1>2. sync'.pc = "idle"
  <2>1. sync' = sync \/ sync' = IdleSync
    BY <1>1 DEF Next, UserToggles, volatile, Decide, Prepare, Recover, Finisher, PostComment,
       PutLabel, SaveComment, BeginMutation, SaveMutation, Reread, Finalize, FinisherFails,
       Hook, Receive, WriteIntent, HandleAdd, HandleRemove, HandleMerge, RefreshMetadata,
       StaleEnqueue, FetchMergeRequest, AddFetched, CompleteDirectly, RemoveQueueLabel,
       HookFails, Crash, vars
  <2> QED BY <2>1 DEF OnlyOwnedRowsEnd, IdleSync
<1>3. ASSUME row' # None, row'.pending = None PROVE row'.status = "active"
  <2>0. row # None => row \in Rows BY DEF IInv, TypeOK
  <2>1. CASE row' = row BY <1>3, <2>1 DEF OnlyOwnedRowsEnd
  <2>2. CASE Pending
    <3>1. Finalize /\ StillOwned
      <4>1. CASE Leaves BY <4>1, <2>2, OwnedRowFinalizes
      <4>2. CASE ~Leaves
        <5>1. KeepsOutcome BY <4>2, <2>2, FrozenStep
        <5> QED BY <5>1, <1>3 DEF KeepsOutcome
      <4> QED BY <4>1, <4>2
    <3>2. \E id, ignored : row' = FreshRow(id, ignored) BY <3>1, <1>3 DEF Finalize, Transfer
    <3> QED BY <3>2 DEF FreshRow
  <2>3. CASE row' # row /\ ~Pending
    <3>1. fin.pc = "idle" BY <2>3 DEF IInv, LockOwnership
    <3>2. CASE \E q \in requests : Prepare(q)
      <4>1. PICK r \in requests : Prepare(r) BY <3>2
      <4>2. row # None /\ row.pending = None /\ row' = [row EXCEPT !.pending = FrozenPayload(r, row.intent),
                          !.status  = r.outcome, !.intent  = Transferred(row.intent, r.at)]
        BY <4>1, <2>3 DEF Prepare, Pending
      <4>3. row'.pending = FrozenPayload(r, row.intent)
        <5> DEFINE p == FrozenPayload(r, row.intent)
                   i == Transferred(row.intent, r.at)
        <5>1. row' = [row EXCEPT !.pending = p, !.status = r.outcome, !.intent = i] BY <4>2
        <5> HIDE DEF p, i
        <5>2. row'.pending = p BY <5>1, <4>2, <2>0 DEF Rows
        <5> QED BY <5>2 DEF p
      <4>4. FrozenPayload(r, row.intent) \in Payloads
        <5>1. r \in Requests /\ row.intent \in Intents(Nat, Nat) \cup {None} BY <4>2, <2>0 DEF IInv, TypeOK, Rows
        <5> QED BY <5>1, FrozenPayloadType
      <4> QED BY <4>3, <4>4, <1>3, NoneIsNoRecord
    <3>3. ASSUME NEW h \in Hooks, Hook(h) PROVE row'.status = "active"
      <4>1. WriteIntent(h) \/ RefreshMetadata(h) \/ AddFetched(h) \/ CompleteDirectly(h)
        BY <3>3, <2>3 DEF Hook, Receive, HandleAdd, HandleRemove, HandleMerge, StaleEnqueue,
           FetchMergeRequest, RemoveQueueLabel, HookFails, durable
      <4>2. CASE WriteIntent(h)
        <5> DEFINE i == WriteRequeue(hooks[h].ev.msg, Clock(hooks[h].ev), Cancelling(hooks[h].ev), row.intent)
        <5>1. Writable(h) /\ row' = [row EXCEPT !.intent = i] BY <4>2, <2>3 DEF WriteIntent
        <5> HIDE DEF i
        <5>2. row # None /\ row \in Rows BY <5>1, <2>0 DEF Writable
        <5>3. row'.status = row.status BY <5>1, <5>2 DEF Rows
        <5> QED BY <5>2, <5>3, <2>3 DEF OnlyOwnedRowsEnd, Pending
      <4>3. CASE RefreshMetadata(h)
        <5>1. row' = [row EXCEPT !.intent.applied = now] /\ Active BY <4>3, <2>3 DEF RefreshMetadata
        <5>2. row \in Rows BY <5>1, <2>0 DEF Active
        <5> QED BY <5>1, <5>2 DEF Rows, Active
      <4>4. CASE AddFetched(h)
        <5>1. row' = FreshRow(nextId, NoReceipts) BY <4>4, <2>3 DEF AddFetched, AddToQueue
        <5> QED BY <5>1 DEF FreshRow
      <4>5. CASE CompleteDirectly(h)
        BY <4>5, <1>3, <2>3 DEF CompleteDirectly
      <4> QED BY <4>1, <4>2, <4>3, <4>4, <4>5
    <3>4. ~Finisher
      BY <3>1 DEF Finisher, PostComment, PutLabel, SaveComment, BeginMutation, SaveMutation, Reread,
                  Finalize, FinisherFails, FinAt
    <3>5. ~(UserToggles \/ (\E o \in Outcomes : Decide(o)) \/ Recover \/ Crash \/ UNCHANGED vars)
      BY <2>3 DEF UserToggles, Decide, Recover, Crash, vars, durable
    <3> QED BY <1>1, <3>2, <3>3, <3>4, <3>5 DEF Next
  <2> QED BY <2>1, <2>2, <2>3
<1> QED BY <1>2, <1>3 DEF OnlyOwnedRowsEnd

(* A handler means to complete a row itself only when a completion owns it, *)
(* so that it finds that row owned, or gone, when it comes to it.           *)
LEMMA HookFallsBack ==
    ASSUME IInv, OnlyOwnedRowsEnd, NobodyUnlabels, NEW g \in Hooks, Hook(g)
    PROVE  /\ \A h \in Hooks \ {g} : hooks'[h] = hooks[h]
           /\ hooks'[g].pc # "unlabel"
           /\ hooks'[g].pc = "fallback" => \/ hooks'[g] = hooks[g]
                                           \/ Pending /\ hooks'[g].id = row.id
<1>1. hooks \in [Hooks -> HookTasks] BY DEF IInv, TypeOK
<1>2. ASSUME NEW pc, HookTo(g, pc)
      PROVE  hooks'[g].pc = pc /\ \A h \in Hooks \ {g} : hooks'[h] = hooks[h]
  BY <1>1, <1>2 DEF HookTo, HookTasks
<1>3. HookDone(g) => hooks'[g].pc = "idle" /\ \A h \in Hooks \ {g} : hooks'[h] = hooks[h]
  BY <1>1 DEF HookDone, IdleHook
<1>4. ASSUME NEW e \in sent, Receive(g, e)
      PROVE  \/ hooks' = hooks
             \/ hooks'[g].pc \in {"handle", "write"} /\ \A h \in Hooks \ {g} : hooks'[h] = hooks[h]
  <2>1. \/ hooks' = hooks
        \/ HookStarts(g, e, "handle", FALSE)
        \/ \E allow \in BOOLEAN : HookStarts(g, e, "write", allow)
    BY <1>4 DEF Receive
  <2> QED BY <1>1, <2>1 DEF HookStarts
<1>5. HandleRemove(g) => \/ HookTo(g, "waiting") \/ HookDone(g)
                         \/ Pending /\ hooks' = [hooks EXCEPT ![g].pc = "fallback", ![g].id = row.id]
  BY DEF HandleRemove, RequestEnd, OnlyOwnedRowsEnd, Active, Pending
<1>6. ASSUME Pending, hooks' = [hooks EXCEPT ![g].pc = "fallback", ![g].id = row.id]
      PROVE  hooks'[g].pc = "fallback" /\ hooks'[g].id = row.id /\ \A h \in Hooks \ {g} : hooks'[h] = hooks[h]
  BY <1>1, <1>6 DEF HookTasks
<1>7. CompleteDirectly(g) => HookDone(g)
  BY DEF CompleteDirectly, HookAt, NobodyUnlabels, Pending
<1>8. WriteIntent(g) \/ HandleAdd(g) \/ HandleMerge(g) \/ RefreshMetadata(g) \/ StaleEnqueue(g)
      \/ FetchMergeRequest(g) \/ AddFetched(g) \/ RemoveQueueLabel(g) \/ HookFails(g) =>
      \/ HookTo(g, "handle") \/ HookTo(g, "refresh") \/ HookTo(g, "stale") \/ HookTo(g, "fetch")
      \/ HookTo(g, "add") \/ HookTo(g, "waiting") \/ HookDone(g)
  BY DEF WriteIntent, HandleAdd, HandleMerge, RequestEnd, RefreshMetadata, StaleEnqueue,
         FetchMergeRequest, AddFetched, RemoveQueueLabel, HookFails
<1>9. CASE \/ HookTo(g, "handle") \/ HookTo(g, "refresh") \/ HookTo(g, "stale") \/ HookTo(g, "fetch")
           \/ HookTo(g, "add") \/ HookTo(g, "waiting") \/ HookDone(g)
  BY <1>9, <1>2, <1>3
<1>10. CASE \E e \in sent : Receive(g, e)
  BY <1>10, <1>4 DEF NobodyUnlabels
<1>11. CASE HandleRemove(g)
  BY <1>11, <1>5, <1>6, <1>9
<1>12. CASE CompleteDirectly(g)
  BY <1>12, <1>7, <1>9
<1> QED BY <1>8, <1>9, <1>10, <1>11, <1>12 DEF Hook

LEMMA HooksFallBack ==
    ASSUME IInv, OnlyOwnedRowsEnd, NobodyUnlabels, [Next]_vars, NEW h \in Hooks
    PROVE  /\ hooks'[h].pc # "unlabel"
           /\ hooks'[h].pc = "fallback" => \/ hooks'[h] = hooks[h]
                                           \/ Pending /\ hooks'[h].id = row.id
<1>1. CASE \E g \in Hooks : Hook(g)
  BY <1>1, HookFallsBack DEF NobodyUnlabels
<1>2. CASE hooks'[h] = hooks[h] \/ hooks'[h] = IdleHook
  BY <1>2 DEF NobodyUnlabels, IdleHook
<1>3. ASSUME ~\E g \in Hooks : Hook(g) PROVE hooks'[h] = hooks[h] \/ hooks'[h] = IdleHook
  BY <1>3 DEF Next, UserToggles, volatile, Decide, Prepare, Recover, Finisher, PostComment,
     PutLabel, SaveComment, BeginMutation, SaveMutation, Reread, Finalize, FinisherFails, Sync,
     SyncList, SyncCompare, SyncCheck, SyncAdd, SyncVerify, SyncRemove, SyncFails, Crash, vars
<1> QED BY <1>1, <1>2, <1>3

(* A row that is not replaced stays the row of its lifecycle. *)
LEMMA RowIdStays ==
    ASSUME IInv, StepKind, row' # None, ~Replaces PROVE row # None /\ row'.id = row.id
<1>1. CASE Quiet BY <1>1 DEF Quiet, RowStays
<1>2. CASE TakesOver \/ Tells \/ Rereads \/ Puts \/ (\E h \in Hooks, e \in sent : StartsWrite(h, e))
           \/ (\E q \in requests' : Asks(q)) \/ Toggles("user") \/ (\E h \in Hooks : Toggles("handler"))
  BY <1>2 DEF TakesOver, Tells, Rereads, Puts, StartsWrite, Asks, Toggles
<1>3. CASE Saves \/ Begins
  BY <1>3, HolderFacts DEF Saves, Begins
<1>4. CASE \E h \in Hooks : WritesRequest(h) BY <1>4 DEF WritesRequest
<1>5. CASE \E q \in requests : Freezes(q) BY <1>5 DEF Freezes
<1> QED BY <1>1, <1>2, <1>3, <1>4, <1>5 DEF StepKind

(* The outcome of an owned row that stays owned. *)
LEMMA SameOutcome ==
    ASSUME IInv, [Next]_vars, Pending, Pending'
    PROVE  row'.id = row.id /\ row'.pending.at = row.pending.at
<1>1. ~Replaces BY DEF Replaces, Pending
<1>2. row'.id = row.id BY <1>1, RowIdStays, NextKind DEF Pending
<1> QED BY <1>2, FrozenStep DEF KeepsOutcome, Leaves, Pending

(* The row of a lifecycle stays owned until it is gone for good. *)
LEMMA OwnedOrGone ==
    ASSUME IInv, [Next]_vars, row' # None, NEW id \in Nat, id < nextId, row'.id = id
    PROVE  row # None /\ row.id = id /\ (Pending => Pending')
<1>1. ~Replaces BY StampTypes DEF Replaces
<1>2. row # None /\ row'.id = row.id BY <1>1, RowIdStays, NextKind
<1>3. Pending => Pending'
  BY <1>2, FrozenStep DEF KeepsOutcome, Leaves, Pending
<1> QED BY <1>2, <1>3

LEMMA NextNobodyUnlabels ==
    ASSUME IInv, OwnInv, OnlyOwnedRowsEnd, NobodyUnlabels, [Next]_vars PROVE NobodyUnlabels'
<1> SUFFICES ASSUME NEW h \in Hooks
             PROVE  /\ hooks'[h].pc # "unlabel"
                    /\ hooks'[h].pc = "fallback" /\ row' # None /\ row'.id = hooks'[h].id => Pending'
  BY DEF NobodyUnlabels
<1>1. hooks'[h].pc # "unlabel" BY HooksFallBack
<1>2. ASSUME hooks'[h].pc = "fallback", row' # None, row'.id = hooks'[h].id PROVE Pending'
  <2>1. CASE hooks'[h] = hooks[h]
    <3>1. hooks[h].id \in Nat /\ hooks[h].id < nextId BY StampTypes DEF OwnInv, Stamps, HooksStamped
    <3>2. row # None /\ row.id = hooks[h].id /\ (Pending => Pending')
      BY <1>2, <2>1, <3>1, OwnedOrGone
    <3> QED BY <3>2, <1>2, <2>1 DEF NobodyUnlabels
  <2>2. CASE Pending /\ hooks'[h].id = row.id
    <3>1. row.id \in Nat /\ row.id < nextId BY <2>2, StampTypes DEF Pending
    <3> QED BY <1>2, <2>2, <3>1, OwnedOrGone
  <2> QED BY <1>2, <2>1, <2>2, HooksFallBack
<1> QED BY <1>1, <1>2

(* The clock does not go back. *)
LEMMA ClockAdvances == ASSUME IInv, GitLabKind PROVE now \in Nat /\ now' \in {now, now + 1}
BY StampTypes DEF GitLabKind, GitLabStays, ChangeLabel, Asks

(* Who goes on with the request he holds. *)
LEMMA HolderGoesOn ==
    ASSUME IInv, IInv', OwnInv, StepKind, HolderHasRequest,
           fin.pc # "idle", fin'.pc # "idle", fin'.intent = fin.intent, fin'.intent # None
    PROVE  Carries' /\ \A m \in fin'.intent.seen \cup fin'.intent.cancelled : m =< now'
<1>1. Pending /\ Pending' BY DEF IInv, LockOwnership
<1>2. Carries /\ \A m \in fin.intent.seen \cup fin.intent.cancelled : m =< now
  BY DEF HolderHasRequest
<1>3. fin.intent.seen \cup fin.intent.cancelled \subseteq Nat
  BY DEF IInv, TypeOK, Finishers, Intents
<1>4. now \in Nat /\ now' \in {now, now + 1} BY StepEmits, ClockAdvances
<1> QED BY <1>1, <1>2, <1>3, <1>4, WantedStays

LEMMA NextHolderHasRequest ==
    ASSUME IInv, IInv', OwnInv, StepKind, HolderHasRequest PROVE HolderHasRequest'
<1>1. CASE fin'.pc = "idle"
  BY <1>1 DEF HolderHasRequest
<1>2. CASE fin' = fin /\ fin'.pc # "idle"
  BY <1>2, HolderGoesOn DEF HolderHasRequest
<1>3. CASE TakesOver
  <2>1. fin'.intent = None /\ fin'.pc \in {"comment", "clean", "reread"}
    BY <1>3 DEF TakesOver, ResumeAt, CleanupOrReread
  <2> QED BY <2>1 DEF HolderHasRequest
<1>4. ASSUME NEW q \in requests, Freezes(q) PROVE HolderHasRequest'
  <2>1. fin'.intent = None /\ fin'.pc = "comment" BY <1>4 DEF Freezes
  <2> QED BY <2>1 DEF HolderHasRequest
<1>5. CASE Rereads
  <2>1. CASE row.intent = None
    <3>1. fin'.intent = None /\ fin'.pc = "finalize" BY <1>5, <2>1 DEF Rereads, HolderHasRequest
    <3> QED BY <3>1 DEF HolderHasRequest
  <2>2. CASE row.intent # None
    <3>1. fin'.intent = row.intent /\ fin'.pc = "apply" /\ row' = row /\ now' = now /\ Carries
      BY <1>5, <2>2 DEF Rereads, Carries, GitLabStays
    <3> QED BY <3>1, RequestIsPast DEF HolderHasRequest, Carries
  <2> QED BY <2>1, <2>2
<1>6. CASE Tells \/ Saves \/ Begins
  <2>1. fin.pc # "idle" /\ fin'.pc # "idle" /\ fin'.intent = fin.intent
    BY <1>6 DEF Tells, Saves, Begins
  <2>2. fin'.intent # None => Carries' /\ \A m \in fin'.intent.seen \cup fin'.intent.cancelled : m =< now'
    BY <2>1, HolderGoesOn
  <2>3. /\ fin'.pc \in {"comment", "saveComment", "clean", "cleanPut", "saveClean", "reread"} =>
             fin.pc \in {"comment", "saveComment", "clean", "saveClean"}
        /\ fin'.pc \in {"apply", "applyPut", "saveApply"} => fin.pc = "apply"
    BY <1>6 DEF Tells, Saves, Begins
  <2> QED BY <2>1, <2>2, <2>3 DEF HolderHasRequest
<1>7. CASE Puts
  <2>1. CASE fin' = Free BY <2>1, <1>1, FreeType
  <2>2. CASE fin' # Free
    <3>1. fin.pc # "idle" /\ fin'.pc # "idle" /\ fin'.intent = fin.intent
          /\ \/ fin.pc = "cleanPut" /\ fin'.pc = "saveClean"
             \/ fin.pc = "applyPut" /\ fin'.pc = "saveApply"
      BY <1>7, <2>2 DEF Puts
    <3>2. fin'.intent # None => Carries' /\ \A m \in fin'.intent.seen \cup fin'.intent.cancelled : m =< now'
      BY <3>1, HolderGoesOn
    <3> QED BY <3>1, <3>2 DEF HolderHasRequest
  <2> QED BY <2>1, <2>2
<1>8. Quiet \/ Replaces => fin' = fin \/ fin'.pc = "idle" BY FreeType DEF Quiet, Replaces
<1>9. /\ \A h \in Hooks, e \in sent : StartsWrite(h, e) => fin' = fin
      /\ \A h \in Hooks : WritesRequest(h) => fin' = fin
      /\ \A q \in requests' : Asks(q) => fin' = fin
      /\ \A by : Toggles(by) => fin' = fin
  BY DEF StartsWrite, WritesRequest, Asks, Toggles
<1> QED BY <1>1, <1>2, <1>3, <1>4, <1>5, <1>6, <1>7, <1>8, <1>9 DEF StepKind

(* What users have done is not undone, and a change of theirs is news. *)
LEMMA UsersKnownBefore ==
    ASSUME IInv, OwnInv, StepKind, NobodyUnlabels, ~Puts, Pending, row'.pending.at = row.pending.at,
           NEW seen, \A m \in seen : m =< now,
           \A e \in UserEvents' : e.msg > row'.pending.at => e.msg \in seen
    PROVE  UsersKnown(seen) /\ label' = label
<1>1. UserEvents \subseteq UserEvents' BY StepEmits, SentGrows DEF UserEvents
<1>2. UsersKnown(seen) BY <1>1 DEF UsersKnown
<1>3. ~Toggles("user")
  <2> SUFFICES ASSUME Toggles("user") PROVE FALSE
    OBVIOUS
  <2> DEFINE kind == IF ~label THEN "add" ELSE "remove"
             e    == [msg |-> now + 1, kind |-> kind, by |-> "user", open |-> mrOpen]
  <2>1. e \in sent' BY DEF Toggles, ChangeLabel
  <2>2. e.msg = now + 1 /\ e.by = "user" OBVIOUS
  <2> HIDE DEF e, kind
  <2>3. row.pending.at \in Nat /\ row.pending.at =< now /\ now \in Nat
    BY StampTypes DEF OwnInv, Stamps, OutcomeStamped
  <2>4. e.msg > row'.pending.at BY <2>2, <2>3
  <2>5. e.msg \in seen BY <2>1, <2>2, <2>4 DEF UserEvents
  <2>6. now + 1 =< now BY <2>2, <2>5
  <2> QED BY <2>3, <2>6
<1>4. \A h \in Hooks : hooks[h].pc # "unlabel" BY DEF NobodyUnlabels
<1>5. Quiet \/ TakesOver \/ Tells \/ Rereads \/ Saves \/ Begins \/ Replaces => label' = label
  BY DEF Quiet, TakesOver, Tells, Rereads, Saves, Begins, Replaces, GitLabStays
<1>6. /\ \A h \in Hooks, e \in sent : StartsWrite(h, e) => label' = label
      /\ \A h \in Hooks : WritesRequest(h) => label' = label
      /\ \A q \in requests : Freezes(q) => label' = label
      /\ \A q \in requests' : Asks(q) => label' = label
  BY DEF StartsWrite, WritesRequest, Freezes, Asks, GitLabStays
<1> QED BY <1>2, <1>3, <1>4, <1>5, <1>6 DEF StepKind

LEMMA NextApplied ==
    ASSUME ~NoopEcho, IInv, IInv', OwnInv, StepKind, NobodyUnlabels, HolderHasRequest, Applied,
           [Next]_vars
    PROVE  Applied'
<1> SUFFICES ASSUME fin'.pc \in {"saveApply", "finalize"}, fin'.intent # None,
                    \A e \in UserEvents' : e.msg > row'.pending.at => e.msg \in fin'.intent.seen
             PROVE  label' <=> RequeueMutation' = "add"
  BY DEF Applied, UsersKnown
<1>1. CASE Puts
  <2>1. fin.pc = "applyPut" /\ fin'.pc = "saveApply" /\ fin'.intent = fin.intent
        /\ OwnInstants' = OwnInstants \cup Answered(label # (Mutation = "add"))
    BY <1>1, FreeType DEF Puts, OwnInstants
  <2>2. label' = (Mutation = "add") /\ Mutation = RequeueMutation
    <3>1. label \in BOOLEAN BY DEF IInv, TypeOK
    <3>2. CASE ChangeLabel(Mutation = "add", "bot") BY <3>2, <2>1 DEF ChangeLabel, Mutation
    <3>3. CASE label = (Mutation = "add") /\ GitLabStays BY <3>3, <2>1 DEF GitLabStays, Mutation
    <3> QED BY <1>1, <3>2, <3>3 DEF Puts
  <2>3. now + 1 \notin fin.intent.cancelled
    <3>1. fin.intent # None /\ \A m \in fin.intent.cancelled : m =< now
      BY <2>1 DEF HolderHasRequest
    <3>2. now \in Nat BY StampTypes
    <3> QED BY <3>1, <3>2
  <2>4. Answered(label # (Mutation = "add")) \subseteq {now + 1} BY DEF Answered
  <2>5. RequeueIsCancelled(fin'.intent, OwnInstants') <=> RequeueIsCancelled(fin.intent, OwnInstants)
    BY <2>1, <2>3, <2>4 DEF RequeueIsCancelled
  <2> QED BY <2>2, <2>5 DEF RequeueMutation
<1>2. CASE ~Puts
  <2>1. fin.pc \in {"saveApply", "finalize"} /\ fin'.intent = fin.intent /\ OwnInstants' = OwnInstants
    <3>1. CASE fin' = fin BY <3>1 DEF OwnInstants
    <3>2. CASE Saves BY <3>2 DEF Saves, OwnInstants
    <3>3. ~Rereads BY DEF Rereads, HolderHasRequest
    <3>4. ~TakesOver /\ ~Tells /\ ~Begins /\ ~Replaces /\ \A q \in requests : ~Freezes(q)
      BY DEF TakesOver, ResumeAt, CleanupOrReread, Tells, Begins, Replaces, Freezes
    <3>5. Quiet => fin' = fin BY FreeType DEF Quiet
    <3>6. /\ \A h \in Hooks, e \in sent : StartsWrite(h, e) => fin' = fin
          /\ \A h \in Hooks : WritesRequest(h) => fin' = fin
          /\ \A q \in requests' : Asks(q) => fin' = fin
          /\ \A by : Toggles(by) => fin' = fin
      BY DEF StartsWrite, WritesRequest, Asks, Toggles
    <3> QED BY <1>2, <3>1, <3>2, <3>3, <3>4, <3>5, <3>6 DEF StepKind
  <2>2. Pending /\ Pending' BY <2>1 DEF IInv, LockOwnership
  <2>3. row'.pending.at = row.pending.at BY <2>2, SameOutcome
  <2>4. \A m \in fin.intent.seen : m =< now BY <2>1 DEF HolderHasRequest
  <2>5. UsersKnown(fin.intent.seen) /\ label' = label
    BY <1>2, <2>1, <2>2, <2>3, <2>4, UsersKnownBefore
  <2>6. label <=> RequeueMutation = "add" BY <2>1, <2>5 DEF Applied
  <2> QED BY <2>1, <2>5, <2>6 DEF RequeueMutation
<1> QED BY <1>1, <1>2

(* A row is cleaned up by the PUT that takes the label off. *)
LEMMA CleanedUpBefore ==
    ASSUME IInv, IInv', StepKind, ~Puts, Pending, Pending', CleanedUp' PROVE CleanedUp
<1>1. fin.pc # "idle" => fin.payload \in Payloads /\ row.pending \in Payloads BY HolderFacts
<1>2. CASE row'.pending = row.pending /\ (fin' = fin \/ fin'.pc = "idle")
  BY <1>2 DEF CleanedUp
<1>3. CASE TakesOver
  BY <1>3 DEF TakesOver, CleanedUp
<1>4. CASE Tells \/ Rereads
  <2>1. row' = row /\ fin.pc # "idle" /\ fin'.payload.labelsRemoved = fin.payload.labelsRemoved
    <3>1. CASE Tells BY <3>1, <1>1 DEF Tells, Payloads
    <3>2. CASE Rereads BY <3>2 DEF Rereads
    <3> QED BY <1>4, <3>1, <3>2 DEF Tells, Rereads
  <2> QED BY <2>1 DEF CleanedUp
<1>5. CASE Saves \/ Begins
  <2>1. fin.pc # "idle" /\ row'.pending = fin'.payload BY <1>5 DEF Saves, Begins
  <2>2. fin'.payload.labelsRemoved = fin.payload.labelsRemoved
    <3>1. CASE Saves BY <3>1 DEF Saves
    <3>2. CASE Begins BY <3>2, <2>1, <1>1 DEF Begins, Payloads
    <3> QED BY <1>5, <3>1, <3>2
  <2> QED BY <2>1, <2>2 DEF CleanedUp
<1>6. ~Replaces BY DEF Replaces, Pending
<1>7. \A q \in requests : ~Freezes(q) BY DEF Freezes, Pending
<1>8. Quiet => row'.pending = row.pending /\ (fin' = fin \/ fin'.pc = "idle")
  BY FreeType DEF Quiet, RowStays, Pending
<1>9. /\ \A h \in Hooks, e \in sent : StartsWrite(h, e) => row' = row /\ fin' = fin
      /\ \A h \in Hooks : WritesRequest(h) => row'.pending = row.pending /\ fin' = fin
      /\ \A q \in requests' : Asks(q) => row' = row /\ fin' = fin
      /\ \A by : Toggles(by) => row' = row /\ fin' = fin
  BY DEF StartsWrite, WritesRequest, Asks, Toggles
<1> QED BY <1>2, <1>3, <1>4, <1>5, <1>6, <1>7, <1>8, <1>9 DEF StepKind

(* Only a freeze makes a row owned, and then nothing was cleaned up yet. *)
LEMMA CleanedUpWasOwned ==
    ASSUME IInv, StepKind, Pending', CleanedUp' PROVE Pending
<1>1. ASSUME NEW q \in requests, Freezes(q) PROVE FALSE
  <2>1. row'.pending.labelsRemoved = FALSE /\ fin'.payload = row'.pending
    BY <1>1 DEF Freezes, FrozenPayload
  <2> QED BY <2>1 DEF CleanedUp
<1>2. ~Replaces BY DEF Replaces, Pending
<1>3. Quiet \/ TakesOver => Pending BY DEF Quiet, RowStays, TakesOver, Pending
<1>4. Tells \/ Rereads \/ Saves \/ Begins \/ Puts => Pending
  BY HolderFacts DEF Tells, Rereads, Saves, Begins, Puts
<1>5. /\ \A h \in Hooks, e \in sent : StartsWrite(h, e) => Pending
      /\ \A h \in Hooks : WritesRequest(h) => Pending
      /\ \A q \in requests' : Asks(q) => Pending
      /\ \A by : Toggles(by) => Pending
  BY DEF StartsWrite, WritesRequest, Asks, Toggles, Pending
<1> QED BY <1>1, <1>2, <1>3, <1>4, <1>5 DEF StepKind

LEMMA NextCleanedUpIsClean ==
    ASSUME IInv, IInv', OwnInv, StepKind, NobodyUnlabels, HolderHasRequest, CleanedUpIsClean,
           [Next]_vars
    PROVE  CleanedUpIsClean'
<1> SUFFICES ASSUME Pending', CleanedUp', row'.intent = None,
                    \A e \in UserEvents' : e.msg > row'.pending.at => e.msg \in {}
             PROVE  ~label'
  BY DEF CleanedUpIsClean, UsersKnown
<1>1. Pending /\ row.intent = None
  BY CleanedUpWasOwned, WantedStays DEF Carries, Pending
<1>2. CASE Puts
  <2>1. fin.pc = "cleanPut" BY <1>1, <1>2 DEF Puts, HolderHasRequest, Carries
  <2>2. Mutation = "remove" BY <2>1 DEF Mutation
  <2>3. label \in BOOLEAN BY DEF IInv, TypeOK
  <2> QED BY <1>2, <2>2, <2>3 DEF Puts, ChangeLabel, GitLabStays
<1>3. CASE ~Puts
  <2>1. row'.pending.at = row.pending.at BY <1>1, SameOutcome
  <2>2. UsersKnown({}) /\ label' = label BY <1>1, <1>3, <2>1, UsersKnownBefore
  <2>3. CleanedUp BY <1>1, <1>3, CleanedUpBefore
  <2> QED BY <1>1, <2>2, <2>3 DEF CleanedUpIsClean
<1> QED BY <1>2, <1>3

LEMMA InitLabel == Init => LabelInv
<1> SUFFICES ASSUME Init PROVE LabelInv
  OBVIOUS
<1>1. row # None => row.pending = None /\ row.status = "active" BY DEF Init, FreshRow
<1>2. Free.pc = "idle" /\ IdleSync.pc = "idle" /\ IdleHook.pc = "idle" BY DEF Free, IdleSync, IdleHook
<1> QED BY <1>1, <1>2
        DEF Init, LabelInv, OnlyOwnedRowsEnd, NobodyUnlabels, HolderHasRequest, Applied,
            CleanedUpIsClean, Pending

LEMMA NextLabel ==
    ASSUME ~Polling, ~NoopEcho
    PROVE  IInv /\ OwnInv /\ LabelInv /\ [Next]_vars => LabelInv'
<1> SUFFICES ASSUME IInv, OwnInv, LabelInv, [Next]_vars PROVE LabelInv'
  OBVIOUS
<1>1. IInv' /\ StepKind BY NextIInv, NextKind
<1> QED BY <1>1, NextOnlyOwnedRowsEnd, NextNobodyUnlabels, NextHolderHasRequest, NextApplied,
           NextCleanedUpIsClean DEF LabelInv

(***************************************************************************)
(* queue_completion.py _finish and _mutate_labels: however users, handlers *)
(* and crashes interleave with it, a completion that took the label off or *)
(* had a request to restore leaves the label in GitLab if and only if it   *)
(* leaves a successor in the queue, once the users' changes since the      *)
(* outcome were all handled.                                               *)
(***************************************************************************)
THEOREM LabelAgreesWithQueue ==
    ASSUME ~Polling, ~NoopEcho PROVE Spec => LabelFollowsRequeue
<1>1. IInv /\ OwnInv /\ LabelInv /\ [Next]_vars =>
        [(/\ Pending /\ Leaves
          /\ row.pending.cleanup \/ row.intent # None
          /\ \A e \in UserEvents : e.msg > row.pending.at => Handled(e))
         => (label <=> row' # None)]_vars
  <2> SUFFICES ASSUME IInv, LabelInv, [Next]_vars, Pending, Leaves,
                      row.pending.cleanup \/ row.intent # None,
                      \A e \in UserEvents : e.msg > row.pending.at => Handled(e)
               PROVE  label <=> row' # None
    OBVIOUS
  <2>1. Finalize /\ StillOwned BY OwnedRowFinalizes
  <2>2. /\ fin.pc = "finalize" /\ row.pending = fin.payload /\ row.intent = fin.intent
        /\ row' # None <=> fin.intent # None /\ ~RequeueIsCancelled(fin.intent, OwnInstants)
    BY <2>1, FinalizedRow DEF OwnInstants
  <2>3. CASE row.intent # None
    <3>1. UsersKnown(fin.intent.seen) BY <2>2, <2>3 DEF UsersKnown, Handled
    <3>2. label <=> RequeueMutation = "add" BY <2>2, <2>3, <3>1 DEF LabelInv, Applied
    <3>3. RequeueMutation = "add" <=> ~RequeueIsCancelled(fin.intent, OwnInstants)
      BY DEF RequeueMutation
    <3> QED BY <2>2, <2>3, <3>2, <3>3
  <2>4. CASE row.intent = None
    <3>1. UsersKnown({}) BY <2>4 DEF UsersKnown, Handled
    <3>2. CleanedUp BY <2>2, <2>4 DEF IInv, LockOwnership, CleanedUp
    <3>3. ~label BY <2>4, <3>1, <3>2 DEF LabelInv, CleanedUpIsClean
    <3> QED BY <2>2, <2>4, <3>3
  <2> QED BY <2>3, <2>4
<1>2. IInv /\ OwnInv /\ LabelInv /\ [Next]_vars => LabelInv' BY NextLabel
<1> QED BY <1>1, <1>2, InitIInv, NextIInv, InitOwn, NextOwn, InitLabel, PTL
        DEF Spec, LabelFollowsRequeue
-----------------------------------------------------------------------------
(***************************************************************************)
(* A user's cancellation is honoured.                                      *)
(*                                                                         *)
(* When GitLab's timestamps tell every two changes apart, the clock of a   *)
(* request is the newest change it took (NewestIsSeen): an enqueue when it *)
(* is not cancelled, and otherwise a cancellation that no own change of    *)
(* the completion explains, for it was handled.                            *)
(*                                                                         *)
(* With two changes in an interval this is not so: a user's removal right  *)
(* after the label was put back is truncated to the bot's instant.         *)
(***************************************************************************)

ChangesAreToldApart == Prec = 1

NewestIsSeen ==
    Carries =>
        /\ row.intent.clock.width = 1
        /\ row.intent.clock.at \in row.intent.seen
        /\ \A m \in row.intent.seen : m =< row.intent.clock.at
        /\ row.intent.cancelled = {} =>
             \E e \in sent : e.msg = row.intent.clock.at /\ e.kind = "add"
        /\ row.intent.cancelled # {} => row.intent.cancelled = {row.intent.clock.at}

LEMMA ExactClock ==
    ASSUME ChangesAreToldApart, NEW e, e.msg \in Nat
    PROVE  Clock(e) = [at |-> e.msg, width |-> 1]
<1>1. e.msg % 1 = 0 OBVIOUS
<1> QED BY <1>1 DEF Clock, ChangesAreToldApart

(* An event that changes a request is newer than all the request knows. *)
LEMMA NewsIsNewest ==
    ASSUME NEW msg \in Nat, NEW cancelling, NEW prev \in Intents(Nat, Nat),
           prev.clock.width = 1, prev.clock.at \in prev.seen,
           ~RequeueUnchanged(msg, [at |-> msg, width |-> 1], cancelling, prev)
    PROVE  prev.clock.at < msg /\ OrderAgainst([at |-> msg, width |-> 1], prev) = 1
<1> DEFINE clock == [at |-> msg, width |-> 1]
<1>1. prev # None /\ prev.clock.at \in Nat /\ msg # None /\ prev.clock.at # None
  BY NoneIsNoRequest, NoneIsNoInstant DEF Intents
<1>2. msg # prev.clock.at BY <1>1 DEF RequeueUnchanged
<1>3. CASE msg < prev.clock.at
  <2>1. DefinitelyBefore(msg, 1, prev.clock.at) BY <1>1, <1>3 DEF DefinitelyBefore
  <2>2. OrderAgainst(clock, prev) = -1 BY <1>1, <2>1 DEF OrderAgainst, CompareEvent
  <2> QED BY <2>2 DEF RequeueUnchanged
<1>4. CASE prev.clock.at < msg
  <2>1. ~DefinitelyBefore(msg, 1, prev.clock.at) /\ DefinitelyBefore(prev.clock.at, 1, msg)
    BY <1>1, <1>4 DEF DefinitelyBefore
  <2>2. OrderAgainst(clock, prev) = 1 BY <1>1, <2>1 DEF OrderAgainst, CompareEvent
  <2> QED BY <1>4, <2>2
<1> QED BY <1>1, <1>2, <1>3, <1>4

LEMMA NextNewestIsSeen ==
    ASSUME ChangesAreToldApart, IInv, OwnInv, NewestIsSeen, StepKind PROVE NewestIsSeen'
<1> SUFFICES ASSUME Carries' PROVE NewestIsSeen'
  BY DEF NewestIsSeen
<1>1. sent \subseteq sent' BY StepEmits, SentGrows
<1>2. CASE Carries /\ SameRequest(row.intent, row'.intent)
  BY <1>1, <1>2 DEF NewestIsSeen, Carries, SameRequest
<1>3. ASSUME NEW h \in Hooks, WritesRequest(h) PROVE NewestIsSeen'
  <2> DEFINE e     == hooks[h].ev
             clock == [at |-> e.msg, width |-> 1]
  <2>1. /\ e \in sent /\ e \in Events /\ e.msg \in Nat
        /\ row # None /\ row.intent \in Intents(Nat, Nat) \cup {None}
    BY <1>3, WriterFacts DEF WritesRequest
  <2>2. row'.intent = WriteRequeue(e.msg, clock, Cancelling(e), row.intent)
    <3>1. Clock(e) = clock BY <2>1, ExactClock
    <3> QED BY <1>3, <3>1 DEF WritesRequest
  <2> HIDE DEF e
  <2>3. CASE row'.intent = row.intent
    BY <1>1, <2>1, <2>3 DEF NewestIsSeen, Carries
  <2>4. CASE row'.intent # row.intent
    <3>1. ~RequeueUnchanged(e.msg, clock, Cancelling(e), row.intent) BY <2>2, <2>4 DEF WriteRequeue
    <3>2. row.intent # None =>
            /\ row.intent.clock.at < e.msg /\ OrderAgainst(clock, row.intent) = 1
            /\ \A m \in row.intent.seen : m =< row.intent.clock.at
            /\ row.intent.seen \subseteq Nat /\ row.intent.clock.at \in Nat
      <4> SUFFICES ASSUME row.intent # None
                   PROVE  /\ row.intent.clock.at < e.msg /\ OrderAgainst(clock, row.intent) = 1
                          /\ \A m \in row.intent.seen : m =< row.intent.clock.at
                          /\ row.intent.seen \subseteq Nat /\ row.intent.clock.at \in Nat
        OBVIOUS
      <4>1. row.intent \in Intents(Nat, Nat) BY <2>1
      <4>2. /\ row.intent.clock.width = 1 /\ row.intent.clock.at \in row.intent.seen
            /\ \A m \in row.intent.seen : m =< row.intent.clock.at
        BY <2>1 DEF NewestIsSeen, Carries
      <4>3. row.intent.clock.at < e.msg /\ OrderAgainst(clock, row.intent) = 1
        BY <2>1, <3>1, <4>1, <4>2, NewsIsNewest
      <4> QED BY <4>1, <4>2, <4>3 DEF Intents
    <3>3. \A m \in Seen(row.intent) \cup {e.msg} : m =< e.msg
      BY <2>1, <3>2 DEF Seen
    <3>4. CASE Cancelling(e)
      <4>1. row'.intent = CancelledRequeue(e.msg, clock, row.intent) BY <2>2, <3>1, <3>4 DEF WriteRequeue
      <4>2. row'.intent.clock = clock /\ row'.intent.cancelled = {e.msg}
            /\ row'.intent.seen = Seen(row.intent) \cup {e.msg}
        BY <4>1 DEF CancelledRequeue
      <4> QED BY <3>3, <4>2 DEF NewestIsSeen
    <3>5. CASE ~Cancelling(e)
      <4>1. row'.intent = EnqueuedRequeue(e.msg, clock, row.intent) BY <2>2, <3>1, <3>5 DEF WriteRequeue
      <4>2. row'.intent.clock = clock /\ row'.intent.cancelled = {}
            /\ row'.intent.seen = Seen(row.intent) \cup {e.msg}
        BY <4>1, <3>2 DEF EnqueuedRequeue, Uncancelled
      <4>3. e.kind = "add" BY <3>5 DEF Cancelling
      <4> QED BY <1>1, <2>1, <3>3, <4>2, <4>3 DEF NewestIsSeen
    <3> QED BY <3>4, <3>5
  <2> QED BY <2>3, <2>4
<1> QED BY <1>2, <1>3, RequestSteps

LEMMA InitNewest == Init => NewestIsSeen
BY DEF Init, FreshRow, NewestIsSeen, Carries

(* The request a successor is started on. *)
LEMMA RenewalFollowsRemovals ==
    ASSUME ChangesAreToldApart, IInv, OwnInv, RestoreInv, NewestIsSeen, Pending, Carries,
           ~RequeueIsCancelled(row.intent, row.pending.receipts.instants),
           NEW r \in sent, Handled(r)
    PROVE  \E a \in sent : /\ a.kind = "add" /\ Handled(a)
                           /\ ~DefinitelyBefore(Clock(a).at, Prec, Clock(r).at)
<1>1. row.intent.cancelled = {}
  <2> SUFFICES ASSUME row.intent.cancelled # {} PROVE FALSE
    OBVIOUS
  <2>1. row.intent.clock.at \in row.pending.receipts.instants /\ row.intent.clock.at \in row.intent.seen
    BY DEF NewestIsSeen, RequeueIsCancelled
  <2>2. PICK f \in sent : Own(f) /\ f.msg = row.intent.clock.at /\ row.pending.at < f.msg
    BY <2>1 DEF RestoreInv, InstantsAreOwn, AreOwn
  <2>3. f.msg > row.pending.at BY <2>2, StampTypes
  <2> QED BY <2>1, <2>2, <2>3 DEF OwnInv, OwnChangesAreNotIntent, Own, Handled, Carries
<1>2. PICK a \in sent : a.msg = row.intent.clock.at /\ a.kind = "add"
  BY <1>1 DEF NewestIsSeen
<1>3. Handled(a) /\ r.msg =< a.msg
  BY <1>2 DEF Handled, NewestIsSeen, Carries
<1>4. ~DefinitelyBefore(Clock(a).at, Prec, Clock(r).at)
  <2>1. a.msg \in Nat /\ r.msg \in Nat BY StampTypes
  <2>2. Clock(a).at = a.msg /\ Clock(r).at = r.msg /\ Prec = 1
    BY <2>1, ExactClock DEF ChangesAreToldApart
  <2> QED BY <1>3, <2>1, <2>2 DEF DefinitelyBefore
<1> QED BY <1>2, <1>3, <1>4

(***************************************************************************)
(* requeue_distinguishes_user_cancel_from_cleanup.py: a user's             *)
(* cancellation discards the deferred enqueue.  In whatever order webhooks *)
(* of users and of the completion arrive, again or late, no successor is   *)
(* started on a request that took a removal of a user after every enqueue  *)
(* it took.                                                                *)
(***************************************************************************)
THEOREM UserCancellationsCount ==
    ASSUME ChangesAreToldApart, "merged" \notin Outcomes, ~NoopEcho
    PROVE  Spec => UserCancelHonoured
<1>1. IInv /\ OwnInv /\ RestoreInv /\ NewestIsSeen /\ [Next]_vars =>
        [Pending /\ Leaves /\ row' # None =>
           \A r \in UserEvents : (r.kind = "remove" /\ Handled(r)) =>
             \E a \in sent : /\ a.kind = "add" /\ Handled(a)
                             /\ ~DefinitelyBefore(Clock(a).at, Prec, Clock(r).at)]_vars
  <2> SUFFICES ASSUME IInv, OwnInv, RestoreInv, NewestIsSeen, [Next]_vars,
                      Pending, Leaves, row' # None, NEW r \in UserEvents, Handled(r)
               PROVE  \E a \in sent : /\ a.kind = "add" /\ Handled(a)
                                      /\ ~DefinitelyBefore(Clock(a).at, Prec, Clock(r).at)
    OBVIOUS
  <2>1. Finalize /\ StillOwned BY OwnedRowFinalizes
  <2>2. Carries /\ ~RequeueIsCancelled(row.intent, row.pending.receipts.instants)
    BY <2>1, FinalizedRow DEF Carries, Pending
  <2>3. r \in sent BY DEF UserEvents
  <2> QED BY <2>2, <2>3, RenewalFollowsRemovals
<1>2. Init => RestorableWhileOpen BY InitRestore DEF RestorableWhileOpen
<1>4. mrOpen /\ RestorableWhileOpen => RestoreInv BY DEF RestorableWhileOpen
<1>3. IInv /\ OwnInv /\ NewestIsSeen /\ [Next]_vars => NewestIsSeen'
  BY NextKind, NextNewestIsSeen
<1> QED BY <1>1, <1>2, <1>3, <1>4, InitIInv, NextIInv, InitOwn, NextOwn, NextRestore, AlwaysOpen,
           InitNewest, PTL
        DEF Spec, UserCancelHonoured
=============================================================================
