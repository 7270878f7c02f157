--------------------------- MODULE QueueCompletion --------------------------
(***************************************************************************)
(* One merge request, its row in the queue, and everybody who may end, own *)
(* or renew that row: the processor that decides outcomes, the webhook     *)
(* handlers, the scheduler's sync, the completion that archives the row,   *)
(* GitLab with its users, and crashes of the bot.                          *)
(*                                                                         *)
(* A lifecycle ends in two steps.  prepare_completion freezes the outcome  *)
(* in the row's pending_completion; from then on whoever holds the         *)
(* completion lock posts the comment, cleans the trigger label up, looks   *)
(* at the requeue request users made meanwhile, and finally deletes the    *)
(* row, archives it, and inserts the next incarnation in one transaction.  *)
(* Every step of that is resumable: a failure or a crash leaves the row    *)
(* pending, and a later recover() continues from the saved payload.        *)
(*                                                                         *)
(* Time is a logical clock: every change in GitLab and every decision of   *)
(* the bot is a tick of it.  GitLab reports a change with the instant      *)
(* truncated to Prec ticks; the bot's own instants are exact.              *)
(***************************************************************************)
EXTENDS Admission, FiniteSets

CONSTANTS
    Hooks,          \* webhook deliveries being handled at the same time
    Outcomes,       \* outcomes the processor may decide
    Prec,           \* width of a webhook's timestamp, in ticks
    SharedAccount,  \* the bot's token belongs to an account a user acts with
    NoopEcho,       \* GitLab answers a PUT that changes nothing with the
                    \* updated_at of the last change
    Polling,        \* the scheduler's sync runs
    MaxId,          \* bound: lifecycles started
    MaxUserActs,    \* bound: label changes by users
    MaxLost,        \* bound: the answer to a PUT may be lost until the bot made
                    \* this many label changes
    MaxCrashes      \* bound: crashes of the bot

ASSUME CompletionConstants ==
    /\ Outcomes \subseteq {"merged", "failed"}
    /\ Prec \in Nat \ {0}
    /\ SharedAccount \in BOOLEAN /\ NoopEcho \in BOOLEAN /\ Polling \in BOOLEAN
    /\ "processor" \notin Hooks
    /\ MaxId \in Nat /\ MaxUserActs \in Nat /\ MaxLost \in Nat /\ MaxCrashes \in Nat

VARIABLES
    row,        \* the row of merge_requests, None when there is none
    history,    \* rows of merge_requests_history
    nextId,     \* the AUTOINCREMENT of merge_requests
    label,      \* GitLab: is a trigger label on the merge request?
    mrOpen,     \* GitLab: is the merge request open?
    updatedAt,  \* GitLab: updated_at of the merge request
    sent,       \* GitLab: webhooks emitted; any may arrive, again and late
    comments,   \* GitLab: lifecycles whose outcome comment was posted
    now,        \* the clock
    requests,   \* decided completions waiting for the completion lock
    fin,        \* the task that holds the completion lock
    hooks,      \* webhook handler tasks
    sync,       \* the scheduler's sync task
    crashes     \* crashes so far

durable  == <<row, history, nextId>>
gitlab   == <<label, mrOpen, updatedAt, sent, comments>>
volatile == <<requests, fin, hooks, sync>>
vars     == <<durable, gitlab, now, volatile, crashes>>
-----------------------------------------------------------------------------
(* Data *)

(* "by" is the author of the change: a user, the bot's completion of a       *)
(* lifecycle, or a webhook handler of the bot.  The bot itself only sees the *)
(* account (ByBot).                                                          *)
Events == [msg : Nat, kind : {"add", "remove", "merge"},
           by : {"user", "bot", "handler"}, open : BOOLEAN]

(* updated_at and updated_at_precision_us of a webhook's payload. *)
Clock(e) == [at |-> e.msg - (e.msg % Prec), width |-> Prec]

(* label_events: what the bot later recognises as its own doing or as done. *)
Receipts == [admissions : SUBSET Nat, actors : SUBSET {"add", "remove"},
             instants : SUBSET Nat]

NoReceipts == [admissions |-> {}, actors |-> {}, instants |-> {}]

(* pending_completion.  "started" are the label operations on record, "open" *)
(* those not acknowledged yet; an operation is named by the change it makes. *)
Payloads == [outcome : {"merged", "failed", "removed"}, at : Nat,
             cleanup : BOOLEAN, commentSent : BOOLEAN, labelsRemoved : BOOLEAN,
             receipts : Receipts, started : SUBSET {"add", "remove"},
             open : SUBSET {"add", "remove"}]

(* Any active status (queued, rebasing, testing, merging) is "active" here. *)
Rows == [id : Nat, status : {"active", "merged", "failed", "removed"},
         pending : Payloads \cup {None}, intent : Intents(Nat, Nat) \cup {None},
         ignored : Receipts]

Requests == [id : Nat, outcome : {"merged", "failed", "removed"}, at : Nat,
             cleanup : BOOLEAN, by : Hooks \cup {"processor"}]

FinisherSteps == {"idle", "comment", "saveComment", "clean", "cleanPut",
                  "saveClean", "reread", "apply", "applyPut", "saveApply",
                  "finalize"}

HookSteps == {"idle", "write", "handle", "refresh", "stale", "fetch", "add",
              "waiting", "fallback", "unlabel"}

SyncSteps == {"idle", "compare", "check", "add", "verify", "remove"}

(* The holder of the completion lock: what it finishes, with the payload and *)
(* the request it remembers.  "idle" means that the lock is free.            *)
Finishers == [pc : FinisherSteps, id : Nat, payload : Payloads \cup {None},
              intent : Intents(Nat, Nat) \cup {None}]

(* A handler task: the webhook, the row it read, and allow_active. *)
HookTasks == [pc : HookSteps, ev : Events \cup {None}, id : Nat, allow : BOOLEAN]

Archived == [id : Nat, outcome : {"merged", "failed", "removed"}, at : Nat]

ASSUME NoneIsNoRecord == None \notin Rows /\ None \notin Payloads /\ None \notin Events

TypeOK ==
    /\ row \in Rows \cup {None}
    /\ history \subseteq Archived
    /\ nextId \in Nat
    /\ label \in BOOLEAN /\ mrOpen \in BOOLEAN
    /\ updatedAt \in Nat /\ now \in Nat
    /\ sent \subseteq Events
    /\ comments \subseteq Nat
    /\ requests \subseteq Requests
    /\ fin \in Finishers
    /\ hooks \in [Hooks -> HookTasks]
    /\ sync \in [pc : SyncSteps, labelled : BOOLEAN]
    /\ crashes \in Nat

Free     == [pc |-> "idle", id |-> 0, payload |-> None, intent |-> None]
IdleHook == [pc |-> "idle", ev |-> None, id |-> 0, allow |-> FALSE]
IdleSync == [pc |-> "idle", labelled |-> FALSE]

(* Seeded fault: the insert leaves ignored_label_events NULL. *)
FreshRowWithoutReceipts(id, ignored) ==
    [id |-> id, status |-> "active", pending |-> None, intent |-> None,
     ignored |-> None]

FreshRow(id, ignored) ==
    [id |-> id, status |-> "active", pending |-> None, intent |-> None,
     ignored |-> ignored]

Active  == row # None /\ row.status = "active"
Pending == row # None /\ row.pending # None

Init ==
    /\ row \in {None, FreshRow(1, NoReceipts)}
    /\ history = {}
    /\ nextId = 2
    /\ label = (row # None)
    /\ mrOpen = TRUE
    /\ updatedAt = 0
    /\ sent = {}
    /\ comments = {}
    /\ now = 0
    /\ requests = {}
    /\ fin = Free
    /\ hooks = [h \in Hooks |-> IdleHook]
    /\ sync = IdleSync
    /\ crashes = 0
-----------------------------------------------------------------------------
(* GitLab and its users *)

(* A label change: GitLab stamps the merge request and emits a webhook. *)
ChangeLabel(value, by) ==
    /\ now' = now + 1
    /\ label' = value
    /\ updatedAt' = now'
    /\ sent' = sent \cup {[msg |-> now', kind |-> IF value THEN "add" ELSE "remove",
                           by |-> by, open |-> mrOpen]}
    /\ UNCHANGED <<mrOpen, comments>>

UserEvents == {e \in sent : e.by = "user"}

UserToggles ==
    /\ mrOpen
    /\ Cardinality(UserEvents) < MaxUserActs
    /\ ChangeLabel(~label, "user")
    /\ UNCHANGED <<durable, volatile, crashes>>
-----------------------------------------------------------------------------
(* The processor *)

(* The bound on lifecycles: once MaxId of them were started nobody begins to *)
(* end one (the processor, a removal or merge webhook, an orphan removal).   *)
MayEnd == nextId =< MaxId

(* An on_enter_* callback of the state machine builds the request; the       *)
(* processor waits for its completion, so it has one request at a time.  For *)
(* "merged" it has already merged the merge request.                         *)
Decide(outcome) ==
    /\ Active /\ row.pending = None /\ MayEnd
    /\ \A q \in requests : q.by # "processor"
    /\ now' = now + 1
    /\ requests' = requests \cup
         {[id |-> row.id, outcome |-> outcome, at |-> now', cleanup |-> TRUE,
           by |-> "processor"]}
    /\ IF outcome = "merged" /\ mrOpen
       THEN /\ mrOpen' = FALSE
            /\ updatedAt' = now'
            /\ sent' = sent \cup {[msg |-> now', kind |-> "merge", by |-> "bot", open |-> FALSE]}
            /\ UNCHANGED <<label, comments>>
       ELSE UNCHANGED gitlab
    /\ UNCHANGED <<durable, fin, hooks, sync, crashes>>
-----------------------------------------------------------------------------
(* The completion: everything below "fin" holds the completion lock *)

(* Seeded fault: an operation on record counts as one that was acknowledged. *)
CleanupUnlessStarted(p) ==
    IF p.cleanup /\ ~p.labelsRemoved /\ p.started = {} THEN "clean" ELSE "reread"

(* Where _finish resumes a payload: steps already recorded are skipped. *)
CleanupOrReread(p) == IF p.cleanup /\ ~p.labelsRemoved THEN "clean" ELSE "reread"

(* Seeded fault: a resumed completion takes the comment for granted. *)
ResumeAfterComment(p) == CleanupOrReread(p)

ResumeAt(p) == IF p.commentSent THEN CleanupOrReread(p) ELSE "comment"

Finish(id, p) == fin' = [pc |-> ResumeAt(p), id |-> id, payload |-> p, intent |-> None]
Release       == fin' = Free

(* _completion_admission: a request from before the outcome is consumed.   *)
(* "applied" is the tick after which the admission was acknowledged, so it *)
(* precedes the outcome when that came at a later tick.                    *)
Consumed(intent, finished) ==
    \/ intent.applied # None /\ intent.applied < finished
    \/ intent.clock.at # None
         /\ DefinitelyBefore(intent.clock.at, intent.clock.width, finished)

AdmissionReceipts(intent) ==
    intent.seen \cup (IF intent.key = None THEN {} ELSE {intent.key})

Transferred(intent, finished) ==
    IF intent # None /\ ~Consumed(intent, finished) THEN intent ELSE None

FrozenPayload(q, intent) ==
    [ outcome |-> q.outcome, at |-> q.at, cleanup |-> q.cleanup,
      commentSent |-> FALSE, labelsRemoved |-> FALSE,
      receipts |-> [NoReceipts EXCEPT !.admissions =
                      IF intent # None /\ Consumed(intent, q.at)
                      THEN AdmissionReceipts(intent) ELSE {}],
      started |-> {}, open |-> {} ]

(* Seeded fault: a request overwrites an outcome that is already frozen. *)
PrepareAgain(q) ==
    /\ fin.pc = "idle"
    /\ q \in requests
    /\ requests' = requests \ {q}
    /\ IF row = None \/ (row # None /\ row.id # q.id)
       THEN UNCHANGED <<row, fin>>
       ELSE /\ row' = [row EXCEPT !.pending = FrozenPayload(q, row.intent),
                                  !.status  = q.outcome,
                                  !.intent  = Transferred(row.intent, q.at)]
            /\ Finish(row.id, FrozenPayload(q, row.intent))
    /\ hooks' = [h \in Hooks |-> IF q.by = h THEN IdleHook ELSE hooks[h]]
    /\ UNCHANGED <<history, nextId, gitlab, now, sync, crashes>>

(* prepare_completion, once the completion lock is free. *)
Prepare(q) ==
    /\ fin.pc = "idle"
    /\ q \in requests
    /\ requests' = requests \ {q}
    /\ IF row = None \/ (row # None /\ row.id # q.id)
       THEN UNCHANGED <<row, fin>>
       ELSE IF row.pending # None
       THEN UNCHANGED row /\ Finish(row.id, row.pending)
       ELSE /\ row' = [row EXCEPT !.pending = FrozenPayload(q, row.intent),
                                  !.status  = q.outcome,
                                  !.intent  = Transferred(row.intent, q.at)]
            /\ Finish(row.id, FrozenPayload(q, row.intent))
    /\ hooks' = [h \in Hooks |-> IF q.by = h THEN IdleHook ELSE hooks[h]]
    /\ UNCHANGED <<history, nextId, gitlab, now, sync, crashes>>

(* Seeded fault: recovery leaves rows with an unacknowledged operation alone. *)
RecoverUnlessInDoubt ==
    /\ fin.pc = "idle"
    /\ Pending /\ row.pending.open = {}
    /\ Finish(row.id, row.pending)
    /\ UNCHANGED <<durable, gitlab, now, requests, hooks, sync, crashes>>

(* recover: called by sync_queue for every pending row, by the webhook       *)
(* handlers after they changed one, and by the startup recovery.             *)
Recover ==
    /\ fin.pc = "idle"
    /\ Pending
    /\ Finish(row.id, row.pending)
    /\ UNCHANGED <<durable, gitlab, now, requests, hooks, sync, crashes>>

FinAt(pc) == fin.pc = pc
FinTo(pc) == fin' = [fin EXCEPT !.pc = pc]

(* save_completion_progress *)
SaveProgress(p) ==
    row' = IF Pending /\ row.id = fin.id THEN [row EXCEPT !.pending = p] ELSE row

(* The POST of the outcome comment; "lost" is a success the bot never hears of. *)
PostComment(lost) ==
    /\ FinAt("comment")
    /\ comments' = comments \cup {fin.id}
    /\ IF lost THEN Release
       ELSE fin' = [fin EXCEPT !.pc = "saveComment", !.payload.commentSent = TRUE]
    /\ UNCHANGED <<durable, label, mrOpen, updatedAt, sent, now, requests, hooks, sync, crashes>>

SaveComment ==
    /\ FinAt("saveComment")
    /\ SaveProgress(fin.payload)
    /\ FinTo(CleanupOrReread(fin.payload))
    /\ UNCHANGED <<history, nextId, gitlab, now, requests, hooks, sync, crashes>>

(* What the reread request asks for: the label off again, or back on. *)
OwnInstants     == fin.payload.receipts.instants
RequeueMutation == IF RequeueIsCancelled(fin.intent, OwnInstants) THEN "remove" ELSE "add"

Mutation == IF fin.pc \in {"clean", "cleanPut"} THEN "remove" ELSE RequeueMutation

(* Seeded fault: the operation is remembered in memory only. *)
BeginMutationVolatile ==
    LET p == [fin.payload EXCEPT !.started = @ \cup {Mutation}, !.open = @ \cup {Mutation}]
    IN  /\ fin.pc \in {"clean", "apply"}
        /\ fin' = [fin EXCEPT !.payload = p,
                              !.pc = IF FinAt("clean") THEN "cleanPut" ELSE "applyPut"]
        /\ UNCHANGED <<durable, gitlab, now, requests, hooks, sync, crashes>>

(* _mutate_labels up to its PUT: the operation is durable before it happens. *)
BeginMutation ==
    LET p == [fin.payload EXCEPT !.started = @ \cup {Mutation}, !.open = @ \cup {Mutation}]
    IN  /\ fin.pc \in {"clean", "apply"}
        /\ SaveProgress(p)
        /\ fin' = [fin EXCEPT !.payload = p,
                              !.pc = IF FinAt("clean") THEN "cleanPut" ELSE "applyPut"]
        /\ UNCHANGED <<history, nextId, gitlab, now, requests, hooks, sync, crashes>>

(* The updated_at in the answer to the PUT; a fresh instant of a PUT that    *)
(* changed nothing is no webhook's, so it is not worth a tick.               *)
Answered(changed) == IF changed THEN {now + 1} ELSE IF NoopEcho THEN {updatedAt} ELSE {}

(* The actor, and the instants, by which a webhook will be known as the bot's. *)
Recorded(receipts, change, instants) ==
    [receipts EXCEPT !.actors = @ \cup {change}, !.instants = @ \cup instants]

(* The PUT of _mutate_labels and the bookkeeping in memory after it. *)
PutLabel(lost) ==
    LET changed == label # (Mutation = "add")
        p == [fin.payload EXCEPT
                !.open = @ \ {Mutation},
                !.labelsRemoved = @ \/ FinAt("cleanPut"),
                !.receipts = Recorded(@, Mutation, Answered(changed))]
    IN  /\ fin.pc \in {"cleanPut", "applyPut"}
        /\ lost => Cardinality({e \in sent : e.by = "bot"}) < MaxLost
        /\ IF changed THEN ChangeLabel(Mutation = "add", "bot")
                      ELSE UNCHANGED <<gitlab, now>>
        /\ IF lost THEN Release
           ELSE fin' = [fin EXCEPT !.payload = p,
                          !.pc = IF FinAt("cleanPut") THEN "saveClean" ELSE "saveApply"]
        /\ UNCHANGED <<durable, requests, hooks, sync, crashes>>

(* _record_label_event *)
SaveMutation ==
    /\ fin.pc \in {"saveClean", "saveApply"}
    /\ SaveProgress(fin.payload)
    /\ FinTo(IF FinAt("saveClean") THEN "reread" ELSE "finalize")
    /\ UNCHANGED <<history, nextId, gitlab, now, requests, hooks, sync, crashes>>

(* A request that is not cancelled names its triggers (KeyError otherwise). *)
Restorable(intent) == RequeueIsCancelled(intent, OwnInstants) \/ intent.wanted

(* Seeded fault: the reread request is transferred without its label. *)
RereadWithoutRestore ==
    /\ FinAt("reread")
    /\ IF row = None \/ (row # None /\ row.id # fin.id) THEN Release
       ELSE fin' = [fin EXCEPT !.pc = "finalize", !.intent = row.intent]
    /\ UNCHANGED <<durable, gitlab, now, requests, hooks, sync, crashes>>

(* _finish reads the row again for the request users made meanwhile. *)
Reread ==
    /\ FinAt("reread")
    /\ IF row = None \/ (row # None /\ row.id # fin.id) THEN Release
       ELSE IF row.intent = None THEN FinTo("finalize")
       ELSE IF Restorable(row.intent) THEN fin' = [fin EXCEPT !.pc = "apply", !.intent = row.intent]
       ELSE Release
    /\ UNCHANGED <<durable, gitlab, now, requests, hooks, sync, crashes>>

(* GitLab or the network fails: _finish raises, the row stays pending. *)
FinisherFails ==
    /\ fin.pc \in {"comment", "clean", "cleanPut", "apply", "applyPut"}
    /\ Release
    /\ UNCHANGED <<durable, gitlab, now, requests, hooks, sync, crashes>>

(* INSERT INTO merge_requests_history ... ON CONFLICT(project_id, iid) DO NOTHING *)
Archive(id, outcome, at) ==
    history' = IF history = {} THEN {[id |-> id, outcome |-> outcome, at |-> at]}
               ELSE history

(* The next incarnation, with its memory of what must not count as news. *)
Transfer(intent, p) ==
    IF intent # None /\ ~RequeueIsCancelled(intent, p.receipts.instants)
    THEN /\ row' = FreshRow(nextId, [p.receipts EXCEPT
                                       !.admissions = @ \cup AdmissionReceipts(intent)])
         /\ nextId' = nextId + 1
    ELSE row' = None /\ UNCHANGED nextId

AdmissionLockFree == \A h \in Hooks : hooks[h].pc # "write"

(* Seeded fault: the DELETE does not compare the requeue request. *)
OwnedWhateverRequested == row # None /\ row.id = fin.id /\ row.pending = fin.payload

(* What the DELETE of finalize_completion compares the row with. *)
StillOwned == /\ row # None
              /\ row.id = fin.id
              /\ row.pending = fin.payload
              /\ row.intent = fin.intent

(* finalize_completion: one transaction under the admission lock. *)
Finalize ==
    /\ FinAt("finalize")
    /\ AdmissionLockFree
    /\ IF StillOwned
       THEN /\ Archive(row.id, fin.payload.outcome, fin.payload.at)
            /\ Transfer(fin.intent, fin.payload)
       ELSE UNCHANGED durable
    /\ Release
    /\ UNCHANGED <<gitlab, now, requests, hooks, sync, crashes>>

Finisher ==
    \/ \E lost \in BOOLEAN : PostComment(lost) \/ PutLabel(lost)
    \/ SaveComment \/ BeginMutation \/ SaveMutation \/ Reread \/ Finalize
    \/ FinisherFails
-----------------------------------------------------------------------------
(* Webhook handlers *)

ByBot(e) == e.by # "user" \/ SharedAccount

(* Seeded fault: the completion does not recognise its own changes. *)
NoCompletionEvent(e, p) == FALSE

(* _own_completion_event: a change of the running completion. *)
OwnCompletionEvent(e, p) == e.open /\ e.kind \in p.started /\ ByBot(e)

(* _ignored_completion_event: a change the previous incarnation knew of. *)
IgnoredCompletionEvent(e, ignored) ==
    \/ e.msg \in ignored.admissions
    \/ /\ e.open /\ e.kind # "merge"
       /\ \/ Clock(e).at \in ignored.instants
          \/ e.kind \in ignored.actors /\ ByBot(e)

HookTo(h, pc)        == hooks' = [hooks EXCEPT ![h].pc = pc]
HookDone(h)          == hooks' = [hooks EXCEPT ![h] = IdleHook]
HookAt(h, pc)        == hooks[h].pc = pc
HookStarts(h, e, pc, allow) ==
    hooks' = [hooks EXCEPT ![h] =
                [pc |-> pc, ev |-> e, id |-> IF row = None THEN 0 ELSE row.id,
                 allow |-> allow]]

(* _admit_active_trigger: the events an active row records. *)
AdmittedWhileActive(e) == row.status = "active" /\ (e.kind = "add" \/ row.intent # None)

(* _resume_completion, under the admission lock, up to its write.  The lock  *)
(* is held on in the step "write" only.                                      *)
Receive(h, e) ==
    /\ HookAt(h, "idle")
    /\ e \in sent
    /\ e.kind = "add" \/ MayEnd
    /\ AdmissionLockFree
    /\ CASE row = None -> HookStarts(h, e, "handle", FALSE)
         [] row # None /\ IgnoredCompletionEvent(e, row.ignored) -> UNCHANGED hooks
         [] row # None /\ ~IgnoredCompletionEvent(e, row.ignored) /\ row.pending = None ->
              IF AdmittedWhileActive(e)
              THEN HookStarts(h, e, "write", TRUE)
              ELSE HookStarts(h, e, "handle", FALSE)
         [] OTHER ->
              IF \/ e.msg \in row.pending.receipts.admissions
                 \/ OwnCompletionEvent(e, row.pending)
                 \/ DefinitelyBefore(Clock(e).at, Prec, row.pending.at)
              THEN UNCHANGED hooks
              ELSE HookStarts(h, e, "write", FALSE)
    /\ UNCHANGED <<durable, gitlab, now, requests, fin, sync, crashes>>

(* _change_completion_requeue: anything but an enqueue of an open merge      *)
(* request cancels.                                                          *)
Cancelling(e) == ~(e.kind = "add" /\ e.open)

Writable(h) == /\ row # None /\ row.id = hooks[h].id
               /\ Pending \/ (hooks[h].allow /\ Active)

(* defer_requeue or cancel_requeue, releasing the admission lock.  When the  *)
(* row is not the handler's any more the webhook goes to the retry queue.    *)
WriteIntent(h) ==
    LET e == hooks[h].ev
    IN  /\ HookAt(h, "write")
        /\ IF Writable(h)
           THEN /\ row' = [row EXCEPT !.intent =
                             WriteRequeue(e.msg, Clock(e), Cancelling(e), row.intent)]
                /\ IF hooks[h].allow THEN HookTo(h, "handle") ELSE HookDone(h)
           ELSE UNCHANGED row /\ HookDone(h)
        /\ UNCHANGED <<history, nextId, gitlab, now, requests, fin, sync, crashes>>

(* trigger_mark_removed and _handle_merge end in a completion request, and   *)
(* the handler waits for the completion lock.                                *)
RequestEnd(h, outcome, cleanup) ==
    /\ now' = now + 1
    /\ requests' = requests \cup
         {[id |-> row.id, outcome |-> outcome, at |-> now', cleanup |-> cleanup, by |-> h]}
    /\ HookTo(h, "waiting")

(* _handle_labeled and _handle_update look the row up. *)
HandleAdd(h) ==
    /\ HookAt(h, "handle") /\ hooks[h].ev.kind = "add"
    /\ IF Active THEN HookTo(h, "refresh") ELSE HookTo(h, "stale")
    /\ UNCHANGED <<durable, gitlab, now, requests, fin, sync, crashes>>

(* _handle_unlabeled: an active row is removed through the state machine,    *)
(* one that ended without a completion through complete_mr.                  *)
HandleRemove(h) ==
    /\ HookAt(h, "handle") /\ hooks[h].ev.kind = "remove"
    /\ IF Active /\ row.pending = None
       THEN RequestEnd(h, "removed", FALSE)
       ELSE /\ UNCHANGED <<requests, now>>
            /\ IF row # None
               THEN hooks' = [hooks EXCEPT ![h].pc = "fallback", ![h].id = row.id]
               ELSE HookDone(h)
    /\ UNCHANGED <<durable, gitlab, fin, sync, crashes>>

(* _handle_merge: the merge request was merged while its row was active. *)
HandleMerge(h) ==
    /\ HookAt(h, "handle") /\ hooks[h].ev.kind = "merge"
    /\ IF Active /\ row.pending = None
       THEN RequestEnd(h, "merged", TRUE)
       ELSE UNCHANGED <<requests, now>> /\ HookDone(h)
    /\ UNCHANGED <<durable, gitlab, fin, sync, crashes>>

(* _refresh_queue_item_metadata, which acknowledges the row's admission when *)
(* it is this message's.                                                     *)
RefreshMetadata(h) ==
    /\ HookAt(h, "refresh")
    /\ row' = IF /\ Active /\ row.pending = None
                 /\ Uncancelled(row.intent) /\ row.intent.key = hooks[h].ev.msg
              THEN [row EXCEPT !.intent.applied = now]
              ELSE row
    /\ HookDone(h)
    /\ UNCHANGED <<history, nextId, gitlab, now, requests, fin, sync, crashes>>

(* get_mr_state: finished_at of the row, or of the archived lifecycle. *)
FinishedAt ==
    IF row # None THEN (IF row.pending # None THEN row.pending.at ELSE None)
    ELSE IF history = {} THEN None
    ELSE (CHOOSE r \in history : TRUE).at

(* _stale_enqueue *)
StaleEnqueue(h) ==
    /\ HookAt(h, "stale")
    /\ IF /\ FinishedAt # None
          /\ DefinitelyBefore(Clock(hooks[h].ev).at, Prec, FinishedAt)
       THEN HookDone(h)
       ELSE HookTo(h, "fetch")
    /\ UNCHANGED <<durable, gitlab, now, requests, fin, sync, crashes>>

(* gitlab_client.get_mr; when it fails the webhook goes to the retry queue. *)
FetchMergeRequest(h) ==
    /\ HookAt(h, "fetch")
    /\ IF label /\ mrOpen THEN HookTo(h, "add") ELSE HookDone(h)
    /\ UNCHANGED <<durable, gitlab, now, requests, fin, sync, crashes>>

(* Seeded fault: a row that ended is replaced although a completion owns it. *)
AddOverCompletion ==
    IF row = None \/ (row # None /\ row.status # "active")
    THEN row' = FreshRow(nextId, NoReceipts) /\ nextId' = nextId + 1
    ELSE UNCHANGED <<row, nextId>>

(* add_to_queue: a row that ended and is nobody's is replaced. *)
AddToQueue ==
    IF row = None \/ (row # None /\ row.status # "active" /\ row.pending = None)
    THEN row' = FreshRow(nextId, NoReceipts) /\ nextId' = nextId + 1
    ELSE UNCHANGED <<row, nextId>>

AddFetched(h) ==
    /\ HookAt(h, "add")
    /\ AddToQueue
    /\ HookDone(h)
    /\ UNCHANGED <<history, gitlab, now, requests, fin, sync, crashes>>

(* complete_mr with the row the handler read: archive it without an owner. *)
CompleteDirectly(h) ==
    /\ HookAt(h, "fallback")
    /\ IF row # None /\ row.id = hooks[h].id /\ row.pending = None
       THEN /\ Archive(row.id, "removed", now)
            /\ row' = None
            /\ HookTo(h, "unlabel")
       ELSE UNCHANGED <<row, history>> /\ HookDone(h)
    /\ UNCHANGED <<nextId, gitlab, now, requests, fin, sync, crashes>>

(* _remove_queue_label: best effort, without an operation on record. *)
RemoveQueueLabel(h) ==
    /\ HookAt(h, "unlabel")
    /\ IF label THEN ChangeLabel(FALSE, "handler") ELSE UNCHANGED <<gitlab, now>>
    /\ HookDone(h)
    /\ UNCHANGED <<durable, requests, fin, sync, crashes>>

HookFails(h) ==
    /\ hooks[h].pc \in {"fetch", "unlabel"}
    /\ HookDone(h)
    /\ UNCHANGED <<durable, gitlab, now, requests, fin, sync, crashes>>

Hook(h) ==
    \/ \E e \in sent : Receive(h, e)
    \/ WriteIntent(h)
    \/ HandleAdd(h) \/ HandleRemove(h) \/ HandleMerge(h)
    \/ RefreshMetadata(h) \/ StaleEnqueue(h) \/ FetchMergeRequest(h) \/ AddFetched(h)
    \/ CompleteDirectly(h) \/ RemoveQueueLabel(h)
    \/ HookFails(h)
-----------------------------------------------------------------------------
(* The scheduler's sync; its recover_all is the action Recover *)

SyncAt(pc) == sync.pc = pc
SyncTo(pc) == sync' = [sync EXCEPT !.pc = pc]
SyncDone   == sync' = IdleSync

(* list_mrs_with_label: the open merge requests that carry a trigger. *)
SyncList ==
    /\ Polling
    /\ SyncAt("idle")
    /\ sync' = [pc |-> "compare", labelled |-> label /\ mrOpen]
    /\ UNCHANGED <<durable, gitlab, now, requests, fin, hooks, crashes>>

(* get_active_queue, read after the list. *)
SyncCompare ==
    /\ SyncAt("compare")
    /\ IF sync.labelled /\ ~Active THEN SyncTo("check")
       ELSE IF ~sync.labelled /\ Active /\ MayEnd THEN SyncTo("verify")
       ELSE SyncDone
    /\ UNCHANGED <<durable, gitlab, now, requests, fin, hooks, crashes>>

(* _add_missing_mrs skips a row a completion owns. *)
SyncCheck ==
    /\ SyncAt("check")
    /\ IF Pending THEN SyncDone ELSE SyncTo("add")
    /\ UNCHANGED <<durable, gitlab, now, requests, fin, hooks, crashes>>

SyncAdd ==
    /\ SyncAt("add")
    /\ AddToQueue
    /\ SyncDone
    /\ UNCHANGED <<history, gitlab, now, requests, fin, hooks, crashes>>

(* _should_remove_from_queue asks GitLab about the merge request itself. *)
SyncVerify ==
    /\ SyncAt("verify")
    /\ IF label /\ mrOpen THEN SyncDone ELSE SyncTo("remove")
    /\ UNCHANGED <<durable, gitlab, now, requests, fin, hooks, crashes>>

(* remove_from_queue sets the status whatever incarnation the row is. *)
SyncRemove ==
    /\ SyncAt("remove")
    /\ row' = IF row = None THEN None ELSE [row EXCEPT !.status = "removed"]
    /\ SyncDone
    /\ UNCHANGED <<history, nextId, gitlab, now, requests, fin, hooks, crashes>>

SyncFails ==
    /\ sync.pc \in {"compare", "verify"}
    /\ SyncDone
    /\ UNCHANGED <<durable, gitlab, now, requests, fin, hooks, crashes>>

Sync == SyncList \/ SyncCompare \/ SyncCheck \/ SyncAdd \/ SyncVerify
        \/ SyncRemove \/ SyncFails
-----------------------------------------------------------------------------
(* A crash or restart forgets every task; the database and GitLab stay. *)
Crash ==
    /\ crashes < MaxCrashes
    /\ crashes' = crashes + 1
    /\ requests' = {}
    /\ fin' = Free
    /\ hooks' = [h \in Hooks |-> IdleHook]
    /\ sync' = IdleSync
    /\ UNCHANGED <<durable, gitlab, now>>

Next ==
    \/ UserToggles
    \/ \E outcome \in Outcomes : Decide(outcome)
    \/ \E q \in requests : Prepare(q)
    \/ Recover
    \/ Finisher
    \/ \E h \in Hooks : Hook(h)
    \/ Sync
    \/ Crash

Spec == Init /\ [][Next]_vars

(* asyncio runs every ready task, and its locks are handed over in FIFO      *)
(* order, so a task that waits for a lock others take again and again gets   *)
(* it in the end (SF).  GitLab does not fail for ever (SF on its answers).   *)
(* Nothing is assumed of users, deliveries and the processor's decisions.    *)
Fairness ==
    /\ WF_vars(Recover)
    /\ \A step \in {"comment", "cleanPut", "applyPut"} :
          SF_vars(FinAt(step) /\ (PostComment(FALSE) \/ PutLabel(FALSE)))
    /\ \A step \in {"clean", "apply"} : SF_vars(FinAt(step) /\ BeginMutation)
    /\ WF_vars(SaveComment) /\ WF_vars(SaveMutation) /\ WF_vars(Reread)
    /\ SF_vars(Finalize)
    /\ \A h \in Hooks : WF_vars(WriteIntent(h))

FairSpec == Spec /\ Fairness
-----------------------------------------------------------------------------
(* Properties *)

(* The row of the current lifecycle is deleted or replaced. *)
Leaves == row # None /\ (row' = None \/ (row' # None /\ row'.id # row.id))

(***************************************************************************)
(* Whoever holds the completion lock owns the row: the row stays, and      *)
(* stays this lifecycle's, until the lock is released, and what the task   *)
(* remembers of its progress is never behind what the row says.  A step    *)
(* the payload calls done was done in GitLab.                              *)
(***************************************************************************)
Agrees(p, saved) ==
    /\ p.outcome = saved.outcome /\ p.at = saved.at /\ p.cleanup = saved.cleanup
    /\ saved.commentSent => p.commentSent
    /\ saved.labelsRemoved => p.labelsRemoved

LockOwnership ==
    /\ row # None => row.id < nextId
    /\ Pending => (row.pending.commentSent => row.id \in comments)
    /\ fin.pc # "idle" =>
         /\ Pending /\ row.id = fin.id
         /\ fin.payload # None
         /\ Agrees(fin.payload, row.pending)
         /\ fin.payload.commentSent => fin.id \in comments
    /\ fin.pc \notin {"idle", "comment"} => fin.payload.commentSent
    /\ fin.pc \in {"saveClean", "reread", "apply", "applyPut", "saveApply", "finalize"} =>
         (fin.payload.cleanup => fin.payload.labelsRemoved)

(***************************************************************************)
(* prepare_completion: "Freeze outcome".  Once one of the competing enders *)
(* (processor, removal webhook, merge webhook) froze its outcome, no       *)
(* later request, progress write, sync or crash changes it.                *)
(***************************************************************************)
FrozenOutcome ==
    [][Pending /\ ~Leaves => /\ row'.pending # None
                             /\ row'.pending.outcome = row.pending.outcome
                             /\ row'.pending.at = row.pending.at]_vars

(***************************************************************************)
(* "The durable row owns cleanup until archival" (queue_completion.py:4):  *)
(* an owned row leaves the queue only after its outcome comment is posted, *)
(* its label cleanup is acknowledged and no label operation is in doubt.   *)
(***************************************************************************)
OwnedRowLeavesDone ==
    [][Pending /\ Leaves => /\ row.id \in comments
                            /\ ~row.pending.cleanup \/ row.pending.labelsRemoved]_vars

(***************************************************************************)
(* finalize_completion: "transfer any requeue atomically".  When an owned  *)
(* row leaves, a new incarnation takes its place exactly when the row      *)
(* carries a request nobody but the bot cancelled, however the request     *)
(* changed while the completion was waiting for GitLab.                    *)
(***************************************************************************)
AdmittedIntentSurvives ==
    [][Pending /\ Leaves =>
         ((row' # None) <=> /\ row.intent # None
                            /\ ~RequeueIsCancelled(row.intent, row.pending.receipts.instants))]_vars

Handled(e) == row.intent # None /\ e.msg \in row.intent.seen

(***************************************************************************)
(* The label GitLab shows agrees with the queue when a completion ends     *)
(* that touched it, provided the webhooks of the users' changes since the  *)
(* outcome have been handled: bot and user never fight over the label.     *)
(***************************************************************************)
LabelFollowsRequeue ==
    [][(/\ Pending /\ Leaves
        /\ row.pending.cleanup \/ row.intent # None
        /\ \A e \in UserEvents : e.msg > row.pending.at => Handled(e))
       => (label <=> row' # None)]_vars

(***************************************************************************)
(* models/completion.py: "Bot cleanup events cannot cancel a user's        *)
(* explicit enqueue request."  The webhook of a label change the           *)
(* completion made after the outcome is never taken into the request, not  *)
(* even when the answer to its PUT was lost or the bot crashed in between. *)
(***************************************************************************)
OwnChangesAreNotIntent ==
    (Pending /\ row.intent # None) =>
        \A e \in sent : (e.by = "bot" /\ e.open /\ e.msg > row.pending.at) => ~Handled(e)

(***************************************************************************)
(* requeue_distinguishes_user_cancel_from_cleanup.py: a user's             *)
(* cancellation discards the deferred enqueue.  No row is renewed on a     *)
(* request that took a user's removal which provably follows every enqueue *)
(* the request took.                                                       *)
(***************************************************************************)
UserCancelHonoured ==
    [][Pending /\ Leaves /\ row' # None =>
         \A r \in UserEvents : (r.kind = "remove" /\ Handled(r)) =>
            \E a \in sent : /\ a.kind = "add" /\ Handled(a)
                            /\ ~DefinitelyBefore(Clock(a).at, Prec, Clock(r).at)]_vars

(***************************************************************************)
(* A request the completion rereads can be carried out: it is cancelled,   *)
(* or it names triggers to restore.  _finish raises a KeyError otherwise,  *)
(* on this attempt and on every recovery after it.                         *)
(***************************************************************************)
RequestIsRestorable ==
    (FinAt("reread") /\ Pending /\ row.id = fin.id /\ row.intent # None) => Restorable(row.intent)

(***************************************************************************)
(* "Finish an owned lifecycle, and resume it after interruption": every    *)
(* frozen lifecycle is archived in the end, whatever failed on the way.    *)
(***************************************************************************)
PendingIsArchived ==
    \A id \in 1 .. MaxId :
        (Pending /\ row.id = id) ~> ~(row # None /\ row.id = id)
-----------------------------------------------------------------------------
(* The abstract lifecycle *)

Phase == IF row = None THEN "out"
         ELSE IF row.pending # None THEN "ending"
         ELSE IF row.status = "active" THEN "queued" ELSE "removed"

Lifecycle == INSTANCE MergeRequestLifecycle WITH
    Results <- {"merged", "failed", "removed"},
    phase   <- Phase,
    current <- IF row = None THEN 0 ELSE row.id,
    started <- nextId - 1,
    outcome <- IF Pending THEN row.pending.outcome ELSE None,
    told    <- comments

(***************************************************************************)
(* Every step of the completion, of the handlers, of the sync and every    *)
(* crash is a step of MergeRequestLifecycle or invisible there: a          *)
(* lifecycle gets one outcome, is told before it makes room, and makes     *)
(* room for none or for exactly one successor with a fresh id.             *)
(***************************************************************************)
ImplementsLifecycle == Lifecycle!Spec
-----------------------------------------------------------------------------
(* Statements of docs and tests that the code does not keep *)

(***************************************************************************)
(* queue.py:1300, finalize_completion: "Archive and delete only this       *)
(* intent's incarnation".                                                  *)
(***************************************************************************)
FinalizedRowsAreInHistory ==
    [][Pending /\ Leaves => \E r \in history' : r.id = row.id]_vars

(***************************************************************************)
(* stale_enqueue_replay_does_not_restart_completed_lifecycle.py: an        *)
(* enqueue from before the outcome does not start another lifecycle.       *)
(***************************************************************************)
StaleEnqueueDoesNotRestart ==
    [][Pending /\ Leaves /\ row' # None =>
         ~DefinitelyBefore(row.intent.clock.at, row.intent.clock.width, row.pending.at)]_vars

(***************************************************************************)
(* models/completion.py:23: "Bot cleanup events cannot cancel a user's     *)
(* explicit enqueue request".  The webhook of a label change of the bot    *)
(* does not make a handler end a lifecycle.                                *)
(***************************************************************************)
BotCleanupEndsNothing ==
    [][\A h \in Hooks : (hooks[h].ev # None /\ hooks[h].ev.by = "bot" /\ hooks[h].ev.open) =>
         \A q \in requests' \ requests : q.by # h]_vars
=============================================================================
