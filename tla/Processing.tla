----------------------------- MODULE Processing -----------------------------
(***************************************************************************)
(* How a queued merge request is worked through: the processor with its    *)
(* state machine, the recovery at startup, the error handling that resets  *)
(* a row or gives it up, and what happens to the row meanwhile: webhooks   *)
(* about the merge request and its pipeline, the scheduler, completions,   *)
(* users who label, close or merge, and crashes.                           *)
(*                                                                         *)
(* One merge request is followed; while the processor is busy with another *)
(* one it is "idle" here.  The state machine is an object in memory: it    *)
(* changes state first and writes the row afterwards, by the merge         *)
(* request's iid and not by the lifecycle it was made for.                 *)
(*                                                                         *)
(* QueueCompletion models how a frozen outcome is told and archived, the   *)
(* requeue requests, and which webhooks are ignored.  Here a webhook of an *)
(* event that happened may be handled at any time and any number of times. *)
(***************************************************************************)
EXTENDS Integers

CONSTANTS
    None,
    Hooks,          \* webhook deliveries being handled at the same time
    MaxAttempts,    \* max_processing_attempts
    MaxId,          \* bound: lifecycles started
    MaxActs,        \* bound: acts of users
    MaxCrashes      \* bound: crashes and restarts

ASSUME ProcessingConstants ==
    /\ MaxAttempts \in Nat \ {0}
    /\ MaxId \in Nat /\ MaxActs \in Nat /\ MaxCrashes \in Nat

Outcomes == {"merged", "failed", "removed"}
Working  == {"rebasing", "testing", "merging"}

VARIABLES
    row,        \* the row of merge_requests, None when there is none
    nextId,     \* the AUTOINCREMENT of merge_requests
    told,       \* lifecycles whose outcome was told
    mr,         \* GitLab: state and trigger label of the merge request
    happened,   \* GitLab: webhook events emitted
    proc,       \* the processor task and its state machine
    hooks,      \* webhook handler tasks
    acts,       \* acts of users so far
    crashes     \* crashes so far

vars == <<row, nextId, told, mr, happened, proc, hooks, acts, crashes>>
-----------------------------------------------------------------------------
(* Data *)

Rows == [id : Nat, state : {"queued", "removed"} \cup Working, attempts : Nat,
         pending : Outcomes \cup {None}]

(* Where the processor stands.  "dead": run() raised, nobody starts it again. *)
Pcs == {"dead", "down", "recover", "ask", "settle", "idle", "create", "verify",
        "begin", "rebase", "reach", "wait", "merge", "complete", "error",
        "reset", "count", "discard", "unlabel"}

(* The machine's queue_id (0 when it was made without a row), its state      *)
(* ("none" before it is made), what it is about to write, and the attempts   *)
(* the error handler counted.                                                *)
Processors == [pc : Pcs, id : Nat, sm : {"none", "queued", "final"} \cup Working,
               next : Outcomes \cup {"queued", None}, attempts : Nat]

HookTasks == [pc : {"idle", "end", "write"}, id : Nat,
              next : {"merged", "removed", "testing", "merging", None}]

ASSUME NoneIsNoRow == None \notin Rows /\ None \notin Outcomes

TypeOK ==
    /\ row \in Rows \cup {None}
    /\ nextId \in Nat /\ told \subseteq Nat
    /\ mr \in [state : {"opened", "merged", "closed"}, label : BOOLEAN]
    /\ happened \subseteq {"unlabeled", "closed", "merged"}
    /\ proc \in Processors
    /\ hooks \in [Hooks -> HookTasks]
    /\ acts \in Nat /\ crashes \in Nat

(* Seeded fault: the insert leaves processing_attempts NULL. *)
FreshRowUncounted(id) == [id |-> id, state |-> "queued", attempts |-> None, pending |-> None]

FreshRow(id) == [id |-> id, state |-> "queued", attempts |-> 0, pending |-> None]
At(pc)       == [pc |-> pc, id |-> 0, sm |-> "none", next |-> None, attempts |-> 0]
IdleHook     == [pc |-> "idle", id |-> 0, next |-> None]

Pending    == row # None /\ row.pending # None
Undecided  == row # None /\ row.pending = None
Active     == Undecided /\ row.state # "removed"
InProgress == Undecided /\ row.state \in Working
Eligible   == mr.state = "opened" /\ mr.label

(* A row may be left over from the run before. *)
Init ==
    /\ row \in {None} \cup {[FreshRow(1) EXCEPT !.state = s] : s \in Working \cup {"queued"}}
    /\ nextId = 2
    /\ told = {}
    /\ mr = [state |-> "opened", label |-> row # None]
    /\ happened = {}
    /\ proc = At("down")
    /\ hooks = [h \in Hooks |-> IdleHook]
    /\ acts = 0
    /\ crashes = 0

ProcAt(pc) == proc.pc = pc
ProcTo(pc) == proc' = [proc EXCEPT !.pc = pc]
ProcDone   == proc' = At("idle")

(* Seeded fault: a status write does not look for an owned completion. *)
WriteOverCompletion(state, attempts) ==
    row' = IF row # None
           THEN [row EXCEPT !.state = state, !.attempts = attempts, !.pending = None]
           ELSE row

(* update_mr_state: by iid, and never over an owned completion.  When there  *)
(* is no such row it raises QueueItemNotFoundError.                          *)
WriteRow(state, attempts) ==
    row' = IF Undecided THEN [row EXCEPT !.state = state, !.attempts = attempts]
           ELSE row

WriteState(state) == WriteRow(state, IF row = None THEN 0 ELSE row.attempts)

(* Seeded fault: the incarnation is not compared. *)
FreezeWhatever(id, outcome) ==
    row' = IF Undecided THEN [row EXCEPT !.pending = outcome] ELSE row

(* prepare_completion: only the incarnation asked for, and only once. *)
FreezeRow(id, outcome) ==
    row' = IF Undecided /\ id \in {0, row.id} THEN [row EXCEPT !.pending = outcome]
           ELSE row

(* complete_mr: delete the row nobody owns; id 0 stands for any incarnation. *)
DeleteRow(id) == row' = IF Undecided /\ id \in {0, row.id} THEN None ELSE row

external == <<nextId, told, mr, happened, hooks, acts, crashes>>
-----------------------------------------------------------------------------
(* Startup: run() before its loop.  recover_all is Tell and Archive below.   *)

Start ==
    /\ ProcAt("down")
    /\ ProcTo("recover")
    /\ UNCHANGED <<row, external>>

(* _recover_interrupted_state reads the active queue ... *)
RecoverySnapshot ==
    /\ ProcAt("recover")
    /\ IF Active THEN proc' = [At("ask") EXCEPT !.id = row.id, !.sm = row.state]
       ELSE ProcDone
    /\ UNCHANGED <<row, external>>

RecoveryAction ==
    IF mr.state = "merged" THEN "merged"
    ELSE IF ~Eligible THEN "removed"
    ELSE IF proc.sm \in Working THEN "queued"
    ELSE None

(* ... and asks GitLab about each merge request in it. *)
RecoveryAsks ==
    /\ ProcAt("ask")
    /\ IF RecoveryAction = None THEN ProcDone
       ELSE proc' = [proc EXCEPT !.pc = "settle", !.next = RecoveryAction]
    /\ UNCHANGED <<row, external>>

(* GitLab does not answer: the row is skipped. *)
RecoverySkips ==
    /\ ProcAt("ask")
    /\ ProcDone
    /\ UNCHANGED <<row, external>>

(* Seeded fault: recovery keeps the row's state. *)
RecoveryKeepsState ==
    /\ ProcAt("settle")
    /\ IF proc.next # "queued" THEN DeleteRow(proc.id) ELSE UNCHANGED row
    /\ ProcDone
    /\ UNCHANGED external

(* A row that vanished or is being completed by now raises, out of run().    *)
RecoverySettles ==
    /\ ProcAt("settle")
    /\ IF proc.next = "queued"
       THEN /\ WriteState("queued")
            /\ IF Undecided THEN ProcDone ELSE proc' = At("dead")
       ELSE DeleteRow(proc.id) /\ ProcDone
    /\ UNCHANGED external
-----------------------------------------------------------------------------
(* The processor's loop *)

(* get_next_mr *)
PickNext ==
    /\ ProcAt("idle")
    /\ Active /\ row.state = "queued"
    /\ proc' = At("create")
    /\ UNCHANGED <<row, external>>

(* create_state_machine_for_mr reads the row again.  Without a row the new   *)
(* machine announces itself first, and GitLab may fail it.                   *)
CreateMachine ==
    /\ ProcAt("create")
    /\ IF row = None
       THEN proc' \in {[At("verify") EXCEPT !.sm = "queued"], At("error")}
       ELSE proc' = [At("verify") EXCEPT
                       !.id = row.id,
                       !.sm = IF Active THEN row.state ELSE "final"]
    /\ UNCHANGED <<row, external>>

(* A final transition of the machine: the completion is asked for next. *)
EndWith(outcome) == proc' = [proc EXCEPT !.pc = "complete", !.sm = "final", !.next = outcome]

(* _execute_workflow starts where the machine is. *)
WorkflowEntry ==
    CASE proc.sm = "queued"   -> "begin"
      [] proc.sm = "rebasing" -> "rebase"
      [] proc.sm = "testing"  -> "reach"
      [] proc.sm = "merging"  -> "merge"
      [] OTHER                -> "idle"

(* _verify_mr_in_queue.  A final machine can neither be marked nor worked on. *)
Verify ==
    /\ ProcAt("verify")
    /\ IF Eligible THEN IF proc.sm = "final" THEN ProcDone ELSE ProcTo(WorkflowEntry)
       ELSE IF proc.sm = "final" THEN ProcTo("error") ELSE EndWith("removed")
    /\ UNCHANGED <<row, external>>

VerifyFails ==
    /\ ProcAt("verify")
    /\ ProcTo("error")
    /\ UNCHANGED <<row, external>>

(* The machine moves, on_enter_* writes the row and posts a comment.  The    *)
(* write fails on a row that is gone or owned, GitLab may fail the comment.  *)
Advance(state, pc) ==
    /\ WriteState(state)
    /\ proc' \in {[proc EXCEPT !.pc = p, !.sm = state] :
                    p \in IF Undecided THEN {pc, "error"} ELSE {"error"}}
    /\ UNCHANGED external

(* trigger_start_processing *)
Begin == ProcAt("begin") /\ Advance("rebasing", "rebase")

(* process_rebase and resume_rebase end with a pipeline to wait for, with a  *)
(* conflict or a timeout, or with an error of GitLab.                        *)
Rebase ==
    /\ ProcAt("rebase")
    /\ \/ Advance("testing", "reach")
       \/ EndWith("failed") /\ UNCHANGED <<row, external>>
       \/ ProcTo("error") /\ UNCHANGED <<row, external>>

(* The merge request made progress: its attempts start again. *)
ReachTesting ==
    /\ ProcAt("reach")
    /\ WriteRow("testing", 0)
    /\ ProcTo(IF Undecided THEN "wait" ELSE "error")
    /\ UNCHANGED external

(* wait_for_pipeline (module PipelineWait): success, a failure or timeout,   *)
(* the merge request left the queue, or an error.                            *)
WaitForPipeline ==
    /\ ProcAt("wait")
    /\ \/ Advance("merging", "merge")
       \/ EndWith("failed") /\ UNCHANGED <<row, external>>
       \/ ~Eligible /\ EndWith("removed") /\ UNCHANGED <<row, external>>
       \/ ProcTo("error") /\ UNCHANGED <<row, external>>

MergeInGitLab ==
    /\ mr.state # "closed"
    /\ mr' = [mr EXCEPT !.state = "merged"]
    /\ happened' = happened \cup {"merged"}
    /\ UNCHANGED <<row, nextId, told, hooks, acts, crashes>>

(* Seeded fault: the error of a refused merge is not looked at. *)
MergeBlindly ==
    /\ ProcAt("merge")
    /\ EndWith("merged")
    /\ MergeInGitLab \/ UNCHANGED <<row, external>>

(* merge_mr within merge_timeout_seconds: merged, refused, or merged with    *)
(* the answer lost or too late, which counts as a failure.                   *)
Merge ==
    /\ ProcAt("merge")
    /\ \/ EndWith("merged") /\ MergeInGitLab
       \/ EndWith("failed") /\ UNCHANGED <<row, external>>
       \/ EndWith("failed") /\ MergeInGitLab

(* QueueCompletion.complete: frozen here; told and archived below. *)
Complete ==
    /\ ProcAt("complete")
    /\ FreezeRow(proc.id, proc.next)
    /\ ProcDone
    /\ UNCHANGED external
-----------------------------------------------------------------------------
(* _handle_processing_error *)

(* It reads the row; a machine that is queued or final cannot be reset       *)
(* (TransitionNotAllowed, which is logged).                                  *)
HandleError ==
    /\ ProcAt("error")
    /\ IF ~Undecided THEN ProcDone
       ELSE IF row.attempts + 1 >= MaxAttempts
       THEN IF proc.sm \in Working THEN EndWith("failed") ELSE ProcTo("discard")
       ELSE IF proc.sm \in {"queued", "final"} THEN ProcDone
       ELSE proc' = [proc EXCEPT !.pc = IF proc.sm = "none" THEN "count" ELSE "reset",
                                 !.attempts = row.attempts + 1]
    /\ UNCHANGED <<row, external>>

(* trigger_reset_to_queued writes the row once ... *)
Reset ==
    /\ ProcAt("reset")
    /\ WriteState("queued")
    /\ IF Undecided THEN proc' = [proc EXCEPT !.pc = "count", !.sm = "queued"] ELSE ProcDone
    /\ UNCHANGED external

(* Seeded fault: the attempts counted are not written. *)
ResetWithoutCounting ==
    /\ ProcAt("count")
    /\ WriteState("queued")
    /\ ProcDone
    /\ UNCHANGED external

(* ... and the error handler again, with the attempts it counted. *)
CountAttempt ==
    /\ ProcAt("count")
    /\ WriteRow("queued", proc.attempts)
    /\ ProcDone
    /\ UNCHANGED external

(* _fail_mr_permanently of a machine that cannot fail: whatever incarnation  *)
(* the row is by now is archived; then a comment and the label's removal,    *)
(* either of which GitLab may fail.                                          *)
DiscardRow ==
    /\ ProcAt("discard")
    /\ DeleteRow(0)
    /\ ProcTo("unlabel")
    /\ UNCHANGED external

RemoveLabel ==
    /\ ProcAt("unlabel")
    /\ mr' \in {mr, [mr EXCEPT !.label = FALSE]}
    /\ ProcDone
    /\ UNCHANGED <<row, nextId, told, happened, hooks, acts, crashes>>

Recovery == RecoverySnapshot \/ RecoveryAsks \/ RecoverySkips \/ RecoverySettles

Workflow ==
    \/ PickNext \/ CreateMachine \/ Verify \/ VerifyFails
    \/ Begin \/ Rebase \/ ReachTesting \/ WaitForPipeline \/ Merge \/ Complete

ErrorHandling == HandleError \/ Reset \/ CountAttempt \/ DiscardRow \/ RemoveLabel

Processor == Start \/ Recovery \/ Workflow \/ ErrorHandling
-----------------------------------------------------------------------------
(* Webhook handlers *)

HookAt(h, pc)    == hooks[h].pc = pc
HookTo(h, task)  == hooks' = [hooks EXCEPT ![h] = task]
others == <<nextId, told, mr, happened, acts, crashes>>

(* _handle_unlabeled, _handle_close and _handle_merge look the row up.       *)
HandleEvent(h) ==
    /\ HookAt(h, "idle")
    /\ Active
    /\ \E e \in happened :
          HookTo(h, [pc |-> "end", id |-> row.id,
                     next |-> IF e = "merged" THEN "merged" ELSE "removed"])
    /\ UNCHANGED <<row, proc, others>>

(* ... and ask for the completion of the lifecycle they saw. *)
HandlerCompletes(h) ==
    /\ HookAt(h, "end")
    /\ FreezeRow(hooks[h].id, hooks[h].next)
    /\ HookTo(h, IdleHook)
    /\ UNCHANGED <<proc, others>>

(* A pipeline ended: the row is read, more than once, and is in testing.     *)
(* Whether it is the row's pipeline is left open.                            *)
AcceptPipeline(h) ==
    /\ HookAt(h, "idle")
    /\ Active /\ row.state = "testing"
    /\ \E state \in {"testing", "merging"} :
          HookTo(h, [pc |-> "write", id |-> row.id, next |-> state])
    /\ UNCHANGED <<row, proc, others>>

(* _handle_success enters merging; _handle_failed and _handle_canceled write *)
(* "testing" again, with the pipeline's status or its replacement.           *)
RecordPipeline(h) ==
    /\ HookAt(h, "write")
    /\ WriteState(hooks[h].next)
    /\ HookTo(h, IdleHook)
    /\ UNCHANGED <<proc, others>>

Handler(h) == HandleEvent(h) \/ HandlerCompletes(h) \/ AcceptPipeline(h) \/ RecordPipeline(h)
-----------------------------------------------------------------------------
(* The queue's other actors (QueueCompletion has their detail) *)

(* add_to_queue, by a webhook or by the scheduler *)
AddToQueue ==
    /\ nextId =< MaxId
    /\ Eligible
    /\ row = None \/ (Undecided /\ row.state = "removed")
    /\ row' = FreshRow(nextId)
    /\ nextId' = nextId + 1
    /\ UNCHANGED <<told, mr, happened, proc, hooks, acts, crashes>>

(* remove_from_queue, by the scheduler *)
RemoveOrphan ==
    /\ Active /\ ~Eligible
    /\ WriteState("removed")
    /\ UNCHANGED <<proc, hooks, others>>

(* The outcome's comment is posted and the label cleaned up. *)
Tell ==
    /\ Pending
    /\ told' = told \cup {row.id}
    /\ mr' = [mr EXCEPT !.label = @ /\ row.pending = "removed"]
    /\ UNCHANGED <<row, nextId, happened, proc, hooks, acts, crashes>>

(* finalize_completion, renewing the row when users asked for that. *)
Archive ==
    /\ Pending /\ row.id \in told
    /\ \/ row' = None /\ UNCHANGED <<nextId, mr>>
       \/ /\ nextId =< MaxId /\ mr.state = "opened"
          /\ row' = FreshRow(nextId) /\ nextId' = nextId + 1
          /\ mr' = [mr EXCEPT !.label = TRUE]
    /\ UNCHANGED <<told, happened, proc, hooks, acts, crashes>>

UserActs ==
    /\ acts < MaxActs
    /\ acts' = acts + 1
    /\ \/ mr' = [mr EXCEPT !.label = ~@]
       \/ mr.state = "opened" /\ mr' \in {[mr EXCEPT !.state = s] : s \in {"closed", "merged"}}
       \/ mr.state = "closed" /\ mr' = [mr EXCEPT !.state = "opened"]
    /\ happened' = happened
         \cup (IF mr.label /\ ~mr'.label THEN {"unlabeled"} ELSE {})
         \cup (IF mr'.state # "opened" THEN {mr'.state} ELSE {})
    /\ UNCHANGED <<row, nextId, told, proc, hooks, crashes>>

Crash ==
    /\ crashes < MaxCrashes
    /\ crashes' = crashes + 1
    /\ proc' = At("down")
    /\ hooks' = [h \in Hooks |-> IdleHook]
    /\ UNCHANGED <<row, nextId, told, mr, happened, acts>>

Next ==
    \/ Processor
    \/ \E h \in Hooks : Handler(h)
    \/ AddToQueue \/ RemoveOrphan \/ Tell \/ Archive
    \/ UserActs \/ Crash

Spec == Init /\ [][Next]_vars

(* The processor's task goes on as long as it lives; it is not assumed that  *)
(* GitLab ever answers.                                                      *)
FairSpec == Spec /\ WF_vars(Processor)
-----------------------------------------------------------------------------
(* Properties *)

Lifecycle == INSTANCE MergeRequestLifecycle WITH
    Results <- Outcomes,
    phase   <- IF row = None THEN "out" ELSE IF Pending THEN "ending"
               ELSE IF Active THEN "queued" ELSE "removed",
    current <- IF row = None THEN 0 ELSE row.id,
    started <- nextId - 1,
    outcome <- IF Pending THEN row.pending ELSE None,
    told    <- told

(***************************************************************************)
(* Whatever the processor, its error handling, recovery and the webhooks   *)
(* do to the row at the wrong moment, the merge request keeps going        *)
(* through its lifecycles as promised: one outcome, never overwritten by a *)
(* late status write, told before the lifecycle makes room.                *)
(***************************************************************************)
ImplementsLifecycle == Lifecycle!Spec

(***************************************************************************)
(* _process_merge and _handle_merge: the outcome "merged" is only recorded *)
(* when GitLab merged the merge request (the converse fails: an answer may *)
(* be lost).                                                               *)
(***************************************************************************)
MergedIsTrue == (Pending /\ row.pending = "merged") => mr.state = "merged"

Ended == Undecided /\ (row' = None \/ row'.id # row.id \/ row'.pending # None)

(***************************************************************************)
(* queue_id of the state machine: the processor ends the lifecycle its     *)
(* machine was made for and no successor, whatever it has written to that  *)
(* successor's row meanwhile.  Two ways around it are in the code: a       *)
(* machine made without a row, and complete_mr without expected_queue_id.  *)
(***************************************************************************)
EndsItsOwnLifecycle ==
    [][Processor /\ Ended => proc.id \in {0, row.id} \/ ProcAt("discard")]_vars

(* Somebody is there to move a row in rebasing, testing or merging on: the   *)
(* processor with a machine for this lifecycle, or the recovery to come.     *)
Attended ==
    \/ proc.pc \in {"down", "recover"}
    \/ /\ proc.id = row.id
       /\ \/ proc.pc \in {"ask", "settle", "complete", "count"}
          \/ proc.pc \in {"rebase", "reach", "wait", "merge", "error", "reset"}
                /\ proc.sm \in Working

Abandoned == InProgress /\ ~Attended

(***************************************************************************)
(* get_next_mr only picks queued rows, so a row in rebasing, testing or    *)
(* merging that nobody works on stays there until a restart.  Errors at    *)
(* any point, completions of others and crashes leave no such row.  What   *)
(* can: a recovery GitLab did not answer, or that saw the row while it was *)
(* still queued; a webhook that writes the pipeline's state after the row  *)
(* was reset; and a task of an ended lifecycle that writes, and then       *)
(* leaves, its successor's row.                                            *)
(***************************************************************************)
NoRowIsAbandoned ==
    [][Abandoned' => \/ Abandoned
                     \/ RecoverySkips
                     \/ \E h \in Hooks : RecordPipeline(h)
                     \/ Processor /\ proc.id # row.id]_vars

(***************************************************************************)
(* max_processing_attempts: a lifecycle that stays in the queue for ever   *)
(* reaches the pipeline again and again, where the processing timeout      *)
(* guards it; errors before that point end it.  The exceptions: GitLab     *)
(* fails the verification every time (a machine still queued is not        *)
(* counted), the row was abandoned, or run() died during the recovery.     *)
(***************************************************************************)
EveryLifecycleAdvances ==
    \A id \in 1 .. MaxId :
        <>[](Active /\ row.id = id) =>
            \/ []<>ProcAt("wait")
            \/ []<><<VerifyFails>>_vars
            \/ <>[]Abandoned
            \/ <>[]ProcAt("dead")
=============================================================================
