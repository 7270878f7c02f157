---------------------------- MODULE PipelineWait ----------------------------
(***************************************************************************)
(* From the rebase to the merge: which pipeline the bot binds the row to,  *)
(* how it follows that pipeline to a verdict, and which commit it merges.  *)
(*                                                                         *)
(* The processor works with what it read before: the commit and pipeline   *)
(* of before the rebase, the pipeline it fetched, the retries it counted.  *)
(* Between any two of its calls users push, the target branch moves on,    *)
(* pipelines start and end, and pipeline webhooks write the same row.      *)
(*                                                                         *)
(* A commit is a number; a rebase makes a new one.  A pipeline has one job *)
(* that may fail.  Processing models what surrounds this: the row's other  *)
(* states, label checks, errors and their recovery.                        *)
(***************************************************************************)
EXTENDS Sequences, FiniteSetsExt

CONSTANTS
    Hooks,          \* pipeline webhooks being handled at the same time
    MaxJobRetries,  \* job_retry_count
    MaxRebases,     \* max_rebase_during_testing
    CanceledGrace,  \* polls for which a canceled pipeline is waited for
    MaxCommit,      \* bound: commits of the source branch
    MaxPipelines,   \* bound: pipelines
    MaxActs         \* bound: one for a pipeline somebody asks for; two for a push or
                    \* a retry by a user, a move of the target branch, a crash

ASSUME WaitConstants ==
    /\ MaxJobRetries \in Nat /\ MaxRebases \in Nat /\ CanceledGrace \in Nat
    /\ MaxCommit \in Nat \ {0} /\ MaxPipelines \in Nat /\ MaxActs \in Nat

VARIABLES
    gitlab,     \* the merge request: head commit, behind its target, merged commit
    pipelines,  \* pipelines of the merge request, oldest first
    row,        \* state, pipeline_id, expected_sha and retried_jobs of the row
    proc,       \* the processor and what it remembers
    elapsed,    \* pipeline_timeout_seconds passed since start_time
    hooks,      \* pipeline webhook handlers
    acts,       \* acts bounded by MaxActs so far
    crashes,    \* crashes among them
    setbacks    \* times a webhook bound the row to its own pipeline again, or to an older one

vars == <<gitlab, pipelines, row, proc, elapsed, hooks, acts, crashes, setbacks>>
counts == <<acts, crashes, setbacks>>
world == <<gitlab, pipelines, counts>>
-----------------------------------------------------------------------------
(* Data *)

Commits == 1 .. MaxCommit

(* "running" is every status before the end; "skipped", "manual" and their   *)
(* like end a wait as "failed" without a job to retry does.                  *)
Statuses == {"running", "success", "failed", "canceled"}
Pipes == [sha : Commits, status : Statuses, retries : Nat]

(* A pipeline as the API returned it; id 0 when there was none. *)
Seen   == [id : Nat, sha : Nat, status : Statuses]
Nobody == [id |-> 0, sha |-> 0, status |-> "running"]

Rebasing == {"capture", "current", "reuse", "rebase", "moved", "match"}
Testing  == {"check", "ready", "again", "movedAgain", "matchAgain", "forget",
             "stale", "switch", "tracked", "status", "jobs", "post", "save"}

(* mr: the commit get_mr showed last; old: the one before the rebase.        *)
Processors == [pc : Rebasing \cup Testing \cup {"merge", "put", "done"},
               mr : Nat, old : Nat, behind : BOOLEAN, seen : Seen, retried : Nat,
               cancels : Nat, rebases : Nat, lastChance : BOOLEAN]

HookTasks == [pc : {"idle", "switch", "write"}, pid : Nat]

TypeOK ==
    /\ gitlab \in [head : Commits, behind : BOOLEAN, merged : Nat]
    /\ pipelines \in Seq(Pipes)
    /\ row \in [state : {"rebasing", "testing", "merging", "merged", "failed"},
                pid : Nat, sha : Nat, retried : Nat]
    /\ proc \in Processors
    /\ elapsed \in BOOLEAN
    /\ hooks \in [Hooks -> HookTasks]
    /\ acts \in Nat /\ crashes \in Nat /\ setbacks \in Nat

At(pc) == [pc |-> pc, mr |-> 0, old |-> 0, behind |-> FALSE, seen |-> Nobody, retried |-> 0,
           cancels |-> 0, rebases |-> 0, lastChance |-> FALSE]
IdleHook == [pc |-> "idle", pid |-> 0]

Init ==
    /\ gitlab \in [head : {1}, behind : BOOLEAN, merged : {0}]
    /\ pipelines = <<>>
    /\ row = [state |-> "rebasing", pid |-> 0, sha |-> 0, retried |-> 0]
    /\ proc = At("capture")
    /\ elapsed = FALSE
    /\ hooks = [h \in Hooks |-> IdleHook]
    /\ acts = 0 /\ crashes = 0 /\ setbacks = 0

Ids       == 1 .. Len(pipelines)
Tested(c) == \E i \in Ids : pipelines[i].sha = c /\ pipelines[i].status = "success"

(* get_latest_mr_pipeline *)
Latest == IF pipelines = <<>> THEN Nobody
          ELSE [id |-> Len(pipelines), sha |-> pipelines[Len(pipelines)].sha,
                status |-> pipelines[Len(pipelines)].status]

ProcAt(pc) == proc.pc = pc
ProcTo(pc) == proc' = [proc EXCEPT !.pc = pc]

Decided == row.state \in {"merged", "failed"}

(* Seeded fault: a failure is a state of its own kind. *)
FailAsRejected == row' = [row EXCEPT !.state = "rejected"] /\ proc' = At("done")

(* A final transition: the lifecycle ends. *)
Fail == row' = [row EXCEPT !.state = "failed"] /\ proc' = At("done")
-----------------------------------------------------------------------------
(* GitLab and its users *)

Act(cost) == acts + cost =< MaxActs /\ acts' = acts + cost

UserPushes ==
    /\ Act(2)
    /\ gitlab.head < MaxCommit
    /\ gitlab' = [gitlab EXCEPT !.head = @ + 1]
    /\ UNCHANGED <<pipelines, row, proc, elapsed, hooks, crashes, setbacks>>

TargetMoves ==
    /\ Act(2)
    /\ gitlab' = [gitlab EXCEPT !.behind = TRUE]
    /\ UNCHANGED <<pipelines, row, proc, elapsed, hooks, crashes, setbacks>>

NewPipeline == [sha |-> gitlab.head, status |-> "running", retries |-> 0]

(* For a push, or because somebody asked for another one. *)
PipelineStarts ==
    /\ Len(pipelines) < MaxPipelines
    /\ \/ Latest.sha # gitlab.head /\ UNCHANGED acts
       \/ Latest.sha = gitlab.head /\ Act(1)
    /\ pipelines' = Append(pipelines, NewPipeline)
    /\ UNCHANGED <<gitlab, row, proc, elapsed, hooks, crashes, setbacks>>

PipelineEnds ==
    /\ \E i \in Ids, status \in Statuses \ {"running"} :
          /\ pipelines[i].status = "running"
          /\ pipelines' = [pipelines EXCEPT ![i].status = status]
    /\ UNCHANGED <<gitlab, row, proc, elapsed, hooks, counts>>

UserRetries ==
    /\ Act(2)
    /\ \E i \in Ids :
          /\ pipelines[i].status \in {"failed", "canceled"}
          /\ pipelines' = [pipelines EXCEPT ![i].status = "running"]
    /\ UNCHANGED <<gitlab, row, proc, elapsed, hooks, crashes, setbacks>>

(* The clock is looked at when a round starts. *)
TimePasses ==
    /\ proc.pc = "check" /\ ~elapsed
    /\ elapsed' = TRUE
    /\ UNCHANGED <<world, row, proc, hooks>>

GitLabAndUsers ==
    /\ ~Decided
    /\ \/ UserPushes \/ TargetMoves
       \/ PipelineStarts \/ PipelineEnds \/ UserRetries
       \/ TimePasses
-----------------------------------------------------------------------------
(* The rebase *)

(* capture_pre_rebase_state: the merge request ... *)
CaptureMergeRequest ==
    /\ ProcAt("capture")
    /\ proc' = [proc EXCEPT !.pc = "current", !.mr = gitlab.head, !.old = gitlab.head,
                          !.behind = gitlab.behind]
    /\ UNCHANGED <<world, row, elapsed, hooks>>

(* ... and its latest pipeline; then _is_up_to_date decides. *)
CapturePipeline ==
    /\ ProcAt("current")
    /\ proc' = IF proc.behind THEN [At("rebase") EXCEPT !.old = proc.old]
               ELSE [At("reuse") EXCEPT !.mr = proc.mr, !.seen = Latest]
    /\ UNCHANGED <<world, row, elapsed, hooks>>

(* trigger_rebase_complete; a wait begins with the row's retry counts.       *)
EnterTesting(pid, sha) ==
    /\ row' = [row EXCEPT !.state = "testing", !.pid = pid, !.sha = sha]
    /\ proc' = [At("check") EXCEPT !.retried = row.retried]
    /\ elapsed' = FALSE

(* REUSABLE_PIPELINE_STATUSES, on the commit read. *)
Reusable(seen, sha) == seen.id # 0 /\ seen.sha = sha /\ seen.status \in {"running", "success"}

(* _resolve_current_pipeline: reuse, or create one for the branch as it is   *)
(* by now; on another commit than the one read, everything is read again.    *)
StartWithoutRebase ==
    /\ ProcAt("reuse")
    /\ \/ /\ Reusable(proc.seen, proc.mr)
          /\ EnterTesting(proc.seen.id, proc.mr)
          /\ UNCHANGED pipelines
       \/ /\ ~Reusable(proc.seen, proc.mr)
          /\ Len(pipelines) < MaxPipelines
          /\ pipelines' = Append(pipelines, NewPipeline)
          /\ IF gitlab.head = proc.mr
             THEN EnterTesting(Len(pipelines) + 1, proc.mr)
             ELSE ProcTo("capture") /\ UNCHANGED <<row, elapsed>>
       \/ Fail /\ UNCHANGED <<pipelines, elapsed>>
    /\ UNCHANGED <<gitlab, hooks, counts>>

(* GitLab's rebase makes a new commit on top of the target. *)
RebaseInGitLab ==
    /\ gitlab.head < MaxCommit
    /\ gitlab' = [gitlab EXCEPT !.head = @ + 1, !.behind = FALSE]

(* rebase_mr and wait_for_rebase: done, or a conflict or timeout. *)
Rebase ==
    /\ ProcAt("rebase")
    /\ \/ RebaseInGitLab /\ ProcTo("moved") /\ UNCHANGED row
       \/ Fail /\ UNCHANGED gitlab
    /\ UNCHANGED <<pipelines, elapsed, hooks, counts>>

(* wait_for_post_rebase_pipeline reads the merge request ... *)
ReadMovedHead ==
    /\ ProcAt("moved")
    /\ IF gitlab.head # proc.old
       THEN proc' = [proc EXCEPT !.pc = "match", !.mr = gitlab.head]
       ELSE UNCHANGED proc
    /\ UNCHANGED <<world, row, elapsed, hooks>>

(* ... and takes its latest pipeline when that is of this commit.  (That it  *)
(* is not the one of before the rebase is only asked until the timeout.)     *)
MatchPipeline ==
    /\ ProcAt("match")
    /\ \/ Latest.id # 0 /\ Latest.sha = proc.mr /\ EnterTesting(Latest.id, proc.mr)
       \/ ProcTo("moved") /\ UNCHANGED <<row, elapsed>>
       \/ Fail /\ UNCHANGED elapsed
    /\ UNCHANGED <<world, hooks>>

RebasePhase == CaptureMergeRequest \/ CapturePipeline \/ StartWithoutRebase \/ Rebase
               \/ ReadMovedHead \/ MatchPipeline
-----------------------------------------------------------------------------
(* The wait: one round of _process_pipeline_iteration starts at "check" *)

NextRound == proc' = [proc EXCEPT !.pc = "check", !.seen = Nobody, !.mr = 0]

(* get_latest_mr_pipeline *)
Fetch == IF Latest.id = 0 THEN UNCHANGED proc
         ELSE proc' = [proc EXCEPT !.pc = "ready", !.seen = Latest]

EndedBadly == Latest.status \in {"failed", "canceled"}

(* Seeded fault: the last chance is given again and again. *)
LastChanceForever ==
    /\ ProcAt("check")
    /\ IF ~elapsed \/ EndedBadly THEN Fetch /\ UNCHANGED row ELSE Fail
    /\ UNCHANGED <<world, elapsed, hooks>>

(* check_pipeline_termination_conditions, then the round's pipeline: at the  *)
(* timeout a pipeline that has ended badly gets one last chance.             *)
StartRound ==
    /\ ProcAt("check")
    /\ IF ~elapsed THEN Fetch /\ UNCHANGED row
       ELSE IF ~proc.lastChance /\ EndedBadly
       THEN proc' = [proc EXCEPT !.pc = "ready", !.seen = Latest, !.lastChance = TRUE]
            /\ UNCHANGED row
       ELSE Fail
    /\ UNCHANGED <<world, elapsed, hooks>>

(* maybe_rebase_during_testing, when its interval elapsed: cancel, best      *)
(* effort, the pipeline fetched; the limit, conflicts and API errors fail.   *)
CheckRebase ==
    /\ ProcAt("ready")
    /\ \/ /\ gitlab.behind /\ proc.rebases < MaxRebases
          /\ pipelines' \in {pipelines,
                             [pipelines EXCEPT ![proc.seen.id].status =
                                IF @ = "running" THEN "canceled" ELSE @]}
          /\ ProcTo("again") /\ UNCHANGED row
       \/ Fail /\ UNCHANGED pipelines
    /\ UNCHANGED <<gitlab, elapsed, hooks, counts>>

RebaseAgain ==
    /\ ProcAt("again")
    /\ \/ RebaseInGitLab /\ ProcTo("movedAgain") /\ UNCHANGED row
       \/ Fail /\ UNCHANGED gitlab
    /\ UNCHANGED <<pipelines, elapsed, hooks, counts>>

ReadHeadAgain ==
    /\ ProcAt("movedAgain")
    /\ proc' = [proc EXCEPT !.pc = "matchAgain", !.mr = gitlab.head]
    /\ UNCHANGED <<world, row, elapsed, hooks>>

(* _wait_for_new_pipeline, and notify_rebase_during_testing when it found one. *)
MatchPipelineAgain ==
    /\ ProcAt("matchAgain")
    /\ \/ /\ Latest.id # proc.seen.id /\ Latest.sha = proc.mr
          /\ Latest.status \notin {"canceled", "failed"}
          /\ row' = [row EXCEPT !.state = "testing", !.pid = Latest.id, !.sha = Latest.sha]
          /\ proc' = [proc EXCEPT !.pc = "forget", !.rebases = @ + 1]
       \/ ProcTo("movedAgain") /\ UNCHANGED row
       \/ Fail
    /\ UNCHANGED <<world, elapsed, hooks>>

(* Timed out without a pipeline: the round goes on with what it fetched. *)
GiveUpNewPipeline ==
    /\ ProcAt("matchAgain")
    /\ proc' = [proc EXCEPT !.pc = "stale", !.rebases = @ + 1]
    /\ UNCHANGED <<world, row, elapsed, hooks>>

(* _apply_rebase_outcome: also goes on with the pipeline fetched before. *)
ForgetRetries ==
    /\ ProcAt("forget")
    /\ row' = [row EXCEPT !.state = "testing", !.retried = 0]
    /\ proc' = [proc EXCEPT !.pc = "stale", !.retried = 0]
    /\ elapsed' = FALSE
    /\ UNCHANGED <<world, hooks>>

(* Seeded fault: commits are not told apart. *)
AnyCommit(seen) == TRUE

OfRowsCommit(seen) == seen.sha = row.sha

(* check_stale_pipeline against the row as it is now, then the grace polls   *)
(* for a canceled pipeline.                                                  *)
CheckStale ==
    /\ proc.pc \in {"ready", "stale"}
    /\ CASE row.pid # proc.seen.id /\ proc.seen.id > row.pid ->
              ProcTo(IF OfRowsCommit(proc.seen) THEN "switch" ELSE "tracked")
         [] row.pid # proc.seen.id /\ proc.seen.id < row.pid -> NextRound
         [] row.pid = proc.seen.id /\ ~OfRowsCommit(proc.seen) -> NextRound
         [] OTHER ->
              IF proc.seen.status # "canceled"
              THEN proc' = [proc EXCEPT !.pc = "status", !.cancels = 0]
              ELSE IF proc.cancels < CanceledGrace
              THEN proc' = [proc EXCEPT !.pc = "check", !.seen = Nobody, !.cancels = @ + 1]
              ELSE proc' = [proc EXCEPT !.pc = "status", !.cancels = @ + 1]
    /\ UNCHANGED <<world, row, elapsed, hooks>>

(* _reset_pipeline_wait_state, for the pipeline fetched *)
FollowSeen(sha) ==
    /\ row' = [row EXCEPT !.state = "testing", !.pid = proc.seen.id, !.sha = sha, !.retried = 0]
    /\ proc' = [proc EXCEPT !.pc = "check", !.seen = Nobody, !.mr = 0,
                            !.retried = 0, !.cancels = 0]
    /\ elapsed' = FALSE

SwitchToSeen ==
    /\ ProcAt("switch")
    /\ FollowSeen(row.sha)
    /\ UNCHANGED <<world, hooks>>

(* _try_recover_from_stale_skip: a newer pipeline, of another commit, and    *)
(* the row's own is dead.                                                    *)
RecoverFromStale ==
    /\ ProcAt("tracked")
    /\ IF /\ proc.seen.id > row.pid
          /\ pipelines[row.pid].status \in {"canceled", "failed"}
       THEN FollowSeen(proc.seen.sha)
       ELSE NextRound /\ UNCHANGED <<row, elapsed>>
    /\ UNCHANGED <<world, hooks>>

Replacements == {i \in Ids : /\ i > proc.seen.id /\ pipelines[i].sha = row.sha
                             /\ pipelines[i].status \notin {"canceled", "failed"}}

(* handle_pipeline_status; a replacement keeps the local retry counts. *)
HandleStatus ==
    LET status == proc.seen.status
    IN  /\ ProcAt("status")
        /\ \/ /\ status = "running" \/ (status = "success" /\ ~OfRowsCommit(proc.seen))
              /\ NextRound /\ UNCHANGED row
           \/ /\ status = "success" /\ OfRowsCommit(proc.seen)
              /\ row' = [row EXCEPT !.state = "merging"]
              /\ proc' = At("merge")
           \/ /\ status = "canceled" /\ Replacements # {}
              /\ row' = [row EXCEPT !.state = "testing", !.pid = Max(Replacements), !.retried = 0]
              /\ NextRound
           \/ status = "canceled" /\ Replacements = {} /\ Fail
           \/ /\ status = "failed"
              /\ proc' = [proc EXCEPT !.pc = "jobs", !.retried = Max({@, row.retried})]
              /\ UNCHANGED row
        /\ UNCHANGED <<world, elapsed, hooks>>

(* Seeded fault: one retry too many. *)
CanRetryOnceMore(count) == count =< MaxJobRetries

(* classify_failed_jobs *)
CanRetry(count) == count < MaxJobRetries

(* handle_pipeline_failure_retry asks for the jobs as they are now: active   *)
(* ones mean that somebody retried them already.                             *)
FetchJobs ==
    /\ ProcAt("jobs")
    /\ \/ /\ pipelines[proc.seen.id].status = "running"
          /\ NextRound /\ UNCHANGED row
       \/ /\ pipelines[proc.seen.id].status = "failed" /\ CanRetry(proc.retried)
          /\ ProcTo("post") /\ UNCHANGED row
       \/ pipelines[proc.seen.id].status # "running" /\ Fail
    /\ UNCHANGED <<world, elapsed, hooks>>

(* retry_pipeline_job; refused (403) when the job was retried meanwhile. *)
PostRetry ==
    LET i == proc.seen.id
    IN  /\ ProcAt("post")
        /\ \/ /\ pipelines[i].status = "failed"
              /\ pipelines' = [pipelines EXCEPT ![i].status = "running", ![i].retries = @ + 1]
              /\ \/ proc' = [proc EXCEPT !.pc = "save", !.retried = @ + 1] /\ UNCHANGED row
                 \/ Fail
              /\ UNCHANGED elapsed
           \/ /\ pipelines[i].status = "running"
              /\ NextRound /\ elapsed' = FALSE /\ UNCHANGED <<pipelines, row>>
           \/ Fail /\ UNCHANGED <<pipelines, elapsed>>
        /\ UNCHANGED <<gitlab, hooks, counts>>

(* dispatch_job_retries, after the fact *)
SaveRetries ==
    /\ ProcAt("save")
    /\ row' = [row EXCEPT !.state = "testing", !.retried = proc.retried]
    /\ NextRound /\ elapsed' = FALSE
    /\ UNCHANGED <<world, hooks>>

WaitPhase ==
    \/ StartRound
    \/ CheckRebase \/ RebaseAgain \/ ReadHeadAgain \/ MatchPipelineAgain \/ GiveUpNewPipeline
    \/ ForgetRetries
    \/ CheckStale \/ SwitchToSeen \/ RecoverFromStale
    \/ HandleStatus \/ FetchJobs \/ PostRetry \/ SaveRetries
-----------------------------------------------------------------------------
(* merge_mr *)

(* Seeded fault: the commit is not compared with the row's. *)
MergeAnyCommit ==
    /\ ProcAt("merge")
    /\ \/ ~gitlab.behind /\ proc' = [proc EXCEPT !.pc = "put", !.mr = gitlab.head] /\ UNCHANGED row
       \/ Fail
    /\ UNCHANGED <<world, elapsed, hooks>>

(* It asks for the merge request and compares commit and merge_status ... *)
CheckMergeable ==
    /\ ProcAt("merge")
    /\ \/ /\ gitlab.head = row.sha /\ ~gitlab.behind
          /\ proc' = [proc EXCEPT !.pc = "put", !.mr = gitlab.head]
          /\ UNCHANGED row
       \/ Fail
    /\ UNCHANGED <<world, elapsed, hooks>>

(* ... and puts the merge, which names no commit.  405 and 422 try again.    *)
PutMerge ==
    /\ ProcAt("put")
    /\ \/ /\ ~gitlab.behind
          /\ gitlab' = [gitlab EXCEPT !.merged = gitlab.head]
          /\ row' \in {[row EXCEPT !.state = s] : s \in {"merged", "failed"}}
          /\ proc' = At("done")
       \/ ProcTo("merge") /\ UNCHANGED <<gitlab, row>>
       \/ Fail /\ UNCHANGED gitlab
    /\ UNCHANGED <<pipelines, elapsed, hooks, counts>>

Processor == RebasePhase \/ WaitPhase \/ CheckMergeable \/ PutMerge
-----------------------------------------------------------------------------
(* Pipeline webhooks *)

HookAt(h, pc)   == hooks[h].pc = pc
HookTo(h, task) == hooks' = [hooks EXCEPT ![h] = task]

(* _validate_pipeline_event: of the row's pipeline, or of a newer one of the *)
(* row's commit.  The handlers read the row once more before they act; here  *)
(* a handler that finds it changed never takes its last step.                *)
ReceivePipeline(h) ==
    /\ HookAt(h, "idle")
    /\ row.state = "testing"
    /\ \E i \in Ids :
          /\ pipelines[i].status \in {"success", "failed", "canceled"}
          /\ i >= row.pid /\ pipelines[i].sha = row.sha
          /\ HookTo(h, [pc |-> IF i = row.pid THEN "write" ELSE "switch", pid |-> i])
    /\ UNCHANGED <<world, row, proc, elapsed>>

(* The row may have got further since the handler read it. *)
BindRow(pid) ==
    /\ row' = [row EXCEPT !.state = "testing", !.pid = pid, !.retried = 0]
    /\ setbacks' = IF pid =< row.pid THEN setbacks + 1 ELSE setbacks

HookSwitches(h) ==
    /\ HookAt(h, "switch")
    /\ IF Decided THEN UNCHANGED <<row, setbacks>> ELSE BindRow(hooks[h].pid)
    /\ HookTo(h, IF Decided THEN IdleHook ELSE [hooks[h] EXCEPT !.pc = "write"])
    /\ UNCHANGED <<gitlab, pipelines, acts, crashes, proc, elapsed>>

NewerOf(i) == {j \in Ids : j > i /\ pipelines[j].sha = row.sha}

(* _handle_success, _handle_failed and _handle_canceled *)
HookWrites(h) ==
    LET i == hooks[h].pid
    IN  /\ HookAt(h, "write")
        /\ IF ~Decided /\ pipelines[i].status = "canceled" /\ NewerOf(i) # {}
           THEN BindRow(Max(NewerOf(i)))
           ELSE /\ row' = IF Decided THEN row
                          ELSE [row EXCEPT !.state = IF pipelines[i].status = "success"
                                                     THEN "merging" ELSE "testing"]
                /\ UNCHANGED setbacks
        /\ HookTo(h, IdleHook)
        /\ UNCHANGED <<gitlab, pipelines, acts, crashes, proc, elapsed>>

Handler(h) == ReceivePipeline(h) \/ HookSwitches(h) \/ HookWrites(h)
-----------------------------------------------------------------------------
(* The recovery puts the row back; processing starts over. *)
Crash ==
    /\ Act(2)
    /\ ~Decided
    /\ crashes' = crashes + 1
    /\ row' = [row EXCEPT !.state = "rebasing"]
    /\ proc' = At("capture")
    /\ elapsed' = FALSE
    /\ hooks' = [h \in Hooks |-> IdleHook]
    /\ UNCHANGED <<gitlab, pipelines, setbacks>>

Next == GitLabAndUsers \/ Processor \/ (\E h \in Hooks : Handler(h)) \/ Crash

Spec == Init /\ [][Next]_vars

(* The processor's task keeps running, round after round its clock runs on,  *)
(* and polling for a new pipeline times out.  Nothing is assumed of GitLab   *)
(* and its pipelines.                                                        *)
FairSpec == Spec /\ WF_vars(Processor) /\ SF_vars(TimePasses) /\ SF_vars(GiveUpNewPipeline)
-----------------------------------------------------------------------------
(* Properties *)

(***************************************************************************)
(* README: a merge request is merged after its pipeline passed.  From the  *)
(* moment the processor goes for the merge, the commit it expects is one a *)
(* pipeline succeeded on, whatever pushes, rebases, replaced pipelines and *)
(* webhooks did to the row before and do to it now.                        *)
(***************************************************************************)
MergingIsTested == proc.pc \in {"merge", "put"} => Tested(row.sha)

(***************************************************************************)
(* merge_mr: the commit that is merged is tested, unless it was pushed     *)
(* between merge_mr's own get_mr and its PUT, which names no commit.       *)
(***************************************************************************)
MergedIsTested ==
    [][gitlab'.merged # gitlab.merged => Tested(gitlab'.merged) \/ gitlab'.merged # proc.mr]_vars

(***************************************************************************)
(* job_retry_count: a pipeline's job is retried at most that often.  One   *)
(* more is possible for every crash between a retry and its record; and    *)
(* the count starts again for every webhook that read the row before it    *)
(* followed this pipeline or a newer one, and binds it to this one.        *)
(***************************************************************************)
JobRetriesBounded ==
    \A i \in Ids : pipelines[i].retries =< MaxJobRetries * (1 + setbacks) + crashes

(***************************************************************************)
(* handle_pipeline_status: a verdict is never taken from a pipeline of     *)
(* another commit than the one the row expects.                            *)
(***************************************************************************)
VerdictOfTheRightCommit ==
    [][ProcAt("status") /\ row'.state \in {"merging", "failed"} => proc.seen.sha = row.sha]_vars

(***************************************************************************)
(* pipeline_timeout_seconds: the wait ends, although retries, switches,    *)
(* rebases and webhooks start its clock again.                             *)
(***************************************************************************)
WaitEnds == proc.pc \in Testing ~> proc.pc \notin Testing
=============================================================================
