-------------------------- MODULE JobRetriesProofs --------------------------
(***************************************************************************)
(* How often the jobs of a pipeline are retried, for any number of         *)
(* handlers, commits, pipelines, retries, rebases and crashes.             *)
(*                                                                         *)
(* Retries are only counted for the pipeline the row is bound to, and are  *)
(* forgotten when it is bound to another.  The processor and the handlers  *)
(* bind the row to newer pipelines, which nobody has retried since they    *)
(* were last left (NewerAreFresh); only a handler that acts on an old row  *)
(* binds it back, and this is a setback.  Setbacks and crashes give a      *)
(* pipeline its budget; what it was retried beyond the budget, the row     *)
(* remembers (RowRemembers), or the processor that is about to tell it to  *)
(* the row (ProcessorRemembers).                                           *)
(***************************************************************************)
EXTENDS PipelineWaitProofs

Budget     == MaxJobRetries * setbacks + crashes
Retries(i) == pipelines[i].retries

PidsExist ==
    /\ row.pid =< Len(pipelines) /\ proc.seen.id =< Len(pipelines)
    /\ \A h \in Hooks : hooks[h].pid =< Len(pipelines)

(* No handler is between a read and a write while the row is rebased. *)
RebasedAlone ==
    proc.pc \in Rebasing => row.state = "rebasing" /\ \A h \in Hooks : hooks[h].pc = "idle"

CountsInRange ==
    /\ row.retried =< MaxJobRetries
    /\ proc.pc \in Testing => row.retried =< proc.retried /\ proc.retried =< MaxJobRetries
    /\ ProcAt("post") => proc.retried < MaxJobRetries

(* The processor holds the pipeline that was the latest in this round. *)
SeenWasLatest ==
    /\ proc.pc \in Testing \ {"check"} => proc.seen.id # 0
    /\ proc.pc \in Testing /\ proc.seen.id # 0 =>
          \A i \in Ids : i > proc.seen.id => Retries(i) = 0
    /\ ProcAt("reuse") => proc.seen.id = 0 \/ row.pid =< proc.seen.id

NoneBeyond    == \A i \in Ids : Retries(i) =< Budget + MaxJobRetries
NewerAreFresh == \A i \in Ids : i > row.pid => Retries(i) =< Budget

Unsaved == IF ProcAt("save") /\ proc.seen.id = row.pid THEN 1 ELSE 0

RowRemembers == row.pid \in Ids => Retries(row.pid) =< Budget + row.retried + Unsaved

(* Once the row is bound back, the setback has paid for the retries of the   *)
(* pipeline that the processor is still busy with.                           *)
ProcessorRemembers ==
    proc.pc \in {"status", "jobs", "post", "save"} =>
       /\ Retries(proc.seen.id) =< Budget + proc.retried
       /\ row.pid < proc.seen.id => Retries(proc.seen.id) + MaxJobRetries =< Budget + proc.retried

(* Where counts are about to be forgotten, the budget covers the retries. *)
MayForget ==
    /\ ProcAt("switch") => Retries(proc.seen.id) =< Budget
    /\ ProcAt("forget") /\ row.pid \in Ids => Retries(row.pid) =< Budget

Remembered == NewerAreFresh /\ RowRemembers

Local == PidsExist /\ RebasedAlone /\ CountsInRange /\ SeenWasLatest

Busy == Local /\ Remembered /\ ProcessorRemembers /\ MayForget

(* When the lifecycle has been decided, nothing is retried any more. *)
JInv == /\ NoneBeyond
        /\ IF ProcAt("done") THEN Decided ELSE Busy
-----------------------------------------------------------------------------
(* Numbers *)

LEMMA Budgets == \A m, n, k \in Nat : m * n + k \in Nat
OBVIOUS

LEMMA Numbers ==
    ASSUME IInv
    PROVE  /\ MaxJobRetries \in Nat /\ setbacks \in Nat /\ crashes \in Nat /\ Budget \in Nat
           /\ row.pid \in Nat /\ row.retried \in Nat
           /\ proc.retried \in Nat /\ proc.seen.id \in Nat
           /\ Len(pipelines) \in Nat /\ \A i \in Ids : i \in Nat /\ Retries(i) \in Nat
           /\ proc \in Processors /\ row \in Rows
<1>1. TypeOK
  BY DEF IInv
<1>2. /\ Len(pipelines) \in Nat /\ \A i \in Ids : pipelines[i] \in Pipes
  BY <1>1, PipelineTypes
<1>3. /\ MaxJobRetries \in Nat /\ setbacks \in Nat /\ crashes \in Nat
  BY <1>1, WaitConstants DEF TypeOK
<1>4. Budget \in Nat
  BY <1>3, Budgets DEF Budget
<1>5. row \in Rows /\ proc \in Processors
  BY <1>1 DEF TypeOK, Rows
<1>6. \A i \in Ids : i \in Nat /\ Retries(i) \in Nat
  BY <1>2 DEF Ids, Retries, Pipes
<1> QED BY <1>2, <1>3, <1>4, <1>5, <1>6 DEF Rows, Processors, Seen

LEMMA NumbersAfter ==
    ASSUME IInv'
    PROVE  /\ setbacks' \in Nat /\ crashes' \in Nat /\ Budget' \in Nat
           /\ row'.pid \in Nat /\ row'.retried \in Nat
           /\ proc'.retried \in Nat /\ proc'.seen.id \in Nat
           /\ Len(pipelines') \in Nat
           /\ proc' \in Processors /\ row' \in Rows
<1>1. Len(pipelines') \in Nat
  <2>1. pipelines' \in Seq(Pipes)
    BY DEF IInv, TypeOK
  <2> QED BY <2>1
<1>2. /\ MaxJobRetries \in Nat /\ setbacks' \in Nat /\ crashes' \in Nat
  BY WaitConstants DEF IInv, TypeOK
<1>3. Budget' \in Nat
  BY <1>2, Budgets DEF Budget
<1>4. row' \in Rows /\ proc' \in Processors
  BY DEF IInv, TypeOK, Rows
<1> QED BY <1>1, <1>2, <1>3, <1>4 DEF Rows, Processors, Seen

LEMMA BudgetSteps ==
    ASSUME IInv
    PROVE  /\ UNCHANGED <<setbacks, crashes>> => Budget' = Budget
           /\ setbacks' = setbacks + 1 /\ crashes' = crashes => Budget' = Budget + MaxJobRetries
           /\ setbacks' = setbacks /\ crashes' = crashes + 1 => Budget' = Budget + 1
<1>1. MaxJobRetries \in Nat /\ setbacks \in Nat /\ crashes \in Nat
  BY Numbers
<1>2. MaxJobRetries * (setbacks + 1) = MaxJobRetries * setbacks + MaxJobRetries
  BY <1>1
<1> QED BY <1>1, <1>2 DEF Budget
-----------------------------------------------------------------------------
(* Pipelines whose retries stay as they are *)

KeepsRetries ==
    /\ Len(pipelines) =< Len(pipelines')
    /\ \A i \in 1 .. Len(pipelines') : Retries(i)' = IF i \in Ids THEN Retries(i) ELSE 0

Quiet == KeepsRetries /\ hooks' = hooks /\ UNCHANGED <<setbacks, crashes>>

LEMMA SamePipelines ==
    ASSUME IInv, pipelines' = pipelines
    PROVE  KeepsRetries
BY Numbers DEF KeepsRetries, Retries, Ids

LEMMA AddedPipeline ==
    ASSUME IInv, pipelines' = Append(pipelines, NewPipeline)
    PROVE  KeepsRetries /\ Len(pipelines') = Len(pipelines) + 1
<1>1. /\ Len(pipelines') = Len(pipelines) + 1
      /\ \A i \in 1 .. Len(pipelines) : pipelines'[i] = pipelines[i]
      /\ pipelines'[Len(pipelines) + 1] = NewPipeline
  <2>1. pipelines \in Seq(Pipes) /\ NewPipeline \in Pipes
    BY DEF IInv, TypeOK, NewPipeline, Pipes, Statuses
  <2> QED BY <2>1, AppendProperties
<1>2. NewPipeline.retries = 0
  BY DEF NewPipeline
<1> QED BY <1>1, <1>2, Numbers DEF KeepsRetries, Retries, Ids

LEMMA StatusOnly ==
    ASSUME IInv, NEW i \in Ids, NEW s,
           pipelines' = [pipelines EXCEPT ![i].status = s]
    PROVE  KeepsRetries /\ Len(pipelines') = Len(pipelines)
<1>1. /\ pipelines \in Seq(Pipes) /\ DOMAIN pipelines = Ids
      /\ \A j \in Ids : pipelines[j] \in Pipes
  BY PipelineTypes DEF IInv, TypeOK
<1>2. DOMAIN pipelines' = Ids /\ \A j \in Ids : pipelines'[j].retries = pipelines[j].retries
  BY <1>1 DEF Pipes
<1>3. Len(pipelines') = Len(pipelines)
  <2>1. pipelines' = [j \in 1 .. Len(pipelines) |->
                         IF j = i THEN [pipelines[i] EXCEPT !.status = s] ELSE pipelines[j]]
    BY <1>1 DEF Ids
  <2> QED BY <2>1, Numbers
<1> QED BY <1>2, <1>3, Numbers DEF KeepsRetries, Retries, Ids

(* The budget never shrinks, so no pipeline gets beyond it by itself. *)
LEMMA StayWithin ==
    ASSUME IInv, IInv', NoneBeyond, KeepsRetries, Budget =< Budget'
    PROVE  NoneBeyond'
BY Numbers, NumbersAfter DEF NoneBeyond, KeepsRetries, Ids

LEMMA Ended ==
    ASSUME IInv, IInv', JInv, KeepsRetries, UNCHANGED <<setbacks, crashes>>,
           proc'.pc = "done", row'.state \in {"merged", "failed"}
    PROVE  JInv'
<1>1. NoneBeyond'
  BY Numbers, BudgetSteps, StayWithin DEF JInv
<1> QED BY <1>1 DEF JInv, ProcAt, Decided

(* The row is bound to a pipeline that it, or the budget, covers. *)
LEMMA RowBound ==
    ASSUME IInv, IInv', KeepsRetries, Budget =< Budget',
           \A i \in Ids : i > row'.pid => Retries(i) =< Budget',
           row'.pid \in Ids => Retries(row'.pid) =< Budget' + row'.retried + Unsaved'
    PROVE  Remembered'
<1>1. Unsaved' \in Nat
  BY DEF Unsaved
<1>2. NewerAreFresh'
  BY Numbers, NumbersAfter DEF NewerAreFresh, KeepsRetries, Ids
<1>3. RowRemembers'
  BY <1>1, Numbers, NumbersAfter DEF RowRemembers, KeepsRetries, Ids
<1> QED BY <1>2, <1>3 DEF Remembered

LEMMA RowStays ==
    ASSUME IInv, IInv', Remembered, KeepsRetries, UNCHANGED <<setbacks, crashes>>,
           row'.pid = row.pid, row'.retried = row.retried,
           proc.pc # "save" \/ proc' = proc
    PROVE  Remembered'
<1>1. Budget' = Budget /\ Budget \in Nat
  BY Numbers, BudgetSteps
<1>2. Unsaved' \in Nat /\ (Unsaved = 0 \/ Unsaved' = Unsaved)
  BY DEF Unsaved, ProcAt
<1>3. row.pid \in Ids => Retries(row.pid) =< Budget' + row'.retried + Unsaved'
  BY <1>1, <1>2, Numbers DEF Remembered, RowRemembers
<1> QED BY <1>1, <1>3, RowBound DEF Remembered, NewerAreFresh
LEMMA PidsStay ==
    ASSUME IInv, IInv', PidsExist, KeepsRetries, hooks' = hooks,
           row'.pid =< Len(pipelines'), proc'.seen.id =< Len(pipelines')
    PROVE  PidsExist'
<1>1. \A h \in Hooks : hooks[h].pid \in Nat
  BY DEF IInv, TypeOK, HookTasks
<1> QED BY <1>1, Numbers, NumbersAfter DEF PidsExist, KeepsRetries
-----------------------------------------------------------------------------
(* Ways in which a step leaves the row's pipeline and counts alone *)

LEMMA WorldMoves ==
    ASSUME IInv, IInv', JInv, Quiet, row' = row, proc' = proc
    PROVE  JInv'
<1>1. NoneBeyond' /\ Budget' = Budget
  BY Numbers, BudgetSteps, StayWithin DEF JInv, Quiet
<1>2. CASE ProcAt("done")
  BY <1>1, <1>2 DEF JInv, ProcAt, Decided
<1>3. CASE ~ProcAt("done")
  <2>1. Busy
    BY <1>3 DEF JInv
  <2>2. /\ proc.pc \in Testing \ {"check"} => proc.seen.id \in Ids
        /\ row.pid \in Ids' => row.pid \in Ids
    BY <2>1, Numbers DEF Busy, Local, PidsExist, SeenWasLatest, Ids
  <2>3. \A i \in Ids : i \in Ids' /\ Retries(i)' = Retries(i)
    BY Numbers, NumbersAfter DEF Quiet, KeepsRetries, Ids
  <2>4. PidsExist' /\ RebasedAlone' /\ CountsInRange'
    <3>1. row.pid =< Len(pipelines') /\ proc.seen.id =< Len(pipelines')
      BY <2>1, Numbers, NumbersAfter DEF Busy, Local, PidsExist, Quiet, KeepsRetries
    <3>2. PidsExist'
      BY <2>1, <3>1, PidsStay DEF Busy, Local, Quiet
    <3> QED BY <2>1, <3>2 DEF Busy, Local, RebasedAlone, CountsInRange, ProcAt, Quiet
  <2>5. SeenWasLatest'
    BY <2>1, <2>3 DEF Busy, Local, SeenWasLatest, ProcAt, Quiet, KeepsRetries, Ids
  <2>6. Remembered'
    BY <2>1, RowStays DEF Busy, Quiet
  <2>7. ProcessorRemembers'
    BY <1>1, <2>1, <2>2, <2>3 DEF Busy, ProcessorRemembers, Testing
  <2>8. MayForget'
    BY <1>1, <2>1, <2>2, <2>3 DEF Busy, MayForget, ProcAt, Testing
  <2> QED BY <1>1, <1>3, <2>4, <2>5, <2>6, <2>7, <2>8 DEF JInv, Busy, Local, ProcAt
<1> QED BY <1>2, <1>3

(* The processor goes on without a pipeline in hand: it rebases, starts a    *)
(* new round, or goes for the merge.                                         *)
LEMMA Unengaged ==
    ASSUME IInv, IInv', JInv, Quiet, row'.pid = row.pid, row'.retried = row.retried,
           ~ProcAt("done"), ~ProcAt("save"), proc'.seen.id =< Len(pipelines'),
           \/ /\ proc.pc \in Rebasing /\ proc'.pc \in Rebasing /\ row' = row
              /\ proc'.pc = "reuse" => proc'.seen.id = 0 \/ row.pid =< proc'.seen.id
           \/ /\ proc.pc \in Testing /\ proc'.pc = "check"
              /\ proc'.seen.id = 0 /\ proc'.retried = proc.retried
           \/ proc'.pc \in {"merge", "put"}
    PROVE  JInv'
<1>1. NoneBeyond' /\ Busy
  BY Numbers, BudgetSteps, StayWithin DEF JInv, Quiet
<1>2. Remembered'
  BY <1>1, RowStays DEF Busy, Quiet, ProcAt
<1>3. PidsExist' /\ RebasedAlone' /\ CountsInRange'
  <2>1. row'.pid =< Len(pipelines')
    BY <1>1, Numbers, NumbersAfter DEF Busy, Local, PidsExist, Quiet, KeepsRetries
  <2>2. PidsExist'
    BY <1>1, <2>1, PidsStay DEF Busy, Local, Quiet
  <2> QED BY <1>1, <2>2
          DEF Busy, Local, RebasedAlone, CountsInRange, ProcAt, Quiet, Rebasing, Testing
<1>4. SeenWasLatest' /\ ProcessorRemembers' /\ MayForget'
  BY DEF SeenWasLatest, ProcessorRemembers, MayForget, ProcAt, Rebasing, Testing
<1>5. ~ProcAt("done")'
  BY DEF ProcAt, Rebasing
<1> QED BY <1>1, <1>2, <1>3, <1>4, <1>5 DEF JInv, Busy, Local

(* The round goes on with the pipeline in hand. *)
LEMMA SameRound ==
    ASSUME IInv, IInv', JInv, Quiet, row' = row,
           proc.pc \in Testing \ {"check", "save", "forget"},
           proc'.pc \in Testing \ {"check", "save", "forget"},
           proc'.seen = proc.seen, proc'.retried = proc.retried,
           proc'.pc = "post" => proc.retried < MaxJobRetries,
           proc'.pc \in {"status", "jobs", "post"} =>
              proc.pc \in {"status", "jobs", "post"} \/ row.pid = proc.seen.id,
           proc'.pc = "switch" => row.pid < proc.seen.id
    PROVE  JInv'
<1>1. NoneBeyond' /\ Busy /\ Budget' = Budget
  BY Numbers, BudgetSteps, StayWithin DEF JInv, Quiet, ProcAt, Testing
<1>2. Remembered'
  BY <1>1, RowStays DEF Busy, Quiet, Testing
<1>3. proc.seen.id \in Ids /\ \A i \in Ids : i \in Ids' /\ Retries(i)' = Retries(i)
  BY <1>1, Numbers, NumbersAfter
     DEF Busy, Local, PidsExist, SeenWasLatest, Quiet, KeepsRetries, Ids
<1>4. PidsExist' /\ RebasedAlone' /\ CountsInRange'
  <2>1. row'.pid =< Len(pipelines') /\ proc'.seen.id =< Len(pipelines')
    BY <1>1, Numbers, NumbersAfter DEF Busy, Local, PidsExist, Quiet, KeepsRetries
  <2>2. PidsExist'
    BY <1>1, <2>1, PidsStay DEF Busy, Local, Quiet
  <2> QED BY <1>1, <2>2
          DEF Busy, Local, RebasedAlone, CountsInRange, ProcAt, Quiet, Rebasing, Testing
<1>5. SeenWasLatest'
  BY <1>1, <1>3 DEF Busy, Local, SeenWasLatest, ProcAt, Testing, Quiet, KeepsRetries, Ids
<1>6. ProcessorRemembers'
  <2>1. SUFFICES ASSUME proc'.pc \in {"status", "jobs", "post"}
                 PROVE  ProcessorRemembers'
    BY DEF ProcessorRemembers
  <2>2. CASE proc.pc \in {"status", "jobs", "post"}
    BY <1>1, <1>3, <2>2 DEF Busy, ProcessorRemembers
  <2>3. CASE row.pid = proc.seen.id
    <3>1. Unsaved = 0 /\ row.retried =< proc.retried
      BY <1>1 DEF Unsaved, ProcAt, Busy, Local, CountsInRange
    <3>2. Retries(proc.seen.id) =< Budget + proc.retried
      BY <1>1, <1>3, <2>3, <3>1, Numbers DEF Busy, Remembered, RowRemembers
    <3> QED BY <1>1, <1>3, <2>3, <3>2, Numbers DEF ProcessorRemembers
  <2> QED BY <2>1, <2>2, <2>3
<1>7. MayForget'
  BY <1>1, <1>3, Numbers DEF Busy, Remembered, NewerAreFresh, MayForget, ProcAt
<1>8. ~ProcAt("done")'
  BY DEF ProcAt, Testing
<1> QED BY <1>1, <1>2, <1>4, <1>5, <1>6, <1>7, <1>8 DEF JInv, Busy, Local
-----------------------------------------------------------------------------
(* GitLab, users and the rebase *)

LEMMA QuietSame ==
    ASSUME IInv, UNCHANGED <<pipelines, hooks, setbacks, crashes>>
    PROVE  Quiet
BY SamePipelines DEF Quiet

LEMMA GitLabKeeps ==
    ASSUME IInv, IInv', JInv, GitLabAndUsers
    PROVE  JInv'
<1>1. row' = row /\ proc' = proc /\ hooks' = hooks /\ UNCHANGED <<setbacks, crashes>>
  BY DEF GitLabAndUsers, UserPushes, TargetMoves, PipelineStarts, PipelineEnds, UserRetries,
         TimePasses, world, counts
<1>2. \/ pipelines' = pipelines
      \/ pipelines' = Append(pipelines, NewPipeline)
      \/ \E i \in Ids, s \in Statuses : pipelines' = [pipelines EXCEPT ![i].status = s]
  BY DEF GitLabAndUsers, UserPushes, TargetMoves, PipelineStarts, PipelineEnds, UserRetries,
         TimePasses, world, counts, Statuses
<1>3. KeepsRetries
  BY <1>2, SamePipelines, AddedPipeline, StatusOnly
<1> QED BY <1>1, <1>3, WorldMoves DEF Quiet

(* A wait begins for a pipeline that is not older than the row's. *)
LEMMA EnterTestingKeeps ==
    ASSUME IInv, IInv', JInv, Quiet, NEW pid, NEW sha, EnterTesting(pid, sha),
           proc.pc \in Rebasing, pid \in 1 .. Len(pipelines'), row.pid =< pid
    PROVE  JInv'
<1>1. Busy /\ NoneBeyond' /\ Budget' = Budget
  BY Numbers, BudgetSteps, StayWithin DEF JInv, Quiet, ProcAt, Rebasing
<1>2. /\ row'.pid = pid /\ row'.retried = row.retried
      /\ proc'.pc = "check" /\ proc'.seen.id = 0 /\ proc'.retried = row.retried
  BY Numbers DEF EnterTesting, At, Nobody, Rows
<1>3. pid \in Nat /\ pid =< Len(pipelines')
  BY NumbersAfter
<1>4. Remembered'
  <2>1. Unsaved = 0 /\ Unsaved' = 0
    BY <1>2 DEF Unsaved, ProcAt, Rebasing
  <2>2. \A i \in Ids : i > pid => Retries(i) =< Budget
    BY <1>1, <1>3, Numbers DEF Busy, Remembered, NewerAreFresh
  <2>3. pid \in Ids => Retries(pid) =< Budget + row.retried
    <3>1. CASE pid = row.pid
      BY <1>1, <2>1, <3>1, Numbers DEF Busy, Remembered, RowRemembers
    <3>2. CASE pid > row.pid
      BY <1>1, <3>2, Numbers DEF Busy, Remembered, NewerAreFresh
    <3> QED BY <1>3, <3>1, <3>2, Numbers
  <2> QED BY <1>1, <1>2, <2>1, <2>2, <2>3, RowBound, Numbers DEF Quiet
<1>5. PidsExist'
  BY <1>1, <1>2, <1>3, PidsStay, NumbersAfter DEF Busy, Local, Quiet
<1>6. RebasedAlone' /\ CountsInRange'
  BY <1>1, <1>2, Numbers DEF Busy, Local, RebasedAlone, CountsInRange, ProcAt, Rebasing, Testing
<1>7. SeenWasLatest' /\ ProcessorRemembers' /\ MayForget' /\ ~ProcAt("done")'
  BY <1>2 DEF SeenWasLatest, ProcessorRemembers, MayForget, ProcAt
<1> QED BY <1>1, <1>4, <1>5, <1>6, <1>7 DEF JInv, Busy, Local

LEMMA FailKeeps ==
    ASSUME IInv, IInv', JInv, Quiet, Fail
    PROVE  JInv'
<1>1. proc'.pc = "done" /\ row'.state = "failed"
  BY Numbers DEF Fail, At, Rows
<1> QED BY <1>1, Ended DEF Quiet

LEMMA LatestIsLast ==
    ASSUME IInv
    PROVE  /\ Latest.id = Len(pipelines)
           /\ Latest.id # 0 => Latest.id \in Ids
<1>1. pipelines = <<>> => Len(pipelines) = 0
  OBVIOUS
<1> QED BY <1>1, PipelineTypes DEF IInv, Latest, Nobody

LEMMA RebaseKeeps ==
    ASSUME IInv, IInv', JInv, RebasePhase
    PROVE  JInv'
<1>1. /\ proc.pc \in Rebasing /\ ~ProcAt("done") /\ ~ProcAt("save")
      /\ UNCHANGED <<hooks, setbacks, crashes>>
  BY DEF RebasePhase, CaptureMergeRequest, CapturePipeline, StartWithoutRebase, Rebase,
         ReadMovedHead, MatchPipeline, ProcAt, Rebasing, world, counts
<1>2. Busy
  BY <1>1 DEF JInv
<1>3. /\ proc.seen.id =< Len(pipelines) /\ row.pid =< Len(pipelines)
      /\ ProcAt("reuse") => proc.seen.id = 0 \/ row.pid =< proc.seen.id
  BY <1>2 DEF Busy, Local, PidsExist, SeenWasLatest
<1>4. CASE CaptureMergeRequest \/ ReadMovedHead
  <2>1. Quiet /\ row' = row
    BY <1>1, <1>4, QuietSame DEF CaptureMergeRequest, ReadMovedHead, world
  <2>2. /\ proc'.pc \in Rebasing \ {"reuse"} /\ proc'.seen = proc.seen
        /\ pipelines' = pipelines
    BY <1>1, <1>4, Numbers
       DEF CaptureMergeRequest, ReadMovedHead, world, Processors, Rebasing, ProcAt
  <2> QED BY <1>1, <1>3, <2>1, <2>2, Unengaged
<1>5. CASE CapturePipeline
  <2>1. Quiet /\ row' = row /\ pipelines' = pipelines
    BY <1>1, <1>5, QuietSame DEF CapturePipeline, world
  <2>2. \/ proc'.pc = "rebase" /\ proc'.seen.id = 0
        \/ proc'.pc = "reuse" /\ proc'.seen.id = Len(pipelines)
    BY <1>5, LatestIsLast DEF CapturePipeline, At, Nobody
  <2>3. proc'.pc \in Rebasing
    BY <2>2 DEF Rebasing
  <2> QED BY <1>1, <1>3, <2>1, <2>2, <2>3, Unengaged, Numbers
<1>6. CASE StartWithoutRebase
  <2>1. CASE EnterTesting(proc.seen.id, proc.mr) /\ UNCHANGED pipelines /\ Reusable(proc.seen, proc.mr)
    <3>1. Quiet /\ proc.seen.id # 0 /\ row.pid =< proc.seen.id
      BY <1>1, <1>3, <1>6, <2>1, QuietSame DEF Reusable, StartWithoutRebase
    <3> QED BY <1>1, <1>3, <2>1, <3>1, EnterTestingKeeps, Numbers
  <2>2. CASE pipelines' = Append(pipelines, NewPipeline)
    <3>1. Quiet /\ Len(pipelines') = Len(pipelines) + 1
      BY <1>1, <2>2, AddedPipeline DEF Quiet
    <3>2. CASE EnterTesting(Len(pipelines) + 1, proc.mr)
      BY <1>1, <1>3, <3>1, <3>2, EnterTestingKeeps, Numbers
    <3>3. CASE ProcTo("capture") /\ row' = row
      <4>1. proc'.pc = "capture" /\ proc'.seen = proc.seen
        BY <3>3, Numbers DEF ProcTo, Processors
      <4> QED BY <1>1, <1>3, <3>1, <3>3, <4>1, Unengaged, Numbers DEF Rebasing
    <3>4. CASE Fail
      BY <3>1, <3>4, FailKeeps
    <3> QED BY <1>6, <2>2, <3>2, <3>3, <3>4 DEF StartWithoutRebase
  <2>3. CASE Fail /\ UNCHANGED pipelines
    BY <1>1, <2>3, QuietSame, FailKeeps
  <2> QED BY <1>6, <2>1, <2>2, <2>3 DEF StartWithoutRebase
<1>7. CASE Rebase
  <2>1. Quiet /\ pipelines' = pipelines
    BY <1>1, <1>7, QuietSame DEF Rebase
  <2>2. CASE ProcTo("moved") /\ row' = row
    <3>1. proc'.pc = "moved" /\ proc'.seen = proc.seen
      BY <2>2, Numbers DEF ProcTo, Processors
    <3> QED BY <1>1, <1>3, <2>1, <2>2, <3>1, Unengaged DEF Rebasing
  <2> QED BY <1>7, <2>1, <2>2, FailKeeps DEF Rebase
<1>8. CASE MatchPipeline
  <2>1. Quiet /\ pipelines' = pipelines
    BY <1>1, <1>8, QuietSame DEF MatchPipeline, world
  <2>2. CASE Latest.id # 0 /\ EnterTesting(Latest.id, proc.mr)
    BY <1>1, <1>3, <2>1, <2>2, LatestIsLast, EnterTestingKeeps DEF Ids
  <2>3. CASE ProcTo("moved") /\ row' = row
    <3>1. proc'.pc = "moved" /\ proc'.seen = proc.seen
      BY <2>3, Numbers DEF ProcTo, Processors
    <3> QED BY <1>1, <1>3, <2>1, <2>3, <3>1, Unengaged DEF Rebasing
  <2> QED BY <1>8, <2>1, <2>2, <2>3, FailKeeps DEF MatchPipeline
<1> QED BY <1>4, <1>5, <1>6, <1>7, <1>8 DEF RebasePhase
-----------------------------------------------------------------------------
(* The wait *)

(* What a step of the wait may rely on. *)
LEMMA InTheWait ==
    ASSUME IInv, JInv, proc.pc \in Testing
    PROVE  /\ Busy /\ ~ProcAt("done")
           /\ proc.seen.id =< Len(pipelines) /\ row.pid =< Len(pipelines)
           /\ proc.pc # "check" => proc.seen.id \in Ids
           /\ row.retried =< proc.retried /\ proc.retried =< MaxJobRetries
<1>1. Busy /\ ~ProcAt("done")
  BY DEF JInv, ProcAt, Testing
<1> QED BY <1>1, Numbers DEF Busy, Local, PidsExist, SeenWasLatest, CountsInRange, Ids

LEMMA NextRoundKeeps ==
    ASSUME IInv, IInv', JInv, Quiet, row'.pid = row.pid, row'.retried = row.retried,
           proc.pc \in Testing \ {"save"}, NextRound
    PROVE  JInv'
<1>1. proc'.pc = "check" /\ proc'.seen.id = 0 /\ proc'.retried = proc.retried
  BY Numbers DEF NextRound, Processors, Nobody
<1> QED BY <1>1, InTheWait, Unengaged, NumbersAfter DEF ProcAt, Quiet, KeepsRetries

LEMMA StepKeeps ==
    ASSUME IInv, IInv', JInv, Quiet, row' = row, NEW pc, ProcTo(pc),
           proc.pc \in Testing \ {"check", "save", "forget"},
           pc \in {"again", "movedAgain", "matchAgain", "tracked", "switch", "post"},
           pc = "post" => proc.pc = "jobs" /\ proc.retried < MaxJobRetries,
           pc = "switch" => row.pid < proc.seen.id
    PROVE  JInv'
<1>1. proc'.pc = pc /\ proc'.seen = proc.seen /\ proc'.retried = proc.retried
  BY Numbers DEF ProcTo, Processors
<1> QED BY <1>1, SameRound DEF Testing

LEMMA StartRoundKeeps ==
    ASSUME IInv, IInv', JInv, StartRound
    PROVE  JInv'
<1>1. Quiet /\ pipelines' = pipelines /\ proc.pc = "check" /\ proc.pc \in Testing
  BY QuietSame DEF StartRound, world, counts, ProcAt, Testing
<1>2. CASE UNCHANGED <<row, proc>>
  BY <1>1, <1>2, WorldMoves
<1>3. CASE Fail
  BY <1>1, <1>3, FailKeeps
<1>4. CASE /\ row' = row /\ Latest.id # 0
           /\ \/ proc' = [proc EXCEPT !.pc = "ready", !.seen = Latest]
              \/ proc' = [proc EXCEPT !.pc = "ready", !.seen = Latest, !.lastChance = TRUE]
  <2>1. /\ proc'.pc = "ready" /\ proc'.seen = Latest /\ proc'.retried = proc.retried
    BY <1>4, Numbers DEF Processors
  <2>2. Latest.id = Len(pipelines) /\ Latest.id # 0
    BY <1>4, LatestIsLast
  <2>3. Busy /\ NoneBeyond' /\ Remembered'
    BY <1>1, <1>4, InTheWait, Numbers, BudgetSteps, StayWithin, RowStays DEF Busy, JInv, Quiet
  <2>4. PidsExist'
    BY <1>1, <1>4, <2>1, <2>2, <2>3, InTheWait, PidsStay, Numbers DEF Busy, Local, Quiet
  <2>5. RebasedAlone' /\ CountsInRange'
    BY <1>1, <1>4, <2>1, <2>3, InTheWait
       DEF Busy, Local, RebasedAlone, CountsInRange, ProcAt, Rebasing
  <2>6. SeenWasLatest'
    BY <1>1, <2>1, <2>2, Numbers DEF SeenWasLatest, ProcAt, Ids
  <2> QED BY <2>1, <2>3, <2>4, <2>5, <2>6
          DEF JInv, Busy, Local, ProcessorRemembers, MayForget, ProcAt
<1>5. EndedBadly => Latest.id # 0
  BY DEF EndedBadly, Latest, Nobody
<1> QED BY <1>2, <1>3, <1>4, <1>5 DEF StartRound, Fetch

LEMMA CheckRebaseKeeps ==
    ASSUME IInv, IInv', JInv, CheckRebase
    PROVE  JInv'
<1>1. proc.pc = "ready" /\ proc.pc \in Testing /\ UNCHANGED <<hooks, setbacks, crashes>>
  BY DEF CheckRebase, ProcAt, Testing, counts
<1>2. CASE Fail /\ UNCHANGED pipelines
  BY <1>1, <1>2, QuietSame, FailKeeps
<1>3. CASE /\ pipelines' \in {pipelines, [pipelines EXCEPT ![proc.seen.id].status =
                                             IF @ = "running" THEN "canceled" ELSE @]}
           /\ ProcTo("again") /\ row' = row
  <2>1. KeepsRetries
    <3>1. CASE pipelines' = pipelines
      BY <3>1, SamePipelines
    <3>2. CASE pipelines' = [pipelines EXCEPT ![proc.seen.id].status =
                                IF @ = "running" THEN "canceled" ELSE @]
      <4>1. PICK s : pipelines' = [pipelines EXCEPT ![proc.seen.id].status = s]
        BY <3>2
      <4> QED BY <1>1, <4>1, InTheWait, StatusOnly
    <3> QED BY <1>3, <3>1, <3>2
  <2> QED BY <1>1, <1>3, <2>1, StepKeeps DEF Quiet
<1> QED BY <1>2, <1>3 DEF CheckRebase

LEMMA AgainKeeps ==
    ASSUME IInv, IInv', JInv, RebaseAgain \/ ReadHeadAgain \/ GiveUpNewPipeline
    PROVE  JInv'
<1>1. /\ proc.pc \in Testing \ {"check", "save", "forget"}
      /\ Quiet
  BY QuietSame
     DEF RebaseAgain, ReadHeadAgain, GiveUpNewPipeline, ProcAt, Testing, world, counts
<1>2. CASE RebaseAgain
  BY <1>1, <1>2, StepKeeps, FailKeeps DEF RebaseAgain
<1>3. CASE ReadHeadAgain \/ GiveUpNewPipeline
  <2>1. /\ row' = row /\ proc'.pc \in {"matchAgain", "stale"}
        /\ proc'.seen = proc.seen /\ proc'.retried = proc.retried
    BY <1>3, Numbers DEF ReadHeadAgain, GiveUpNewPipeline, Processors
  <2> QED BY <1>1, <2>1, SameRound DEF Testing
<1> QED BY <1>2, <1>3

(* A pipeline newer than the one in hand has just been found. *)
LEMMA MatchAgainKeeps ==
    ASSUME IInv, IInv', JInv, MatchPipelineAgain
    PROVE  JInv'
<1>1. /\ Quiet /\ pipelines' = pipelines
      /\ proc.pc = "matchAgain" /\ proc.pc \in Testing
  BY QuietSame DEF MatchPipelineAgain, ProcAt, Testing, world, counts
<1>2. CASE ProcTo("movedAgain") /\ row' = row
  BY <1>1, <1>2, StepKeeps
<1>3. CASE Fail
  BY <1>1, <1>3, FailKeeps
<1>4. CASE /\ Latest.id # proc.seen.id
           /\ row' = [row EXCEPT !.state = "testing", !.pid = Latest.id, !.sha = Latest.sha]
           /\ proc' = [proc EXCEPT !.pc = "forget", !.rebases = @ + 1]
  <2>1. /\ proc'.pc = "forget" /\ proc'.seen = proc.seen /\ proc'.retried = proc.retried
        /\ row'.pid = Latest.id /\ row'.retried = row.retried
    BY <1>4, Numbers DEF Processors, Rows
  <2>2. Busy /\ NoneBeyond' /\ Budget' = Budget
    BY <1>1, InTheWait, Numbers, BudgetSteps, StayWithin DEF JInv, Quiet
  <2>3. Latest.id = Len(pipelines) /\ Latest.id \in Ids /\ proc.seen.id < Latest.id
    BY <1>1, <1>4, InTheWait, LatestIsLast, Numbers DEF Ids
  <2>4. Retries(Latest.id) = 0
    BY <1>1, <2>2, <2>3, InTheWait DEF Busy, Local, SeenWasLatest, Ids
  <2>5. Remembered'
    <3>1. Unsaved' = 0
      BY <2>1 DEF Unsaved, ProcAt
    <3>2. \A i \in Ids : ~(i > Latest.id)
      BY <2>3, Numbers DEF Ids
    <3> QED BY <1>1, <2>1, <2>2, <2>4, <3>1, <3>2, RowBound, Numbers DEF Quiet
  <2>6. PidsExist'
    BY <1>1, <2>1, <2>2, <2>3, InTheWait, PidsStay, Numbers DEF Busy, Local, Quiet
  <2>7. RebasedAlone' /\ CountsInRange' /\ SeenWasLatest'
    BY <1>1, <2>1, <2>2, <2>3, InTheWait
       DEF Busy, Local, RebasedAlone, CountsInRange, SeenWasLatest, ProcAt, Rebasing, Ids, Retries
  <2>8. ProcessorRemembers' /\ MayForget' /\ ~ProcAt("done")'
    BY <1>1, <2>1, <2>2, <2>4, Numbers DEF ProcessorRemembers, MayForget, ProcAt, Retries
  <2> QED BY <2>2, <2>5, <2>6, <2>7, <2>8 DEF JInv, Busy, Local
<1> QED BY <1>2, <1>3, <1>4 DEF MatchPipelineAgain

LEMMA ForgetKeeps ==
    ASSUME IInv, IInv', JInv, ForgetRetries
    PROVE  JInv'
<1>1. /\ Quiet /\ pipelines' = pipelines
      /\ proc.pc = "forget" /\ proc.pc \in Testing
  BY QuietSame DEF ForgetRetries, ProcAt, Testing, world, counts
<1>2. /\ proc'.pc = "stale" /\ proc'.seen = proc.seen /\ proc'.retried = 0
      /\ row'.pid = row.pid /\ row'.retried = 0
  BY Numbers DEF ForgetRetries, Processors, Rows
<1>3. Busy /\ NoneBeyond' /\ Budget' = Budget
  BY <1>1, InTheWait, Numbers, BudgetSteps, StayWithin DEF JInv, Quiet
<1>4. Remembered'
  <2>1. Unsaved' = 0
    BY <1>2 DEF Unsaved, ProcAt
  <2>2. row.pid \in Ids => Retries(row.pid) =< Budget
    BY <1>1, <1>3 DEF Busy, MayForget, ProcAt
  <2> QED BY <1>1, <1>2, <1>3, <2>1, <2>2, RowBound, Numbers
          DEF Quiet, Busy, Remembered, NewerAreFresh
<1>5. PidsExist'
  BY <1>1, <1>2, <1>3, InTheWait, PidsStay DEF Busy, Local, Quiet
<1>6. RebasedAlone' /\ CountsInRange' /\ SeenWasLatest'
  BY <1>1, <1>2, <1>3, Numbers
     DEF Busy, Local, RebasedAlone, CountsInRange, SeenWasLatest, ProcAt, Rebasing, Ids, Retries
<1>7. ProcessorRemembers' /\ MayForget' /\ ~ProcAt("done")'
  BY <1>2 DEF ProcessorRemembers, MayForget, ProcAt
<1> QED BY <1>3, <1>4, <1>5, <1>6, <1>7 DEF JInv, Busy, Local

LEMMA CheckStaleKeeps ==
    ASSUME IInv, IInv', JInv, CheckStale
    PROVE  JInv'
<1>1. /\ Quiet /\ row' = row /\ pipelines' = pipelines
      /\ proc.pc \in {"ready", "stale"}
      /\ proc.pc \in Testing \ {"check", "save", "forget"}
  BY QuietSame DEF CheckStale, ProcAt, Testing, world, counts
<1>2. CASE \E pc \in {"switch", "tracked"} : ProcTo(pc) /\ row.pid < proc.seen.id
  BY <1>1, <1>2, StepKeeps
<1>3. CASE NextRound
  BY <1>1, <1>3, NextRoundKeeps
<1>4. CASE /\ row.pid = proc.seen.id
           /\ \/ proc' = [proc EXCEPT !.pc = "status", !.cancels = 0]
              \/ proc' = [proc EXCEPT !.pc = "status", !.cancels = @ + 1]
  <2>1. proc'.pc = "status" /\ proc'.seen = proc.seen /\ proc'.retried = proc.retried
    BY <1>4, Numbers DEF Processors
  <2> QED BY <1>1, <1>4, <2>1, SameRound DEF Testing
<1>5. CASE proc' = [proc EXCEPT !.pc = "check", !.seen = Nobody, !.cancels = @ + 1]
  <2>1. proc'.pc = "check" /\ proc'.seen.id = 0 /\ proc'.retried = proc.retried
    BY <1>5, Numbers DEF Processors, Nobody
  <2> QED BY <1>1, <2>1, InTheWait, Unengaged, NumbersAfter DEF ProcAt
<1>6. row.pid # proc.seen.id /\ ~(proc.seen.id > row.pid) => proc.seen.id < row.pid
  BY Numbers
<1>7. row.pid # proc.seen.id /\ proc.seen.id > row.pid => row.pid < proc.seen.id
  BY Numbers
<1>8. CASE row.pid # proc.seen.id /\ proc.seen.id > row.pid
  BY <1>2, <1>6, <1>7, <1>8, Numbers DEF CheckStale
<1>9. CASE row.pid # proc.seen.id /\ proc.seen.id < row.pid
  BY <1>3, <1>9, Numbers DEF CheckStale
<1>10. CASE row.pid = proc.seen.id
  BY <1>3, <1>4, <1>5, <1>10, Numbers DEF CheckStale
<1> QED BY <1>6, <1>8, <1>9, <1>10

(* The row is bound to a pipeline that the budget covers, and whose followers *)
(* nobody has retried; its counts and the processor's are forgotten, or the   *)
(* processor's only are kept.                                                 *)
LEMMA BoundAnew ==
    ASSUME IInv, IInv', JInv, Quiet, pipelines' = pipelines,
           proc.pc \in Testing, NEW pid \in Ids, row'.pid = pid, row'.retried = 0,
           Retries(pid) =< Budget, \A i \in Ids : i > pid => Retries(i) = 0,
           proc'.pc = "check", proc'.seen.id = 0, proc'.retried \in {0, proc.retried}
    PROVE  JInv'
<1>1. Busy /\ NoneBeyond' /\ Budget' = Budget
  BY InTheWait, Numbers, BudgetSteps, StayWithin DEF JInv, Quiet
<1>2. Remembered'
  <2>1. Unsaved' = 0
    BY DEF Unsaved, ProcAt
  <2> QED BY <1>1, <2>1, RowBound, Numbers DEF Quiet
<1>3. PidsExist'
  BY <1>1, PidsStay, Numbers DEF Busy, Local, Quiet, Ids
<1>4. RebasedAlone' /\ CountsInRange' /\ SeenWasLatest'
  BY <1>1, InTheWait, Numbers
     DEF RebasedAlone, CountsInRange, SeenWasLatest, ProcAt, Rebasing
<1>5. ProcessorRemembers' /\ MayForget' /\ ~ProcAt("done")'
  BY DEF ProcessorRemembers, MayForget, ProcAt
<1> QED BY <1>1, <1>2, <1>3, <1>4, <1>5 DEF JInv, Busy, Local

LEMMA FollowKeeps ==
    ASSUME IInv, IInv', JInv, SwitchToSeen \/ RecoverFromStale
    PROVE  JInv'
<1>1. /\ Quiet /\ pipelines' = pipelines
      /\ proc.pc \in Testing /\ proc.pc # "check" /\ proc.pc # "save"
  BY QuietSame DEF SwitchToSeen, RecoverFromStale, ProcAt, Testing, world, counts
<1>2. CASE NextRound /\ row' = row
  BY <1>1, <1>2, NextRoundKeeps
<1>3. ASSUME NEW sha, FollowSeen(sha), Retries(proc.seen.id) =< Budget
      PROVE  JInv'
  <2>1. /\ row'.pid = proc.seen.id /\ row'.retried = 0
        /\ proc'.pc = "check" /\ proc'.seen.id = 0 /\ proc'.retried = 0
    BY <1>3, Numbers DEF FollowSeen, Rows, Processors, Nobody
  <2>2. proc.seen.id \in Ids /\ \A i \in Ids : i > proc.seen.id => Retries(i) = 0
    BY <1>1, InTheWait, Numbers DEF Busy, Local, SeenWasLatest, Ids
  <2> QED BY <1>1, <1>3, <2>1, <2>2, BoundAnew
<1>4. SwitchToSeen => Retries(proc.seen.id) =< Budget
  BY <1>1, InTheWait DEF SwitchToSeen, Busy, MayForget
<1>5. row.pid < proc.seen.id => Retries(proc.seen.id) =< Budget
  BY <1>1, InTheWait, Numbers DEF Busy, Remembered, NewerAreFresh
<1>6. proc.seen.id > row.pid => row.pid < proc.seen.id
  BY Numbers
<1> QED BY <1>2, <1>3, <1>4, <1>5, <1>6 DEF SwitchToSeen, RecoverFromStale

LEMMA HandleStatusKeeps ==
    ASSUME IInv, IInv', JInv, HandleStatus
    PROVE  JInv'
<1>1. /\ Quiet /\ pipelines' = pipelines
      /\ proc.pc = "status" /\ proc.pc \in Testing
  BY QuietSame DEF HandleStatus, ProcAt, Testing, world, counts
<1>2. CASE NextRound /\ row' = row
  BY <1>1, <1>2, NextRoundKeeps
<1>3. CASE row' = [row EXCEPT !.state = "merging"] /\ proc' = At("merge")
  <2>1. proc'.pc = "merge" /\ proc'.seen.id = 0 /\ row'.pid = row.pid /\ row'.retried = row.retried
    BY <1>3, Numbers DEF At, Nobody, Rows
  <2> QED BY <1>1, <2>1, InTheWait, Unengaged, NumbersAfter DEF ProcAt
<1>4. CASE /\ Replacements # {} /\ NextRound
           /\ row' = [row EXCEPT !.state = "testing", !.pid = Max(Replacements), !.retried = 0]
  <2>1. Max(Replacements) \in Replacements
    <3>1. Replacements \subseteq 1 .. Len(pipelines) /\ Len(pipelines) \in Nat
      BY Numbers DEF Replacements, Ids
    <3> QED BY <1>4, <3>1, MaxOfSome
  <2>2. PICK pid \in Ids : pid = Max(Replacements) /\ pid > proc.seen.id
    BY <2>1 DEF Replacements
  <2>3. /\ row'.pid = pid /\ row'.retried = 0
        /\ proc'.pc = "check" /\ proc'.seen.id = 0 /\ proc'.retried = proc.retried
    BY <1>4, <2>2, Numbers DEF NextRound, Rows, Processors, Nobody
  <2>4. Retries(pid) = 0 /\ \A i \in Ids : i > pid => Retries(i) = 0
    BY <1>1, <2>2, InTheWait, Numbers DEF Busy, Local, SeenWasLatest, Ids
  <2> QED BY <1>1, <2>3, <2>4, BoundAnew, Numbers
<1>5. CASE Fail
  BY <1>1, <1>5, FailKeeps
<1>6. CASE /\ proc' = [proc EXCEPT !.pc = "jobs", !.retried = Max({@, row.retried})]
           /\ row' = row
  <2>1. Max({proc.retried, row.retried}) = proc.retried
    <3>1. \A x \in {proc.retried, row.retried} : proc.retried >= x
      BY <1>1, InTheWait, Numbers
    <3>2. \A x \in {proc.retried, row.retried} : x >= proc.retried => x = proc.retried
      BY <1>1, InTheWait, Numbers
    <3> QED BY <3>1, <3>2 DEF Max
  <2>2. proc'.pc = "jobs" /\ proc'.seen = proc.seen /\ proc'.retried = proc.retried
    BY <1>6, <2>1, Numbers DEF Processors
  <2> QED BY <1>1, <1>6, <2>2, SameRound DEF Testing
<1> QED BY <1>2, <1>3, <1>4, <1>5, <1>6 DEF HandleStatus

LEMMA FetchJobsKeeps ==
    ASSUME IInv, IInv', JInv, FetchJobs
    PROVE  JInv'
<1>1. Quiet /\ proc.pc = "jobs" /\ proc.pc \in Testing
  BY QuietSame DEF FetchJobs, ProcAt, Testing, world, counts
<1>2. CASE NextRound /\ row' = row
  BY <1>1, <1>2, NextRoundKeeps
<1>3. CASE proc.retried < MaxJobRetries /\ ProcTo("post") /\ row' = row
  BY <1>1, <1>3, StepKeeps
<1> QED BY <1>1, <1>2, <1>3, FailKeeps DEF FetchJobs, CanRetry

(* The only step that retries a job. *)
LEMMA PostedKeeps ==
    ASSUME IInv, IInv', JInv, ProcAt("post"), UNCHANGED <<hooks, setbacks, crashes>>,
           pipelines' = [pipelines EXCEPT ![proc.seen.id].status = "running",
                                          ![proc.seen.id].retries = @ + 1],
           \/ proc' = [proc EXCEPT !.pc = "save", !.retried = @ + 1] /\ row' = row
           \/ Fail
    PROVE  JInv'
<1> DEFINE id == proc.seen.id
<1>1. proc.pc = "post" /\ proc.pc \in Testing
  BY DEF ProcAt, Testing
<1>2. Busy /\ NoneBeyond /\ id \in Ids /\ Budget' = Budget
  BY <1>1, InTheWait, BudgetSteps DEF JInv
<1>3. /\ Len(pipelines') = Len(pipelines) /\ Ids' = Ids
      /\ \A i \in Ids : Retries(i)' = IF i = id THEN Retries(i) + 1 ELSE Retries(i)
  <2>1. /\ DOMAIN pipelines = Ids /\ pipelines \in Seq(Pipes)
        /\ \A i \in Ids : pipelines[i] \in Pipes
    BY PipelineTypes DEF IInv, TypeOK
  <2>2. /\ DOMAIN pipelines' = Ids
        /\ \A i \in Ids : Retries(i)' = IF i = id THEN Retries(i) + 1 ELSE Retries(i)
    BY <1>2, <2>1 DEF Retries, Pipes
  <2>3. Len(pipelines') = Len(pipelines)
    <3>1. pipelines' \in Seq(Pipes)
      BY DEF IInv, TypeOK
    <3>2. DOMAIN pipelines' = 1 .. Len(pipelines') /\ Len(pipelines') \in Nat
      BY <3>1
    <3>3. \A m, n \in Nat : 1 .. m = 1 .. n => m = n
      OBVIOUS
    <3>4. 1 .. Len(pipelines') = 1 .. Len(pipelines)
      BY <2>2, <3>2 DEF Ids
    <3> QED BY <3>2, <3>3, <3>4, Numbers
  <2> QED BY <2>2, <2>3 DEF Ids
<1>4. /\ proc.retried < MaxJobRetries
      /\ Retries(id) =< Budget + proc.retried
      /\ row.pid < id => Retries(id) + MaxJobRetries =< Budget + proc.retried
  BY <1>1, <1>2 DEF Busy, Local, CountsInRange, ProcessorRemembers, ProcAt
<1>5. NoneBeyond'
  BY <1>2, <1>3, <1>4, Numbers DEF NoneBeyond
<1>6. CASE Fail
  <2>1. proc'.pc = "done" /\ row'.state = "failed"
    BY <1>6, Numbers DEF Fail, At, Rows
  <2> QED BY <1>5, <2>1 DEF JInv, ProcAt, Decided
<1>7. CASE proc' = [proc EXCEPT !.pc = "save", !.retried = @ + 1] /\ row' = row
  <2>1. /\ proc'.pc = "save" /\ proc'.seen = proc.seen /\ proc'.retried = proc.retried + 1
        /\ row' = row
    BY <1>7, Numbers DEF Processors
  <2>2. PidsExist' /\ RebasedAlone'
    BY <1>2, <1>3, <2>1 DEF Busy, Local, PidsExist, RebasedAlone, Rebasing
  <2>3. CountsInRange'
    BY <1>1, <1>4, <2>1, InTheWait, Numbers DEF CountsInRange, ProcAt
  <2>4. SeenWasLatest'
    BY <1>1, <1>2, <1>3, <2>1, Numbers DEF Busy, Local, SeenWasLatest, ProcAt
  <2>5. NewerAreFresh'
    BY <1>2, <1>3, <1>4, <2>1, Numbers DEF Busy, Remembered, NewerAreFresh
  <2>6. RowRemembers'
    <3>1. Unsaved = 0 /\ Unsaved' = IF id = row.pid THEN 1 ELSE 0
      BY <1>1, <2>1 DEF Unsaved, ProcAt
    <3> QED BY <1>2, <1>3, <2>1, <3>1, Numbers DEF Busy, Remembered, RowRemembers
  <2>7. ProcessorRemembers'
    BY <1>2, <1>3, <1>4, <2>1, Numbers DEF ProcessorRemembers
  <2>8. MayForget' /\ ~ProcAt("done")'
    BY <2>1 DEF MayForget, ProcAt
  <2> QED BY <1>5, <2>2, <2>3, <2>4, <2>5, <2>6, <2>7, <2>8 DEF JInv, Busy, Local, Remembered
<1> QED BY <1>6, <1>7

LEMMA PostRetryKeeps ==
    ASSUME IInv, IInv', JInv, PostRetry
    PROVE  JInv'
<1>1. /\ proc.pc = "post" /\ proc.pc \in Testing /\ ProcAt("post")
      /\ UNCHANGED <<hooks, setbacks, crashes>>
  BY DEF PostRetry, ProcAt, Testing, counts
<1>2. CASE NextRound /\ UNCHANGED <<pipelines, row>>
  BY <1>1, <1>2, QuietSame, NextRoundKeeps
<1>3. CASE Fail /\ UNCHANGED pipelines
  BY <1>1, <1>3, QuietSame, FailKeeps
<1>4. CASE /\ pipelines' = [pipelines EXCEPT ![proc.seen.id].status = "running",
                                          ![proc.seen.id].retries = @ + 1]
           /\ \/ proc' = [proc EXCEPT !.pc = "save", !.retried = @ + 1] /\ row' = row
              \/ Fail
  BY <1>1, <1>4, PostedKeeps
<1> QED BY <1>2, <1>3, <1>4 DEF PostRetry

(* The row learns what the processor remembers. *)
LEMMA SaveKeeps ==
    ASSUME IInv, IInv', JInv, SaveRetries
    PROVE  JInv'
<1>1. /\ Quiet /\ pipelines' = pipelines
      /\ proc.pc = "save" /\ proc.pc \in Testing
  BY QuietSame DEF SaveRetries, ProcAt, Testing, world, counts
<1>2. /\ proc'.pc = "check" /\ proc'.seen.id = 0 /\ proc'.retried = proc.retried
      /\ row'.pid = row.pid /\ row'.retried = proc.retried
  BY Numbers DEF SaveRetries, NextRound, Processors, Rows, Nobody
<1>3. Busy /\ NoneBeyond' /\ Budget' = Budget
  BY <1>1, InTheWait, Numbers, BudgetSteps, StayWithin DEF JInv, Quiet
<1>4. Remembered'
  <2>1. row.pid \in Ids => Retries(row.pid) =< Budget + proc.retried
    <3>1. CASE row.pid = proc.seen.id
      BY <1>1, <1>3, <3>1 DEF Busy, ProcessorRemembers
    <3>2. CASE row.pid # proc.seen.id
      <4>1. Unsaved = 0
        BY <3>2 DEF Unsaved
      <4> QED BY <1>1, <1>3, <4>1, InTheWait, Numbers DEF Busy, Remembered, RowRemembers
    <3> QED BY <3>1, <3>2
  <2>2. Unsaved' = 0
    BY <1>2 DEF Unsaved, ProcAt
  <2> QED BY <1>1, <1>2, <1>3, <2>1, <2>2, RowBound, Numbers
          DEF Quiet, Busy, Remembered, NewerAreFresh
<1>5. PidsExist'
  BY <1>1, <1>2, <1>3, InTheWait, PidsStay, Numbers DEF Busy, Local, Quiet
<1>6. RebasedAlone' /\ CountsInRange' /\ SeenWasLatest'
  BY <1>1, <1>2, InTheWait, Numbers
     DEF RebasedAlone, CountsInRange, SeenWasLatest, ProcAt, Rebasing
<1>7. ProcessorRemembers' /\ MayForget' /\ ~ProcAt("done")'
  BY <1>2 DEF ProcessorRemembers, MayForget, ProcAt
<1> QED BY <1>3, <1>4, <1>5, <1>6, <1>7 DEF JInv, Busy, Local
-----------------------------------------------------------------------------
(* The merge, the handlers and a crash *)

LEMMA MergeKeeps ==
    ASSUME IInv, IInv', JInv, CheckMergeable \/ PutMerge
    PROVE  JInv'
<1>1. /\ Quiet /\ pipelines' = pipelines /\ proc.pc \in {"merge", "put"}
  BY QuietSame DEF CheckMergeable, PutMerge, ProcAt, world, counts
<1>2. CASE Fail
  BY <1>1, <1>2, FailKeeps
<1>3. CASE row' \in {[row EXCEPT !.state = st] : st \in {"merged", "failed"}} /\ proc' = At("done")
  <2>1. proc'.pc = "done" /\ row'.state \in {"merged", "failed"}
    BY <1>3, Numbers DEF At, Rows
  <2> QED BY <1>1, <2>1, Ended DEF Quiet
<1>4. CASE /\ row' = row
           /\ \/ proc' = [proc EXCEPT !.pc = "put", !.mr = gitlab.head]
              \/ ProcTo("merge")
  <2>1. proc'.pc \in {"merge", "put"} /\ proc'.seen = proc.seen
    BY <1>4, Numbers DEF ProcTo, Processors
  <2>2. proc.seen.id =< Len(pipelines) /\ ~ProcAt("done") /\ ~ProcAt("save")
    BY <1>1 DEF JInv, Busy, Local, PidsExist, ProcAt
  <2> QED BY <1>1, <1>4, <2>1, <2>2, Unengaged
<1> QED BY <1>2, <1>3, <1>4 DEF CheckMergeable, PutMerge

LEMMA CrashKeeps ==
    ASSUME IInv, IInv', JInv, Crash
    PROVE  JInv'
<1>1. /\ pipelines' = pipelines /\ setbacks' = setbacks /\ crashes' = crashes + 1
      /\ hooks' = [h \in Hooks |-> IdleHook]
      /\ ~ProcAt("done") /\ Busy
  BY DEF Crash, JInv
<1>2. /\ row'.pid = row.pid /\ row'.retried = row.retried /\ row'.state = "rebasing"
      /\ proc'.pc = "capture" /\ proc'.seen.id = 0
  BY Numbers DEF Crash, Rows, At, Nobody
<1>3. Budget' = Budget + 1 /\ KeepsRetries
  BY <1>1, BudgetSteps, SamePipelines
<1>4. NoneBeyond'
  BY <1>1, <1>3, Numbers, StayWithin DEF JInv
<1>5. Remembered'
  <2>1. Unsaved \in {0, 1} /\ Unsaved' = 0
    BY <1>2 DEF Unsaved, ProcAt
  <2>2. row.pid \in Ids => Retries(row.pid) =< Budget' + row.retried
    BY <1>1, <1>3, <2>1, Numbers DEF Busy, Remembered, RowRemembers
  <2>3. \A i \in Ids : i > row.pid => Retries(i) =< Budget'
    BY <1>1, <1>3, Numbers DEF Busy, Remembered, NewerAreFresh
  <2> QED BY <1>2, <1>3, <2>1, <2>2, <2>3, RowBound, Numbers
<1>6. PidsExist' /\ RebasedAlone' /\ CountsInRange'
  BY <1>1, <1>2, Numbers
     DEF Busy, Local, PidsExist, RebasedAlone, CountsInRange, ProcAt, IdleHook, Testing
<1>7. SeenWasLatest' /\ ProcessorRemembers' /\ MayForget' /\ ~ProcAt("done")'
  BY <1>2 DEF SeenWasLatest, ProcessorRemembers, MayForget, ProcAt, Testing
<1> QED BY <1>4, <1>5, <1>6, <1>7 DEF JInv, Busy, Local
(* A handler moves the row to a pipeline that exists, while the processor    *)
(* is not rebasing.                                                          *)
LEMMA HandlerMoves ==
    ASSUME IInv, IInv', JInv, ~ProcAt("done"), NEW h \in Hooks, Handler(h)
    PROVE  /\ PidsExist' /\ RebasedAlone' /\ CountsInRange' /\ SeenWasLatest'
           /\ pipelines' = pipelines /\ proc' = proc /\ crashes' = crashes
<1>1. Busy
  BY DEF JInv
<1>2. pipelines' = pipelines /\ proc' = proc /\ crashes' = crashes
  BY DEF Handler, ReceivePipeline, HookSwitches, HookWrites, world, counts
<1>3. proc.pc \notin Rebasing
  BY <1>1 DEF Handler, ReceivePipeline, HookSwitches, HookWrites, HookAt,
              Busy, Local, RebasedAlone
<1>4. \E t \in HookTasks : t.pid =< Len(pipelines) /\ hooks' = [hooks EXCEPT ![h] = t]
  <2>1. hooks[h] \in HookTasks /\ hooks[h].pid =< Len(pipelines) /\ IdleHook \in HookTasks
    BY <1>1 DEF IInv, TypeOK, IdleHook, HookTasks, Busy, Local, PidsExist
  <2>2. IdleHook.pid =< Len(pipelines)
    BY Numbers DEF IdleHook
  <2>3. CASE ReceivePipeline(h)
    <3>1. PICK i \in Ids : HookTo(h, [pc |-> IF i = row.pid THEN "write" ELSE "switch", pid |-> i])
      BY <2>3 DEF ReceivePipeline
    <3> DEFINE t == [pc |-> IF i = row.pid THEN "write" ELSE "switch", pid |-> i]
    <3>2. t \in HookTasks /\ t.pid =< Len(pipelines)
      BY Numbers DEF HookTasks, Ids
    <3> QED BY <3>1, <3>2 DEF HookTo
  <2>4. CASE HookSwitches(h)
    <3>1. /\ [hooks[h] EXCEPT !.pc = "write"] \in HookTasks
          /\ [hooks[h] EXCEPT !.pc = "write"].pid =< Len(pipelines)
      BY <2>1 DEF HookTasks
    <3> QED BY <2>1, <2>2, <2>4, <3>1 DEF HookSwitches, HookTo
  <2>5. CASE HookWrites(h)
    BY <2>1, <2>2, <2>5 DEF HookWrites, HookTo
  <2> QED BY <2>3, <2>4, <2>5 DEF Handler
<1>5. row'.pid =< Len(pipelines) /\ row'.retried =< row.retried
  <2>1. row \in Rows /\ row.pid =< Len(pipelines) /\ hooks[h].pid =< Len(pipelines)
    BY <1>1, Numbers DEF Busy, Local, PidsExist
  <2>2. CASE \E pid \in Nat : BindRow(pid) /\ (pid = hooks[h].pid \/ pid \in Ids)
    <3>1. PICK pid \in Nat : BindRow(pid) /\ (pid = hooks[h].pid \/ pid \in Ids)
      BY <2>2
    <3>2. row'.pid = pid /\ row'.retried = 0
      BY <2>1, <3>1 DEF BindRow, Rows
    <3> QED BY <2>1, <3>1, <3>2, Numbers DEF Ids
  <2>3. CASE \E s \in {"testing", "merging"} : row' = [row EXCEPT !.state = s]
    <3>1. row'.pid = row.pid /\ row'.retried = row.retried
      BY <2>1, <2>3 DEF Rows
    <3> QED BY <2>1, <3>1, Numbers
  <2>4. CASE row' = row
    BY <2>1, <2>4, Numbers
  <2>5. TypeOK
    BY DEF IInv
  <2> QED BY <2>2, <2>3, <2>4, <2>5, HookEffects
<1>6. PidsExist'
  <2>1. PICK t \in HookTasks : t.pid =< Len(pipelines) /\ hooks' = [hooks EXCEPT ![h] = t]
    BY <1>4
  <2>2. \A k \in Hooks : hooks'[k].pid =< Len(pipelines)
    BY <1>1, <2>1 DEF Busy, Local, PidsExist, IInv, TypeOK
  <2> QED BY <1>1, <1>2, <1>5, <2>2 DEF Busy, Local, PidsExist
<1>7. CountsInRange'
  BY <1>1, <1>2, <1>5, Numbers, NumbersAfter DEF Busy, Local, CountsInRange, ProcAt
<1>8. RebasedAlone' /\ SeenWasLatest'
  BY <1>1, <1>2, <1>3
     DEF Busy, Local, RebasedAlone, SeenWasLatest, ProcAt, Rebasing, Ids, Retries
<1> QED BY <1>2, <1>6, <1>7, <1>8

(* A row that is bound back costs a setback, which pays for all retries so   *)
(* far; one that is bound to a newer pipeline costs nothing.                 *)
LEMMA BindingKeeps ==
    ASSUME IInv, IInv', JInv, ~ProcAt("done"), pipelines' = pipelines, proc' = proc,
           crashes' = crashes, NEW pid \in Nat, BindRow(pid), pid =< Len(pipelines)
    PROVE  NoneBeyond' /\ Remembered' /\ ProcessorRemembers' /\ MayForget'
<1>1. Busy /\ NoneBeyond
  BY DEF JInv
<1>2. row'.pid = pid /\ row'.retried = 0
  BY Numbers DEF BindRow, Rows
<1>3. Ids' = Ids /\ KeepsRetries /\ \A i \in Ids : Retries(i)' = Retries(i)
  BY SamePipelines DEF Ids, Retries
<1>4. proc.pc \in Testing \ {"check"} => proc.seen.id \in Ids
  BY <1>1, Numbers DEF Busy, Local, PidsExist, SeenWasLatest, Ids
<1>5. Unsaved' \in Nat
  BY DEF Unsaved
<1>6. CASE pid =< row.pid
  <2>1. Budget' = Budget + MaxJobRetries
    BY <1>6, BudgetSteps DEF BindRow
  <2>2. \A i \in Ids : Retries(i) =< Budget'
    BY <1>1, <2>1 DEF NoneBeyond
  <2>3. NoneBeyond'
    BY <1>3, <2>1, <2>2, Numbers DEF NoneBeyond
  <2>4. Remembered'
    BY <1>2, <1>3, <1>5, <2>1, <2>2, RowBound, Numbers
  <2>5. ProcessorRemembers'
    BY <1>1, <1>3, <1>4, <2>1, Numbers DEF Busy, ProcessorRemembers, Testing
  <2>6. MayForget'
    BY <1>3, <1>4, <2>2 DEF MayForget, ProcAt, Testing
  <2> QED BY <2>3, <2>4, <2>5, <2>6
<1>7. CASE pid > row.pid
  <2>1. Budget' = Budget
    <3>1. ~(pid =< row.pid)
      BY <1>7, Numbers
    <3> QED BY <3>1, BudgetSteps DEF BindRow
  <2>2. \A i \in Ids : i >= pid => Retries(i) =< Budget
    BY <1>1, <1>7, Numbers DEF Busy, Remembered, NewerAreFresh
  <2>3. NoneBeyond'
    BY <1>1, <1>3, <2>1 DEF NoneBeyond
  <2>4. Remembered'
    BY <1>2, <1>3, <1>5, <2>1, <2>2, RowBound, Numbers
  <2>5. ProcessorRemembers'
    BY <1>1, <1>2, <1>3, <1>4, <1>7, <2>1, Numbers DEF Busy, ProcessorRemembers, Testing
  <2>6. MayForget'
    BY <1>1, <1>2, <1>3, <1>4, <2>1, <2>2 DEF Busy, MayForget, ProcAt, Testing
  <2> QED BY <2>3, <2>4, <2>5, <2>6
<1> QED BY <1>6, <1>7, Numbers

LEMMA HandlerKeeps ==
    ASSUME IInv, IInv', JInv, NEW h \in Hooks, Handler(h)
    PROVE  JInv'
<1>1. pipelines' = pipelines /\ proc' = proc /\ crashes' = crashes
  BY DEF Handler, ReceivePipeline, HookSwitches, HookWrites, world, counts
<1>2. TypeOK /\ KeepsRetries
  BY <1>1, SamePipelines DEF IInv
<1>3. CASE ProcAt("done")
  <2>1. Decided
    BY <1>3 DEF JInv
  <2>2. row' = row /\ setbacks' = setbacks
    BY <1>2, <2>1, HookEffects
  <2>3. NoneBeyond'
    BY <1>1, <1>2, <2>2, Numbers, BudgetSteps, StayWithin DEF JInv
  <2> QED BY <1>1, <1>3, <2>1, <2>2, <2>3 DEF JInv, ProcAt, Decided
<1>4. CASE ~ProcAt("done")
  <2>1. Local' /\ ~ProcAt("done")'
    BY <1>1, <1>4, HandlerMoves DEF Local, ProcAt
  <2>2. Busy /\ row \in Rows
    BY <1>4, Numbers DEF JInv
  <2>3. NoneBeyond' /\ Remembered' /\ ProcessorRemembers' /\ MayForget'
    <3>1. CASE \E pid \in Nat : BindRow(pid) /\ (pid = hooks[h].pid \/ pid \in Ids)
      <4>1. PICK pid \in Nat : BindRow(pid) /\ (pid = hooks[h].pid \/ pid \in Ids)
        BY <3>1
      <4>2. pid =< Len(pipelines)
        BY <2>2, <4>1, Numbers DEF Busy, Local, PidsExist, Ids
      <4> QED BY <1>1, <1>4, <4>1, <4>2, BindingKeeps
    <3>2. CASE row'.pid = row.pid /\ row'.retried = row.retried /\ setbacks' = setbacks
      <4>1. NoneBeyond' /\ Budget' = Budget
        BY <1>1, <1>2, <3>2, Numbers, BudgetSteps, StayWithin DEF JInv
      <4>2. Remembered'
        BY <1>1, <1>2, <2>2, <3>2, RowStays DEF Busy
      <4>3. ProcessorRemembers' /\ MayForget'
        BY <1>1, <2>2, <3>2, <4>1
           DEF Busy, ProcessorRemembers, MayForget, ProcAt, Retries, Ids
      <4> QED BY <4>1, <4>2, <4>3
    <3>3. ASSUME NEW s, row' = [row EXCEPT !.state = s]
          PROVE  row'.pid = row.pid /\ row'.retried = row.retried
      BY <2>2, <3>3 DEF Rows
    <3> QED BY <1>2, <3>1, <3>2, <3>3, HookEffects
  <2> QED BY <2>1, <2>3 DEF JInv, Busy
<1> QED BY <1>3, <1>4
-----------------------------------------------------------------------------
(* The theorem *)

LEMMA InitJ ==
    ASSUME Init
    PROVE  JInv
<1>1. /\ Len(pipelines) = 0 /\ Ids = {} /\ row.pid = 0 /\ row.retried = 0
      /\ row.state = "rebasing"
      /\ proc.pc = "capture" /\ proc.seen.id = 0
      /\ \A h \in Hooks : hooks[h].pc = "idle" /\ hooks[h].pid = 0
  <2>1. 1 .. 0 = {}
    OBVIOUS
  <2> QED BY <2>1 DEF Init, Ids, At, Nobody, IdleHook
<1>2. NoneBeyond /\ Remembered
  BY <1>1 DEF NoneBeyond, Remembered, NewerAreFresh, RowRemembers
<1>3. PidsExist /\ RebasedAlone
  BY <1>1 DEF PidsExist, RebasedAlone
<1>4. CountsInRange
  BY <1>1, WaitConstants DEF CountsInRange, ProcAt, Testing
<1>5. SeenWasLatest /\ ProcessorRemembers /\ MayForget /\ ~ProcAt("done")
  BY <1>1 DEF SeenWasLatest, ProcessorRemembers, MayForget, ProcAt, Testing
<1> QED BY <1>2, <1>3, <1>4, <1>5 DEF JInv, Busy, Local

LEMMA WaitKeeps ==
    ASSUME IInv, IInv', JInv, WaitPhase
    PROVE  JInv'
BY StartRoundKeeps, CheckRebaseKeeps, AgainKeeps, MatchAgainKeeps, ForgetKeeps, CheckStaleKeeps,
   FollowKeeps, HandleStatusKeeps, FetchJobsKeeps, PostRetryKeeps, SaveKeeps DEF WaitPhase

LEMMA NextJ ==
    ASSUME IInv, IInv', JInv, [Next]_vars
    PROVE  JInv'
<1>1. CASE Processor
  BY <1>1, RebaseKeeps, WaitKeeps, MergeKeeps DEF Processor
<1>2. CASE UNCHANGED vars
  BY <1>2, QuietSame, WorldMoves DEF vars
<1> QED BY <1>1, <1>2, GitLabKeeps, HandlerKeeps, CrashKeeps DEF Next

LEMMA BoundedRetries ==
    ASSUME IInv, JInv
    PROVE  JobRetriesBounded
<1>1. MaxJobRetries \in Nat /\ setbacks \in Nat /\ crashes \in Nat
  BY Numbers
<1>2. MaxJobRetries * (1 + setbacks) = MaxJobRetries * setbacks + MaxJobRetries
  BY <1>1
<1>3. MaxJobRetries * setbacks \in Nat
  BY <1>1
<1>4. \A i \in Ids : Retries(i) =< MaxJobRetries * (1 + setbacks) + crashes
  BY <1>1, <1>2, <1>3, Numbers DEF JInv, NoneBeyond, Budget
<1> QED BY <1>4 DEF JobRetriesBounded, Retries

(***************************************************************************)
(* job_retry_count: whatever the handlers, pushes, rebases and crashes do, *)
(* a pipeline's job is retried at most that often for every time the row   *)
(* was bound back to it or to an older one, once before that, and once     *)
(* more for every crash.                                                   *)
(***************************************************************************)
THEOREM RetriesAreBounded == Spec => []JobRetriesBounded
<1>1. Init => IInv /\ JInv
  BY InitIInv, InitJ
<1>2. IInv /\ JInv /\ [Next]_vars => IInv' /\ JInv'
  BY NextIInv, NextJ
<1>3. IInv /\ JInv => JobRetriesBounded
  BY BoundedRetries
<1> QED BY <1>1, <1>2, <1>3, PTL DEF Spec
=============================================================================
