------------------------- MODULE PipelineWaitProofs -------------------------
(***************************************************************************)
(* Theorems about PipelineWait, for every number of webhook handlers,      *)
(* commits, pipelines, retries, rebases and crashes.                       *)
(*                                                                         *)
(* The argument rests on one fact about GitLab: a pipeline that succeeded  *)
(* stays as it is, so a commit that is tested stays tested (Grows).  What  *)
(* the processor knows of a success is therefore never out of date; what   *)
(* it knows of the row's commit is not either, because only the processor  *)
(* itself changes expected_sha.                                            *)
(***************************************************************************)
EXTENDS PipelineWait, SequenceTheorems, WellFoundedInduction, TLAPS

(* What the processor holds while it goes from a fetched pipeline to the     *)
(* merge.                                                                    *)
Knowledge ==
    /\ proc.seen.status = "success" => Tested(proc.seen.sha)
    /\ ProcAt("status") => proc.seen.sha = row.sha
    /\ ProcAt("put") => proc.mr = row.sha
    /\ MergingIsTested

IInv == TypeOK /\ Knowledge

Grows == \A c : Tested(c) => Tested(c)'
-----------------------------------------------------------------------------
(* Numbers *)

LEMMA MaxOfTwo ==
    ASSUME NEW m \in Nat, NEW n \in Nat
    PROVE  Max({m, n}) \in Nat
<1>1. \E x \in {m, n} : \A y \in {m, n} : x >= y
  <2>1. CASE m >= n
    BY <2>1
  <2>2. CASE n >= m
    BY <2>2
  <2> QED BY <2>1, <2>2
<1>2. Max({m, n}) \in {m, n}
  BY <1>1 DEF Max
<1> QED BY <1>2

(* The largest of some numbers up to n is the one that is least below n.     *)
LEMMA MaxOfSome ==
    ASSUME NEW n \in Nat, NEW S, S \subseteq 1 .. n, S # {}
    PROVE  Max(S) \in S /\ Max(S) \in Nat
<1> DEFINE Gaps == {n - x : x \in S}
<1>1. Gaps \subseteq Nat /\ Gaps # {}
  <2>1. \A x \in S : x \in 1 .. n /\ n - x \in Nat
    OBVIOUS
  <2>2. PICK x \in S : TRUE
    OBVIOUS
  <2>3. n - x \in Gaps
    OBVIOUS
  <2> QED BY <2>1, <2>3
<1>2. \E g \in Gaps : \A f \in Gaps : ~ (<<f, g>> \in OpToRel(<, Nat))
  <2>1. IsWellFoundedOn(OpToRel(<, Nat), Nat)
    BY NatLessThanWellFounded
  <2> QED BY <2>1, <1>1, WFMin
<1>3. PICK g \in Gaps : \A f \in Gaps : ~ (<<f, g>> \in OpToRel(<, Nat))
  BY <1>2
<1>4. \A f \in Gaps : ~(f < g)
  BY <1>1, <1>3 DEF OpToRel
<1>5. PICK x \in S : g = n - x
  OBVIOUS
<1>6. \A y \in S : x >= y
  BY <1>4, <1>5
<1>7. Max(S) \in S
  BY <1>6 DEF Max
<1>8. S \subseteq Nat
  OBVIOUS
<1> HIDE DEF Gaps
<1> QED BY <1>7, <1>8
-----------------------------------------------------------------------------
(* Pipelines *)

LEMMA PipelineTypes ==
    ASSUME TypeOK
    PROVE  /\ Len(pipelines) \in Nat /\ DOMAIN pipelines = Ids
           /\ \A i \in Ids : pipelines[i] \in Pipes
           /\ Commits \subseteq Nat
           /\ Latest \in Seen
           /\ Latest.status = "success" => Tested(Latest.sha)
           /\ Latest.id # 0 => Latest.id \in Ids
<1>1. Len(pipelines) \in Nat /\ DOMAIN pipelines = Ids /\ \A i \in Ids : pipelines[i] \in Pipes
  BY ElementOfSeq DEF TypeOK, Ids
<1>2. Commits \subseteq Nat
  BY WaitConstants DEF Commits
<1>3. CASE pipelines = <<>>
  <2>1. Latest = Nobody
    BY <1>3 DEF Latest
  <2> QED BY <1>1, <1>2, <2>1 DEF Nobody, Seen, Statuses
<1>4. CASE pipelines # <<>>
  <2>1. Len(pipelines) \in Ids
    BY <1>4, <1>1, EmptySeq DEF TypeOK, Ids
  <2>2. Latest = [id |-> Len(pipelines), sha |-> pipelines[Len(pipelines)].sha,
                  status |-> pipelines[Len(pipelines)].status]
    BY <1>4 DEF Latest
  <2>3. pipelines[Len(pipelines)] \in Pipes
    BY <2>1, <1>1
  <2> QED BY <1>1, <1>2, <2>1, <2>2, <2>3 DEF Seen, Pipes, Tested
<1> QED BY <1>3, <1>4

(* A new pipeline takes nothing away. *)
LEMMA PipelineAdded ==
    ASSUME TypeOK, pipelines' = Append(pipelines, NewPipeline)
    PROVE  pipelines' \in Seq(Pipes) /\ Grows
<1>1. NewPipeline \in Pipes
  BY DEF NewPipeline, TypeOK, Pipes, Statuses
<1>2. /\ pipelines' \in Seq(Pipes) /\ Len(pipelines') = Len(pipelines) + 1
      /\ \A i \in 1 .. Len(pipelines) : pipelines'[i] = pipelines[i]
  BY <1>1, AppendProperties DEF TypeOK
<1>3. Len(pipelines) \in Nat
  BY PipelineTypes
<1> QED BY <1>2, <1>3 DEF Grows, Tested, Ids

(* Neither does a pipeline that changes before it has succeeded. *)
LEMMA PipelineChanged ==
    ASSUME TypeOK, NEW i \in Ids, pipelines[i].status # "success",
           NEW p \in Pipes, p.sha = pipelines[i].sha,
           pipelines' = [pipelines EXCEPT ![i] = p]
    PROVE  pipelines' \in Seq(Pipes) /\ Grows
<1>1. /\ pipelines' \in Seq(Pipes) /\ Len(pipelines') = Len(pipelines)
      /\ \A j \in 1 .. Len(pipelines) : pipelines'[j] = IF j = i THEN p ELSE pipelines[j]
  BY ExceptSeq DEF TypeOK, Ids
<1> QED BY <1>1 DEF Grows, Tested, Ids

LEMMA StatusChanged ==
    ASSUME TypeOK, NEW i \in Ids, pipelines[i].status # "success", NEW s \in Statuses,
           pipelines' = [pipelines EXCEPT ![i].status = s]
    PROVE  pipelines' \in Seq(Pipes) /\ Grows
<1> DEFINE p == [pipelines[i] EXCEPT !.status = s]
<1>1. pipelines[i] \in Pipes
  BY PipelineTypes
<1>2. p \in Pipes /\ p.sha = pipelines[i].sha
  BY <1>1 DEF Pipes
<1>3. pipelines' = [pipelines EXCEPT ![i] = p]
  OBVIOUS
<1> HIDE DEF p
<1> QED BY <1>2, <1>3, PipelineChanged

LEMMA PipelinesKept ==
    ASSUME TypeOK, UNCHANGED pipelines
    PROVE  pipelines' \in Seq(Pipes) /\ Grows
BY DEF TypeOK, Grows, Tested, Ids
-----------------------------------------------------------------------------
(* The processor's steps *)

Rows == [state : {"rebasing", "testing", "merging", "merged", "failed"},
         pid : Nat, sha : Nat, retried : Nat]

World == [head : Commits, behind : BOOLEAN, merged : Nat]

(* Most steps leave the processor short of a verdict, with a pipeline it     *)
(* had, has just fetched, or none.                                           *)
Undecided ==
    /\ row' \in Rows /\ proc' \in Processors
    /\ proc'.seen \in {Nobody, proc.seen, Latest}
    /\ proc'.pc \notin {"status", "merge", "put"}

LEMMA UndecidedKnows ==
    ASSUME IInv, Grows, Undecided
    PROVE  Knowledge'
<1>1. Latest.status = "success" => Tested(Latest.sha)
  BY PipelineTypes DEF IInv
<1>2. Nobody.status # "success"
  BY DEF Nobody
<1>3. proc'.seen.status = "success" => Tested(proc'.seen.sha)
  BY <1>1, <1>2 DEF Undecided, IInv, Knowledge
<1>4. (proc.seen.status = "success" => Tested(proc.seen.sha))'
  BY <1>3 DEF Grows, Tested, Ids
<1> QED BY <1>4 DEF Undecided, Knowledge, ProcAt, MergingIsTested

(* Others leave the processor and the row's commit alone. *)
LEMMA OthersKnow ==
    ASSUME IInv, Grows, proc' = proc, row'.sha = row.sha
    PROVE  Knowledge'
BY DEF IInv, Grows, Knowledge, ProcAt, MergingIsTested

LEMMA AtType ==
    ASSUME NEW pc \in Rebasing \cup Testing \cup {"merge", "put", "done"}
    PROVE  At(pc) \in Processors /\ At(pc).seen = Nobody /\ At(pc).pc = pc
BY DEF At, Processors, Nobody, Seen, Statuses

LEMMA FailType ==
    ASSUME TypeOK, Fail
    PROVE  Undecided
<1>1. row' \in Rows
  BY DEF Fail, TypeOK, Rows
<1>2. proc' \in Processors /\ proc'.seen = Nobody /\ proc'.pc = "done"
  BY AtType DEF Fail
<1> QED BY <1>1, <1>2 DEF Undecided

LEMMA EnterTestingType ==
    ASSUME TypeOK, NEW pid \in Nat, NEW sha \in Nat, EnterTesting(pid, sha)
    PROVE  Undecided /\ elapsed' \in BOOLEAN
<1>1. row' \in Rows
  BY DEF EnterTesting, TypeOK, Rows
<1>2. At("check") \in Processors /\ At("check").seen = Nobody /\ At("check").pc = "check"
  BY AtType DEF Testing
<1>3. row.retried \in Nat
  BY DEF TypeOK
<1>4. proc' \in Processors /\ proc'.seen = Nobody /\ proc'.pc = "check"
  BY <1>2, <1>3 DEF EnterTesting, Processors
<1> QED BY <1>1, <1>4 DEF Undecided, EnterTesting

LEMMA ToType ==
    ASSUME TypeOK, NEW pc \in Rebasing \cup Testing \cup {"done"}, pc # "status", ProcTo(pc),
           UNCHANGED row
    PROVE  Undecided
BY DEF TypeOK, ProcTo, Undecided, Rows, Processors, Rebasing, Testing

LEMMA NextRoundType ==
    ASSUME TypeOK, NextRound
    PROVE  /\ proc' \in Processors /\ proc'.seen = Nobody
           /\ proc'.pc = "check"
<1>1. Nobody \in Seen
  BY DEF Nobody, Seen, Statuses
<1> QED BY <1>1 DEF TypeOK, NextRound, Processors, Testing

LEMMA RebaseType ==
    ASSUME TypeOK, RebaseInGitLab
    PROVE  gitlab' \in World
<1>1. gitlab \in World /\ gitlab.head \in Commits /\ gitlab.head + 1 \in Commits
  BY WaitConstants DEF TypeOK, RebaseInGitLab, World, Commits
<1> QED BY <1>1 DEF RebaseInGitLab, World

(* The row's fields other than these may not change without the processor.   *)
LEMMA Elsewhere ==
    ASSUME IInv, Undecided, Grows, pipelines' \in Seq(Pipes), gitlab' \in World,
           elapsed' \in BOOLEAN, UNCHANGED <<hooks, counts>>
    PROVE  IInv'
<1>1. TypeOK'
  BY DEF IInv, TypeOK, Undecided, Rows, World, counts
<1> QED BY <1>1, UndecidedKnows DEF IInv
-----------------------------------------------------------------------------
(* The steps, one after the other *)

LEMMA GitLabStep ==
    ASSUME IInv, GitLabAndUsers
    PROVE  IInv'
<1>1. TypeOK
  BY DEF IInv
<1>2. gitlab' \in World /\ acts' \in Nat
  <2>1. gitlab \in World /\ acts \in Nat
    BY <1>1 DEF TypeOK, World
  <2>2. CASE UserPushes
    <3>1. gitlab.head + 1 \in Commits
      BY <2>2, <2>1, WaitConstants DEF UserPushes, World, Commits
    <3>2. gitlab' \in World
      BY <2>1, <2>2, <3>1 DEF UserPushes, World
    <3>3. Act(2)
      BY <2>2 DEF UserPushes
    <3>4. acts' \in Nat
      BY <2>1, <3>3 DEF Act
    <3> QED BY <3>2, <3>4
  <2>3. CASE UserRetries \/ TargetMoves
    <3>1. Act(2) /\ gitlab' \in World
      BY <2>1, <2>3 DEF UserRetries, TargetMoves, World
    <3>2. acts' \in Nat
      BY <2>1, <3>1 DEF Act
    <3> QED BY <3>1, <3>2
  <2>4. CASE PipelineStarts
    <3>1. gitlab' = gitlab /\ (acts' = acts \/ Act(1))
      BY <2>4 DEF PipelineStarts
    <3>2. acts' \in Nat
      BY <2>1, <3>1 DEF Act
    <3> QED BY <2>1, <3>1, <3>2
  <2>5. CASE PipelineEnds \/ TimePasses
    BY <2>1, <2>5 DEF PipelineEnds, TimePasses, world, counts
  <2> QED BY <2>2, <2>3, <2>4, <2>5 DEF GitLabAndUsers
<1>3. pipelines' \in Seq(Pipes) /\ Grows
  <2>1. CASE PipelineStarts
    BY <1>1, <2>1, PipelineAdded DEF PipelineStarts
  <2>2. CASE PipelineEnds
    <3>1. PICK i \in Ids, s \in Statuses :
             /\ pipelines[i].status = "running"
             /\ pipelines' = [pipelines EXCEPT ![i].status = s]
      BY <2>2 DEF PipelineEnds
    <3> QED BY <1>1, <3>1, StatusChanged
  <2>3. CASE UserRetries
    <3>1. PICK i \in Ids :
             /\ pipelines[i].status \in {"failed", "canceled"}
             /\ pipelines' = [pipelines EXCEPT ![i].status = "running"]
      BY <2>3 DEF UserRetries
    <3>2. "running" \in Statuses
      BY DEF Statuses
    <3> QED BY <1>1, <3>1, <3>2, StatusChanged
  <2> QED BY <1>1, <2>1, <2>2, <2>3, PipelinesKept
          DEF GitLabAndUsers, UserPushes, TargetMoves, TimePasses, world
<1>4. UNCHANGED <<row, proc, hooks, crashes, setbacks>> /\ elapsed' \in BOOLEAN
  BY <1>1 DEF GitLabAndUsers, UserPushes, TargetMoves, PipelineStarts, PipelineEnds,
              UserRetries, TimePasses, world, counts, TypeOK
<1>5. TypeOK'
  BY <1>1, <1>2, <1>3, <1>4 DEF TypeOK, World
<1> QED BY <1>3, <1>4, <1>5, OthersKnow DEF IInv

LEMMA RebaseStep ==
    ASSUME IInv, RebasePhase
    PROVE  IInv'
<1>1. TypeOK /\ gitlab \in World /\ Commits \subseteq Nat /\ Latest \in Seen /\ Nobody \in Seen
  BY PipelineTypes DEF IInv, TypeOK, World, Nobody, Seen, Statuses
<1>2. UNCHANGED <<hooks, counts>>
  BY DEF RebasePhase, CaptureMergeRequest, CapturePipeline, StartWithoutRebase, Rebase,
         ReadMovedHead, MatchPipeline, world
<1>3. Undecided /\ elapsed' \in BOOLEAN
  <2>1. CASE CaptureMergeRequest
    BY <1>1, <2>1 DEF CaptureMergeRequest, TypeOK, Undecided, Rows, Processors, Rebasing, World
  <2>2. CASE CapturePipeline
    <3>1. At("rebase") \in Processors /\ At("rebase").seen = Nobody /\ At("rebase").pc = "rebase"
      BY AtType DEF Rebasing
    <3>2. At("reuse") \in Processors /\ At("reuse").pc = "reuse"
      BY AtType DEF Rebasing
    <3>3. proc' \in Processors /\ proc'.seen \in {Nobody, Latest} /\ proc'.pc \in {"rebase", "reuse"}
      BY <1>1, <2>2, <3>1, <3>2 DEF CapturePipeline, TypeOK, Processors
    <3> QED BY <1>1, <2>2, <3>3 DEF CapturePipeline, Undecided, TypeOK, Rows
  <2>3. CASE StartWithoutRebase
    <3>1. proc.seen.id \in Nat /\ proc.mr \in Nat /\ Len(pipelines) + 1 \in Nat
      BY <1>1, PipelineTypes DEF TypeOK, Processors, Seen
    <3>2. CASE EnterTesting(proc.seen.id, proc.mr)
      BY <1>1, <3>1, <3>2, EnterTestingType
    <3>3. CASE EnterTesting(Len(pipelines) + 1, proc.mr)
      BY <1>1, <3>1, <3>3, EnterTestingType
    <3>4. CASE ProcTo("capture") /\ UNCHANGED <<row, elapsed>>
      BY <1>1, <3>4, ToType DEF Rebasing, TypeOK
    <3>5. CASE Fail /\ UNCHANGED elapsed
      BY <1>1, <3>5, FailType DEF TypeOK
    <3> QED BY <2>3, <3>2, <3>3, <3>4, <3>5 DEF StartWithoutRebase
  <2>4. CASE Rebase
    <3>1. CASE Fail
      BY <1>1, <2>4, <3>1, FailType DEF Rebase, TypeOK
    <3>2. CASE ProcTo("moved") /\ UNCHANGED row
      BY <1>1, <2>4, <3>2, ToType DEF Rebase, Rebasing, TypeOK
    <3> QED BY <2>4, <3>1, <3>2 DEF Rebase
  <2>5. CASE ReadMovedHead
    BY <1>1, <2>5 DEF ReadMovedHead, TypeOK, Undecided, Rows, Processors, Rebasing, World, ProcAt
  <2>6. CASE MatchPipeline
    <3>1. Latest.id \in Nat /\ proc.mr \in Nat
      BY <1>1 DEF TypeOK, Processors, Seen
    <3>2. CASE EnterTesting(Latest.id, proc.mr)
      BY <1>1, <3>1, <3>2, EnterTestingType
    <3>3. CASE ProcTo("moved") /\ UNCHANGED <<row, elapsed>>
      BY <1>1, <3>3, ToType DEF Rebasing, TypeOK
    <3>4. CASE Fail /\ UNCHANGED elapsed
      BY <1>1, <3>4, FailType DEF TypeOK
    <3> QED BY <2>6, <3>2, <3>3, <3>4 DEF MatchPipeline
  <2> QED BY <2>1, <2>2, <2>3, <2>4, <2>5, <2>6 DEF RebasePhase
<1>4. pipelines' \in Seq(Pipes) /\ Grows
  BY <1>1, PipelineAdded, PipelinesKept
     DEF RebasePhase, CaptureMergeRequest, CapturePipeline, StartWithoutRebase, Rebase,
         ReadMovedHead, MatchPipeline, world
<1>5. gitlab' \in World
  BY <1>1, RebaseType
     DEF RebasePhase, CaptureMergeRequest, CapturePipeline, StartWithoutRebase, Rebase,
         ReadMovedHead, MatchPipeline, world
<1> QED BY <1>2, <1>3, <1>4, <1>5, Elsewhere

(* The steps of the wait that take no verdict. *)
RoundSteps ==
    \/ StartRound
    \/ CheckRebase \/ RebaseAgain \/ ReadHeadAgain \/ MatchPipelineAgain \/ GiveUpNewPipeline
    \/ ForgetRetries \/ SwitchToSeen \/ RecoverFromStale
    \/ FetchJobs \/ PostRetry \/ SaveRetries

LEMMA RoundStep ==
    ASSUME IInv, RoundSteps
    PROVE  IInv'
<1>1. TypeOK /\ gitlab \in World /\ Commits \subseteq Nat /\ Latest \in Seen /\ Nobody \in Seen
  BY PipelineTypes DEF IInv, TypeOK, World, Nobody, Seen, Statuses
<1>2. UNCHANGED <<hooks, counts>>
  BY DEF RoundSteps, StartRound, CheckRebase, RebaseAgain, ReadHeadAgain, MatchPipelineAgain,
         GiveUpNewPipeline, ForgetRetries, SwitchToSeen, RecoverFromStale, FetchJobs,
         PostRetry, SaveRetries, world
<1>3. Undecided
  <2>0. Fail => Undecided
    BY <1>1, FailType
  <2>1. CASE StartRound
    <3>1. CASE UNCHANGED <<proc, row>>
      BY <1>1, <2>1, <3>1 DEF StartRound, ProcAt, TypeOK, Undecided, Rows
    <3>2. CASE /\ \E chance \in BOOLEAN : proc' = [proc EXCEPT !.pc = "ready", !.seen = Latest,
                                                         !.lastChance = chance]
               /\ UNCHANGED row
      BY <1>1, <3>2 DEF TypeOK, Undecided, Rows, Processors, Testing
    <3>3. CASE proc' = [proc EXCEPT !.pc = "ready", !.seen = Latest] /\ UNCHANGED row
      BY <1>1, <3>3 DEF TypeOK, Undecided, Rows, Processors, Testing
    <3> QED BY <2>0, <2>1, <3>1, <3>2, <3>3 DEF StartRound, Fetch
  <2>2. CASE CheckRebase
    BY <1>1, <2>0, <2>2, ToType DEF CheckRebase, Testing
  <2>3. CASE RebaseAgain
    BY <1>1, <2>0, <2>3, ToType DEF RebaseAgain, Testing
  <2>4. CASE ReadHeadAgain
    BY <1>1, <2>4 DEF ReadHeadAgain, TypeOK, Undecided, Rows, Processors, Testing, World
  <2>5. CASE MatchPipelineAgain
    <3>1. CASE ProcTo("movedAgain") /\ UNCHANGED row
      BY <1>1, <3>1, ToType DEF Testing
    <3>2. CASE /\ row' = [row EXCEPT !.state = "testing", !.pid = Latest.id, !.sha = Latest.sha]
               /\ proc' = [proc EXCEPT !.pc = "forget", !.rebases = @ + 1]
      <4>1. row' \in Rows
        BY <1>1, <3>2 DEF TypeOK, Rows, Seen
      <4>2. proc \in Processors /\ proc.rebases + 1 \in Nat
        BY <1>1 DEF TypeOK, Processors
      <4>3. proc' \in Processors /\ proc'.seen = proc.seen /\ proc'.pc = "forget"
        BY <3>2, <4>2 DEF Processors, Testing
      <4> QED BY <4>1, <4>3 DEF Undecided
    <3> QED BY <2>5, <2>0, <3>1, <3>2 DEF MatchPipelineAgain
  <2>6. CASE GiveUpNewPipeline
    <3>1. proc \in Processors /\ proc.rebases + 1 \in Nat
      BY <1>1 DEF TypeOK, Processors
    <3>2. proc' \in Processors /\ proc'.seen = proc.seen /\ proc'.pc = "stale"
      BY <2>6, <3>1 DEF GiveUpNewPipeline, Processors, Testing
    <3> QED BY <1>1, <2>6, <3>2 DEF GiveUpNewPipeline, Undecided, TypeOK, Rows
  <2>7. CASE ForgetRetries
    BY <1>1, <2>7 DEF ForgetRetries, TypeOK, Undecided, Rows, Processors, Testing
  <2>8. ASSUME NEW sha \in Nat, FollowSeen(sha)
        PROVE  Undecided
    <3>1. row' \in Rows
      BY <1>1, <2>8 DEF FollowSeen, TypeOK, Rows, Processors, Seen
    <3>2. proc' \in Processors /\ proc'.seen = Nobody /\ proc'.pc = "check"
      BY <1>1, <2>8 DEF FollowSeen, TypeOK, Processors, Testing
    <3> QED BY <3>1, <3>2 DEF Undecided
  <2>9. CASE SwitchToSeen
    BY <1>1, <2>8, <2>9 DEF SwitchToSeen, TypeOK
  <2>10. NextRound /\ (UNCHANGED row \/ row' \in Rows) => Undecided
    BY <1>1, NextRoundType DEF Undecided, TypeOK, Rows
  <2>11. CASE RecoverFromStale
    BY <1>1, <2>8, <2>10, <2>11 DEF RecoverFromStale, TypeOK, Processors, Seen
  <2>12. CASE FetchJobs
    BY <1>1, <2>0, <2>10, <2>12, ToType DEF FetchJobs, Testing
  <2>13. CASE PostRetry
    <3>1. CASE proc' = [proc EXCEPT !.pc = "save", !.retried = @ + 1] /\ UNCHANGED row
      <4>1. proc \in Processors /\ proc.retried + 1 \in Nat
        BY <1>1 DEF TypeOK, Processors
      <4>2. proc' \in Processors /\ proc'.seen = proc.seen /\ proc'.pc = "save"
        BY <3>1, <4>1 DEF Processors, Testing
      <4> QED BY <1>1, <3>1, <4>2 DEF Undecided, TypeOK, Rows
    <3> QED BY <2>0, <2>10, <2>13, <3>1 DEF PostRetry
  <2>14. CASE SaveRetries
    <3>1. row' \in Rows
      BY <1>1, <2>14 DEF SaveRetries, TypeOK, Rows, Processors
    <3> QED BY <2>10, <2>14, <3>1 DEF SaveRetries
  <2> QED BY <2>1, <2>2, <2>3, <2>4, <2>5, <2>6, <2>7, <2>9, <2>11, <2>12, <2>13, <2>14
          DEF RoundSteps
<1>4. elapsed' \in BOOLEAN
  BY <1>1 DEF RoundSteps, StartRound, CheckRebase, RebaseAgain, ReadHeadAgain, MatchPipelineAgain,
         GiveUpNewPipeline, ForgetRetries, SwitchToSeen, RecoverFromStale, FetchJobs,
         PostRetry, SaveRetries, FollowSeen, TypeOK
<1>5. pipelines' \in Seq(Pipes) /\ Grows
  <2>1. UNCHANGED pipelines => pipelines' \in Seq(Pipes) /\ Grows
    BY <1>1, PipelinesKept
  <2>2. CASE CheckRebase
    <3> DEFINE i == proc.seen.id
               q == [pipelines EXCEPT ![i].status = IF @ = "running" THEN "canceled" ELSE @]
    <3>1. CASE pipelines' = q /\ i \in Ids /\ pipelines[i].status = "running"
      <4>1. pipelines' = [pipelines EXCEPT ![i].status = "canceled"]
        BY <3>1
      <4>2. "canceled" \in Statuses /\ pipelines[i].status # "success"
        BY <3>1 DEF Statuses
      <4> QED BY <1>1, <3>1, <4>1, <4>2, StatusChanged
    <3>2. CASE pipelines' = q /\ i \in Ids /\ pipelines[i].status # "running"
      <4>1. pipelines \in Seq(Pipes) /\ pipelines[i] \in Pipes
        BY <1>1, <3>2, PipelineTypes DEF TypeOK
      <4>2. pipelines' = [pipelines EXCEPT ![i] = pipelines[i]]
        BY <3>2, <4>1 DEF Pipes
      <4>3. /\ pipelines' \in Seq(Pipes) /\ Len(pipelines') = Len(pipelines)
            /\ \A j \in 1 .. Len(pipelines) : pipelines'[j] = pipelines[j]
        BY <3>2, <4>1, <4>2, ExceptSeq DEF Ids
      <4>4. pipelines' = pipelines
        BY <4>1, <4>3, SeqEqual
      <4> QED BY <2>1, <4>4
    <3>3. CASE pipelines' = q /\ i \notin Ids
      <4>1. DOMAIN pipelines = Ids
        BY <1>1, PipelineTypes
      <4>2. pipelines' = pipelines
        BY <1>1, <3>3, <4>1 DEF TypeOK
      <4> QED BY <2>1, <4>2
    <3> QED BY <2>1, <2>2, <3>1, <3>2, <3>3 DEF CheckRebase
  <2>3. CASE PostRetry
    <3> DEFINE i == proc.seen.id
               p == [pipelines[i] EXCEPT !.status = "running", !.retries = @ + 1]
    <3>1. CASE /\ i \in Ids /\ pipelines[i].status = "failed"
               /\ pipelines' = [pipelines EXCEPT ![i].status = "running", ![i].retries = @ + 1]
      <4>1. pipelines[i] \in Pipes
        BY <1>1, <3>1, PipelineTypes
      <4>2. p \in Pipes /\ p.sha = pipelines[i].sha
        <5>1. pipelines[i].retries + 1 \in Nat /\ "running" \in Statuses
          BY <4>1 DEF Pipes, Statuses
        <5> QED BY <4>1, <5>1 DEF Pipes
      <4>3. pipelines' = [pipelines EXCEPT ![i] = p]
        BY <1>1, <3>1, <4>1, PipelineTypes DEF Pipes
      <4> HIDE DEF p
      <4> QED BY <1>1, <3>1, <4>2, <4>3, PipelineChanged
    <3>2. CASE /\ i \notin Ids
               /\ pipelines' = [pipelines EXCEPT ![i].status = "running", ![i].retries = @ + 1]
      <4>1. DOMAIN pipelines = Ids
        BY <1>1, PipelineTypes
      <4>2. pipelines' = pipelines
        BY <1>1, <3>2, <4>1 DEF TypeOK
      <4> QED BY <2>1, <4>2
    <3> QED BY <2>1, <2>3, <3>1, <3>2 DEF PostRetry
  <2> QED BY <2>1, <2>2, <2>3 DEF RoundSteps, StartRound, RebaseAgain, ReadHeadAgain,
         MatchPipelineAgain, GiveUpNewPipeline, ForgetRetries, SwitchToSeen, RecoverFromStale,
         FetchJobs, SaveRetries, world
<1>6. gitlab' \in World
  BY <1>1, RebaseType DEF RoundSteps, StartRound, CheckRebase, RebaseAgain, ReadHeadAgain,
         MatchPipelineAgain, GiveUpNewPipeline, ForgetRetries, SwitchToSeen, RecoverFromStale,
         FetchJobs, PostRetry, SaveRetries, world
<1> QED BY <1>2, <1>3, <1>4, <1>5, <1>6, Elsewhere

(* A verdict is only near when the pipeline is of the row's commit ...       *)
LEMMA StaleStep ==
    ASSUME IInv, CheckStale
    PROVE  IInv'
<1>1. TypeOK /\ proc \in Processors /\ proc.cancels + 1 \in Nat /\ row.sha \in Nat
  BY DEF IInv, TypeOK, Processors
<1>2. UNCHANGED <<world, row, elapsed, hooks>> /\ Nobody \in Seen
  BY DEF CheckStale, Nobody, Seen, Statuses
<1>3. Grows
  BY <1>1, <1>2, PipelinesKept DEF world
<1>4. CASE Undecided
  BY <1>2, <1>3, <1>4, <1>1, Elsewhere DEF world, TypeOK, World
<1>5. CASE /\ row.pid = proc.seen.id => OfRowsCommit(proc.seen)
           /\ row.pid = proc.seen.id
           /\ \E n \in Nat : proc' = [proc EXCEPT !.pc = "status", !.cancels = n]
  <2>1. proc' \in Processors /\ proc'.pc = "status" /\ proc'.seen = proc.seen
    BY <1>1, <1>5 DEF Processors, Testing
  <2>2. TypeOK'
    BY <1>1, <1>2, <2>1 DEF TypeOK, world, counts
  <2>3. Knowledge'
    BY <1>2, <1>3, <1>5, <2>1 DEF IInv, Knowledge, Grows, OfRowsCommit, ProcAt, MergingIsTested
  <2> QED BY <2>2, <2>3 DEF IInv
<1>6. row.pid \in Nat /\ proc.seen.id \in Nat
  BY <1>1 DEF TypeOK, Processors, Seen
<1>7. CASE row.pid # proc.seen.id /\ proc.seen.id > row.pid
  <2>1. \/ ProcTo("switch")
        \/ ProcTo("tracked")
    BY <1>7, <1>6 DEF CheckStale
  <2> QED BY <1>1, <1>2, <1>4, <2>1, ToType DEF Testing
<1>8. CASE NextRound
  BY <1>1, <1>2, <1>4, <1>8, NextRoundType DEF Undecided, TypeOK, Rows
<1>9. CASE proc' = [proc EXCEPT !.pc = "check", !.seen = Nobody, !.cancels = @ + 1]
  <2>1. proc' \in Processors /\ proc'.pc = "check" /\ proc'.seen = Nobody
    BY <1>1, <1>2, <1>9 DEF Processors, Testing
  <2> QED BY <1>1, <1>2, <1>4, <2>1 DEF Undecided, TypeOK, Rows
<1>10. CASE row.pid # proc.seen.id /\ ~(proc.seen.id > row.pid)
  <2>1. NextRound
    BY <1>6, <1>10 DEF CheckStale
  <2> QED BY <1>8, <2>1
<1>11. CASE row.pid = proc.seen.id /\ ~OfRowsCommit(proc.seen)
  <2>1. NextRound
    BY <1>6, <1>11 DEF CheckStale
  <2> QED BY <1>8, <2>1
<1>12. CASE row.pid = proc.seen.id /\ OfRowsCommit(proc.seen)
  <2>1. \/ proc' = [proc EXCEPT !.pc = "status", !.cancels = 0]
        \/ proc' = [proc EXCEPT !.pc = "check", !.seen = Nobody, !.cancels = @ + 1]
        \/ proc' = [proc EXCEPT !.pc = "status", !.cancels = @ + 1]
    BY <1>6, <1>12 DEF CheckStale
  <2>2. \/ \E n \in Nat : proc' = [proc EXCEPT !.pc = "status", !.cancels = n]
        \/ proc' = [proc EXCEPT !.pc = "check", !.seen = Nobody, !.cancels = @ + 1]
    BY <1>1, <2>1
  <2> QED BY <1>5, <1>9, <1>12, <2>2
<1> QED BY <1>7, <1>10, <1>11, <1>12

(* ... and it is for the merge only when that pipeline succeeded. *)
LEMMA StatusStep ==
    ASSUME IInv, HandleStatus
    PROVE  IInv'
<1>1. TypeOK /\ proc \in Processors /\ row \in Rows
  BY DEF IInv, TypeOK, Rows
<1>2. UNCHANGED <<world, elapsed, hooks>> /\ ProcAt("status")
  BY DEF HandleStatus
<1>3. Grows
  BY <1>1, <1>2, PipelinesKept DEF world
<1>4. CASE Undecided
  BY <1>2, <1>3, <1>4, <1>1, Elsewhere DEF world, TypeOK, World
<1>5. CASE /\ proc.seen.status = "success" /\ OfRowsCommit(proc.seen)
           /\ row' = [row EXCEPT !.state = "merging"]
           /\ proc' = At("merge")
  <2>1. proc' \in Processors /\ proc'.pc = "merge" /\ proc'.seen = Nobody
    BY <1>5, AtType
  <2>2. row' \in Rows /\ row'.sha = row.sha
    BY <1>1, <1>5 DEF Rows
  <2>3. TypeOK'
    BY <1>1, <1>2, <2>1, <2>2 DEF TypeOK, world, counts, Rows
  <2>4. Tested(row.sha)
    BY <1>5 DEF IInv, Knowledge, OfRowsCommit
  <2>5. Tested(row.sha)'
    BY <1>3, <2>2, <2>4 DEF Grows, Tested, Ids
  <2> QED BY <2>1, <2>3, <2>5 DEF IInv, Knowledge, ProcAt, MergingIsTested, Nobody
<1>6. CASE NextRound /\ (UNCHANGED row \/ row' \in Rows)
  BY <1>1, <1>4, <1>6, NextRoundType DEF Undecided
<1>7. CASE Fail
  BY <1>1, <1>4, <1>7, FailType
<1>8. CASE /\ proc' = [proc EXCEPT !.pc = "jobs", !.retried = Max({@, row.retried})]
           /\ UNCHANGED row
  <2>1. Max({proc.retried, row.retried}) \in Nat
    BY <1>1, MaxOfTwo DEF Processors, Rows
  <2>2. proc' \in Processors /\ proc'.pc = "jobs" /\ proc'.seen = proc.seen
    BY <1>1, <1>8, <2>1 DEF Processors, Testing
  <2> QED BY <1>1, <1>4, <1>8, <2>2 DEF Undecided
<1>9. CASE /\ Replacements # {}
           /\ row' = [row EXCEPT !.state = "testing", !.pid = Max(Replacements), !.retried = 0]
           /\ NextRound
  <2>1. Max(Replacements) \in Nat
    <3>1. Len(pipelines) \in Nat /\ Replacements \subseteq 1 .. Len(pipelines)
      BY <1>1, PipelineTypes DEF Replacements, Ids
    <3> QED BY <1>9, <3>1, MaxOfSome
  <2>2. row' \in Rows
    BY <1>1, <1>9, <2>1 DEF Rows
  <2> QED BY <1>6, <1>9, <2>2
<1> QED BY <1>5, <1>6, <1>7, <1>8, <1>9 DEF HandleStatus

LEMMA MergeStep ==
    ASSUME IInv, CheckMergeable \/ PutMerge
    PROVE  IInv'
<1>1. TypeOK /\ proc \in Processors /\ row \in Rows /\ gitlab \in World /\ Commits \subseteq Nat
  BY PipelineTypes DEF IInv, TypeOK, Rows, World
<1>2. UNCHANGED <<pipelines, elapsed, hooks, counts>>
  BY DEF CheckMergeable, PutMerge, world
<1>3. Grows
  BY <1>1, <1>2, PipelinesKept
<1>4. gitlab' \in World
  BY <1>1 DEF CheckMergeable, PutMerge, world, World
<1>5. CASE Undecided
  BY <1>1, <1>2, <1>3, <1>4, <1>5, Elsewhere DEF TypeOK
<1>6. CASE Fail
  BY <1>1, <1>5, <1>6, FailType
<1>7. CASE proc' = At("done") /\ row' \in {[row EXCEPT !.state = s] : s \in {"merged", "failed"}}
  <2>1. proc' \in Processors /\ proc'.pc = "done" /\ proc'.seen = Nobody
    BY <1>7, AtType
  <2>2. row' \in Rows
    BY <1>1, <1>7 DEF Rows
  <2> QED BY <1>5, <2>1, <2>2 DEF Undecided
<1>8. ASSUME proc' \in Processors, proc'.pc \in {"merge", "put"}, proc'.seen = proc.seen,
             proc'.pc = "put" => proc'.mr = row.sha, proc.pc \in {"merge", "put"}, UNCHANGED row
      PROVE  IInv'
  <2>1. TypeOK'
    BY <1>1, <1>2, <1>4, <1>8 DEF TypeOK, World, counts
  <2>2. Tested(row.sha) /\ (proc.seen.status = "success" => Tested(proc.seen.sha))
    BY <1>8 DEF IInv, Knowledge, MergingIsTested
  <2>3. MergingIsTested' /\ (proc.seen.status = "success" => Tested(proc.seen.sha))'
    BY <1>2, <1>8, <2>2 DEF Tested, Ids, MergingIsTested
  <2> QED BY <1>8, <2>1, <2>3 DEF IInv, Knowledge, ProcAt
<1>9. CASE /\ CheckMergeable /\ gitlab.head = row.sha
           /\ proc' = [proc EXCEPT !.pc = "put", !.mr = gitlab.head] /\ UNCHANGED row
  <2>1. gitlab.head \in Nat /\ proc.pc = "merge"
    BY <1>1, <1>9 DEF World, CheckMergeable, ProcAt
  <2>2. proc' \in Processors /\ proc'.pc = "put" /\ proc'.mr = row.sha /\ proc'.seen = proc.seen
    BY <1>1, <1>9, <2>1 DEF Processors
  <2> QED BY <1>8, <1>9, <2>1, <2>2
<1>10. CASE PutMerge /\ ProcTo("merge") /\ UNCHANGED row
  <2>1. proc' \in Processors /\ proc'.pc = "merge" /\ proc'.seen = proc.seen /\ proc.pc = "put"
    BY <1>1, <1>10 DEF Processors, ProcTo, ProcAt, PutMerge
  <2> QED BY <1>8, <1>10, <2>1
<1> QED BY <1>6, <1>7, <1>9, <1>10 DEF CheckMergeable, PutMerge

(* Webhooks write the row, but never its commit. *)
(* A handler leaves the row, writes its state, or binds it to a pipeline.    *)
LEMMA HookEffects ==
    ASSUME TypeOK, NEW h \in Hooks, Handler(h)
    PROVE  \/ row' = row /\ setbacks' = setbacks
           \/ /\ ~Decided
              /\ \E s \in {"testing", "merging"} :
                    row' = [row EXCEPT !.state = s] /\ setbacks' = setbacks
           \/ /\ ~Decided
              /\ \E pid \in Nat : BindRow(pid) /\ (pid = hooks[h].pid \/ pid \in Ids)
<1>1. CASE ReceivePipeline(h)
  BY <1>1 DEF ReceivePipeline, world, counts
<1>2. CASE HookSwitches(h)
  <2>1. hooks[h].pid \in Nat
    BY DEF TypeOK, HookTasks
  <2> QED BY <1>2, <2>1 DEF HookSwitches
<1>3. CASE HookWrites(h)
  <2> DEFINE newer == NewerOf(hooks[h].pid)
  <2>1. newer # {} => Max(newer) \in Nat /\ Max(newer) \in Ids
    <3>1. newer \subseteq 1 .. Len(pipelines) /\ Len(pipelines) \in Nat
      BY DEF NewerOf, Ids, TypeOK
    <3> HIDE DEF newer
    <3> QED BY <3>1, MaxOfSome DEF Ids
  <2> HIDE DEF newer
  <2>2. \/ ~Decided /\ newer # {} /\ BindRow(Max(newer))
        \/ row' = row /\ setbacks' = setbacks
        \/ ~Decided /\ row' = [row EXCEPT !.state = "merging"] /\ setbacks' = setbacks
        \/ ~Decided /\ row' = [row EXCEPT !.state = "testing"] /\ setbacks' = setbacks
    BY <1>3 DEF HookWrites, newer
  <2> QED BY <2>1, <2>2
<1> QED BY <1>1, <1>2, <1>3 DEF Handler

LEMMA HandlerStep ==
    ASSUME IInv, NEW h \in Hooks, Handler(h)
    PROVE  IInv'
<1>1. TypeOK /\ row \in Rows /\ hooks[h] \in HookTasks /\ Len(pipelines) \in Nat
  BY PipelineTypes DEF IInv, TypeOK, Rows
<1>2. UNCHANGED <<gitlab, pipelines, acts, crashes, proc, elapsed>>
  BY DEF Handler, ReceivePipeline, HookSwitches, HookWrites, world, counts
<1>3. Grows
  BY <1>1, <1>2, PipelinesKept
<1>4. hooks' \in [Hooks -> HookTasks]
  <2>1. hooks \in [Hooks -> HookTasks] /\ IdleHook \in HookTasks
    BY <1>1 DEF TypeOK, IdleHook, HookTasks
  <2>2. \E t \in HookTasks : HookTo(h, t)
    <3>1. CASE ReceivePipeline(h)
      <4>1. PICK i \in Ids : HookTo(h, [pc |-> IF i = row.pid THEN "write" ELSE "switch", pid |-> i])
        BY <3>1 DEF ReceivePipeline
      <4>2. [pc |-> IF i = row.pid THEN "write" ELSE "switch", pid |-> i] \in HookTasks
        BY <1>1 DEF HookTasks, Ids
      <4> QED BY <4>1, <4>2
    <3>2. CASE HookSwitches(h)
      <4>1. [hooks[h] EXCEPT !.pc = "write"] \in HookTasks
        BY <1>1 DEF HookTasks
      <4> QED BY <2>1, <3>2, <4>1 DEF HookSwitches
    <3>3. CASE HookWrites(h)
      BY <2>1, <3>3 DEF HookWrites
    <3> QED BY <3>1, <3>2, <3>3 DEF Handler
  <2>3. PICK t \in HookTasks : HookTo(h, t)
    BY <2>2
  <2> QED BY <2>1, <2>3 DEF HookTo
<1>5. row' \in Rows /\ row'.sha = row.sha /\ setbacks' \in Nat
  <2>1. setbacks \in Nat
    BY <1>1 DEF TypeOK
  <2>2. CASE row' = row /\ setbacks' = setbacks
    BY <1>1, <2>1, <2>2
  <2>3. CASE \E s \in {"testing", "merging"} : row' = [row EXCEPT !.state = s] /\ setbacks' = setbacks
    BY <1>1, <2>1, <2>3 DEF Rows
  <2>4. CASE \E pid \in Nat : BindRow(pid)
    <3>1. PICK pid \in Nat : row' = [row EXCEPT !.state = "testing", !.pid = pid, !.retried = 0]
      BY <2>4 DEF BindRow
    <3>2. setbacks' \in Nat
      BY <2>1, <2>4 DEF BindRow
    <3> QED BY <1>1, <3>1, <3>2 DEF Rows
  <2> QED BY <1>1, <2>2, <2>3, <2>4, HookEffects
<1>7. TypeOK'
  BY <1>1, <1>2, <1>4, <1>5 DEF TypeOK, Rows
<1> QED BY <1>2, <1>3, <1>5, <1>7, OthersKnow DEF IInv

LEMMA CrashStep ==
    ASSUME IInv, Crash
    PROVE  IInv'
<1>1. TypeOK /\ row \in Rows
  BY DEF IInv, TypeOK, Rows
<1>2. proc' \in Processors /\ proc'.pc = "capture" /\ proc'.seen = Nobody
  BY AtType DEF Crash, Rebasing
<1>3. row' \in Rows
  BY <1>1 DEF Crash, Rows
<1>4. hooks' \in [Hooks -> HookTasks] /\ acts' \in Nat /\ crashes' \in Nat
  BY <1>1 DEF Crash, Act, IdleHook, HookTasks, TypeOK
<1>5. UNCHANGED <<gitlab, pipelines, setbacks>> /\ elapsed' \in BOOLEAN
  BY DEF Crash
<1>6. TypeOK'
  BY <1>1, <1>2, <1>3, <1>4, <1>5 DEF TypeOK, Rows
<1>7. Grows
  BY <1>1, <1>5, PipelinesKept
<1>8. Knowledge'
  BY <1>2, <1>3, <1>7, UndecidedKnows DEF Undecided
<1> QED BY <1>6, <1>8 DEF IInv
-----------------------------------------------------------------------------
(* The theorems *)

LEMMA InitIInv == Init => IInv
<1> SUFFICES ASSUME Init PROVE IInv
  OBVIOUS
<1>1. proc \in Processors /\ proc.seen = Nobody /\ proc.pc = "capture"
  BY AtType DEF Init, Rebasing
<1>2. gitlab \in World /\ row \in Rows /\ pipelines \in Seq(Pipes)
  BY WaitConstants, EmptySeq DEF Init, World, Rows, Commits
<1>3. hooks \in [Hooks -> HookTasks]
  BY DEF Init, IdleHook, HookTasks
<1>4. TypeOK
  BY <1>1, <1>2, <1>3 DEF Init, TypeOK, World, Rows
<1> QED BY <1>1, <1>4 DEF IInv, Knowledge, ProcAt, MergingIsTested, Nobody

LEMMA NextIInv ==
    ASSUME IInv, [Next]_vars
    PROVE  IInv'
<1>1. CASE GitLabAndUsers
  BY <1>1, GitLabStep
<1>2. CASE Processor
  <2>1. RebasePhase \/ RoundSteps \/ CheckStale \/ HandleStatus \/ CheckMergeable \/ PutMerge
    BY <1>2 DEF Processor, WaitPhase, RoundSteps
  <2> QED BY <2>1, RebaseStep, RoundStep, StaleStep, StatusStep, MergeStep
<1>3. CASE \E h \in Hooks : Handler(h)
  BY <1>3, HandlerStep
<1>4. CASE Crash
  BY <1>4, CrashStep
<1>5. CASE UNCHANGED vars
  BY <1>5 DEF vars, IInv, TypeOK, Knowledge, ProcAt, MergingIsTested, Tested, Ids
<1> QED BY <1>1, <1>2, <1>3, <1>4, <1>5 DEF Next

(***************************************************************************)
(* Every reachable state is well typed, and a row under test or on the way *)
(* to its merge knows of its commit what the processor compared: the       *)
(* inductive invariant that the theorems below follow from.                *)
(***************************************************************************)
THEOREM Invariant == Spec => []IInv
BY InitIInv, NextIInv, PTL DEF Spec

(***************************************************************************)
(* What the processor and the handlers read and write is well typed.       *)
(***************************************************************************)
THEOREM WaitTypeCorrect == Spec => []TypeOK
<1>1. IInv => TypeOK
  BY DEF IInv
<1> QED BY <1>1, Invariant, PTL

(***************************************************************************)
(* The row is only in the way of a merge with a commit that a pipeline     *)
(* succeeded on.                                                           *)
(***************************************************************************)
THEOREM RowsCommitIsTested == Spec => []MergingIsTested
<1>1. IInv => MergingIsTested
  BY DEF IInv, Knowledge
<1> QED BY <1>1, Invariant, PTL

(***************************************************************************)
(* merge_mr merges the commit it compared, which was tested, or one that   *)
(* was pushed after the comparison.                                        *)
(***************************************************************************)
THEOREM MergesWhatWasCompared == Spec => MergedIsTested
<1>1. ASSUME IInv, [Next]_vars, gitlab'.merged # gitlab.merged
      PROVE  Tested(gitlab'.merged) \/ gitlab'.merged # proc.mr
  <2>1. gitlab \in World
    BY <1>1 DEF IInv, TypeOK, World
  <2>2. ~(GitLabAndUsers \/ RebasePhase \/ WaitPhase \/ CheckMergeable \/ Crash
          \/ (\E h \in Hooks : Handler(h)) \/ UNCHANGED vars)
    <3>1. ASSUME GitLabAndUsers PROVE gitlab'.merged = gitlab.merged
      BY <2>1, <3>1 DEF GitLabAndUsers, UserPushes, TargetMoves, PipelineStarts, PipelineEnds,
                        UserRetries, TimePasses, world, World
    <3>2. ASSUME RebasePhase PROVE gitlab'.merged = gitlab.merged
      BY <2>1, <3>2 DEF RebasePhase, CaptureMergeRequest, CapturePipeline, StartWithoutRebase,
                        Rebase, RebaseInGitLab, ReadMovedHead, MatchPipeline, world, World
    <3>3. ASSUME WaitPhase PROVE gitlab'.merged = gitlab.merged
      BY <2>1, <3>3 DEF WaitPhase, StartRound, CheckRebase, RebaseAgain, RebaseInGitLab,
                        ReadHeadAgain, MatchPipelineAgain, GiveUpNewPipeline, ForgetRetries,
                        CheckStale, SwitchToSeen, RecoverFromStale, HandleStatus, FetchJobs,
                        PostRetry, SaveRetries, world, World
    <3>4. ASSUME CheckMergeable \/ Crash \/ UNCHANGED vars PROVE gitlab'.merged = gitlab.merged
      BY <3>4 DEF CheckMergeable, Crash, vars, world
    <3>5. ASSUME NEW h \in Hooks, Handler(h) PROVE gitlab'.merged = gitlab.merged
      BY <3>5 DEF Handler, ReceivePipeline, HookSwitches, HookWrites, world
    <3> QED BY <1>1, <3>1, <3>2, <3>3, <3>4, <3>5
  <2>3. PutMerge
    BY <1>1, <2>2 DEF Next, Processor
  <2> QED BY <1>1, <2>3 DEF PutMerge, IInv, Knowledge, MergingIsTested, ProcAt
<1>2. ASSUME IInv, [Next]_vars
      PROVE  [gitlab'.merged # gitlab.merged => Tested(gitlab'.merged) \/ gitlab'.merged # proc.mr]_vars
  BY <1>1, <1>2
<1> QED BY <1>2, Invariant, PTL DEF Spec, MergedIsTested

(***************************************************************************)
(* A verdict is never about another commit than the row's.                 *)
(***************************************************************************)
THEOREM VerdictsAreAboutTheRow == Spec => VerdictOfTheRightCommit
<1>1. IInv => (ProcAt("status") => proc.seen.sha = row.sha)
  BY DEF IInv, Knowledge
<1>2. ASSUME IInv, [Next]_vars
      PROVE  [ProcAt("status") /\ row'.state \in {"merging", "failed"} => proc.seen.sha = row.sha]_vars
  BY <1>1, <1>2
<1> QED BY <1>2, Invariant, PTL DEF Spec, VerdictOfTheRightCommit
=============================================================================
