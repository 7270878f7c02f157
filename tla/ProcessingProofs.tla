-------------------------- MODULE ProcessingProofs --------------------------
(***************************************************************************)
(* Theorems about Processing, for every number of handlers, lifecycles,    *)
(* attempts, acts of users and crashes.                                    *)
(*                                                                         *)
(* The argument has two parts.  Every step does one of four things to the  *)
(* row: it leaves it, writes its state, freezes an outcome, or deletes it  *)
(* (RowStep); the other actors also insert one.  And what the tasks carry  *)
(* from one step to the next stays true while they carry it (IInv).        *)
(***************************************************************************)
EXTENDS Processing, TLAPS

RowStates == {"queued", "removed"} \cup Working

(* What the processor and the handlers are about to write is of its kind,   *)
(* and a machine that is at work is in one of the states of work.           *)
Intentions ==
    /\ ProcAt("complete") => proc.next \in Outcomes
    /\ proc.pc \in {"rebase", "reach", "wait", "merge", "reset"} => proc.sm \in Working
    /\ \A h \in Hooks :
          /\ HookAt(h, "end") => hooks[h].next \in {"merged", "removed"}
          /\ HookAt(h, "write") => hooks[h].next \in {"testing", "merging"}

(* Whoever says "merged" has it from GitLab. *)
Truth ==
    /\ MergedIsTrue
    /\ "merged" \in happened => mr.state = "merged"
    /\ ProcAt("complete") /\ proc.next = "merged" => mr.state = "merged"
    /\ \A h \in Hooks :
          HookAt(h, "end") /\ hooks[h].next = "merged" => mr.state = "merged"

IInv == TypeOK /\ Intentions /\ Truth

RowWrite ==
    \/ row' = row
    \/ \E s \in RowStates, a \in Nat : WriteRow(s, a)

RowStep ==
    \/ RowWrite
    \/ \E id \in Nat, out \in Outcomes : FreezeRow(id, out)
    \/ \E id \in Nat : DeleteRow(id)
-----------------------------------------------------------------------------
(* The row *)

LEMMA FreshRowType ==
    ASSUME NEW id \in Nat
    PROVE  /\ FreshRow(id) \in Rows /\ FreshRow(id) # None
           /\ FreshRow(id).id = id /\ FreshRow(id).state = "queued"
           /\ FreshRow(id).pending = None
BY NoneIsNoRow DEF FreshRow, Rows

(* A write keeps the row's lifecycle, or touches nothing. *)
LEMMA WrittenRow ==
    ASSUME row \in Rows \cup {None}, NEW s \in RowStates, NEW a \in Nat, WriteRow(s, a)
    PROVE  /\ Undecided => /\ row' \in Rows /\ row' # None /\ row'.id = row.id
                           /\ row'.state = s /\ row'.pending = None
           /\ ~Undecided => row' = row
<1>1. CASE Undecided
  <2>1. row \in Rows /\ row.pending = None /\ row' = [row EXCEPT !.state = s, !.attempts = a]
    BY <1>1 DEF Undecided, WriteRow
  <2>2. row' \in Rows /\ row'.id = row.id /\ row'.state = s /\ row'.pending = None
    BY <2>1 DEF Rows, RowStates
  <2> QED BY <1>1, <2>2, NoneIsNoRow
<1>2. CASE ~Undecided
  BY <1>2 DEF WriteRow
<1> QED BY <1>1, <1>2

(* A completion freezes the lifecycle it names, or touches nothing. *)
LEMMA FrozenRow ==
    ASSUME row \in Rows \cup {None}, NEW id \in Nat, NEW out \in Outcomes, FreezeRow(id, out)
    PROVE  \/ row' = row
           \/ /\ Undecided /\ id \in {0, row.id}
              /\ row' \in Rows /\ row' # None /\ row'.id = row.id
              /\ row'.state = row.state /\ row'.pending = out
<1>1. CASE Undecided /\ id \in {0, row.id}
  <2>1. row \in Rows /\ row' = [row EXCEPT !.pending = out]
    BY <1>1 DEF Undecided, FreezeRow
  <2>2. row' \in Rows /\ row'.id = row.id /\ row'.state = row.state /\ row'.pending = out
    BY <2>1 DEF Rows
  <2> QED BY <1>1, <2>2, NoneIsNoRow
<1>2. CASE ~(Undecided /\ id \in {0, row.id})
  BY <1>2 DEF FreezeRow
<1> QED BY <1>1, <1>2

LEMMA DeletedRow ==
    ASSUME NEW id, DeleteRow(id)
    PROVE  row' = row \/ (Undecided /\ id \in {0, row.id} /\ row' = None)
BY DEF DeleteRow

LEMMA RowStepType ==
    ASSUME row \in Rows \cup {None}, RowStep
    PROVE  row' \in Rows \cup {None}
<1>1. ASSUME NEW s \in RowStates, NEW a \in Nat, WriteRow(s, a)
      PROVE  row' \in Rows \cup {None}
  BY <1>1, WrittenRow
<1>2. ASSUME NEW id \in Nat, NEW out \in Outcomes, FreezeRow(id, out)
      PROVE  row' \in Rows \cup {None}
  BY <1>2, FrozenRow
<1>3. ASSUME NEW id \in Nat, DeleteRow(id)
      PROVE  row' \in Rows \cup {None}
  BY <1>3, DeletedRow
<1> QED BY <1>1, <1>2, <1>3 DEF RowStep, RowWrite

(* update_mr_state with the attempts there are *)
LEMMA StateIsWritten ==
    ASSUME row \in Rows \cup {None}, NEW s \in RowStates, WriteState(s)
    PROVE  RowWrite
<1>1. (IF row = None THEN 0 ELSE row.attempts) \in Nat
  BY DEF Rows
<1> QED BY <1>1 DEF WriteState, RowWrite
-----------------------------------------------------------------------------
(* What the actors do to the row *)

LEMMA ProcessorWrites ==
    ASSUME IInv, Processor
    PROVE  /\ \/ RowWrite
              \/ ProcAt("complete") /\ FreezeRow(proc.id, proc.next)
              \/ DeleteRow(proc.id)
              \/ ProcAt("discard") /\ DeleteRow(0)
           /\ nextId' = nextId /\ told' = told
<1>1. nextId' = nextId /\ told' = told
  BY DEF Processor, Start, Recovery, RecoverySnapshot, RecoveryAsks, RecoverySkips,
         RecoverySettles, Workflow, PickNext, CreateMachine, Verify, VerifyFails, Begin, Rebase,
         Advance, ReachTesting, WaitForPipeline, Merge, MergeInGitLab, Complete, ErrorHandling,
         HandleError, Reset, CountAttempt, DiscardRow, RemoveLabel, external
<1>2. row \in Rows \cup {None} /\ proc.id \in Nat /\ proc.attempts \in Nat
  BY DEF IInv, TypeOK, Processors
<1>3. CASE row' = row
  BY <1>1, <1>3 DEF RowWrite
<1>4. CASE RecoverySettles
  <2>1. CASE proc.next = "queued"
    BY <1>1, <1>2, <1>4, <2>1, StateIsWritten DEF RecoverySettles, RowStates
  <2>2. CASE proc.next # "queued"
    BY <1>1, <1>2, <1>4, <2>2 DEF RecoverySettles
  <2> QED BY <2>1, <2>2
<1>5. CASE Begin \/ Reset \/ \E s \in RowStates : WriteState(s)
  <2>1. \E s \in RowStates : WriteState(s)
    BY <1>5 DEF Begin, Advance, Reset, RowStates, Working
  <2> QED BY <1>1, <1>2, <2>1, StateIsWritten
<1>6. CASE ReachTesting \/ CountAttempt
  <2>1. \E s \in RowStates, a \in Nat : WriteRow(s, a)
    BY <1>2, <1>6 DEF ReachTesting, CountAttempt, RowStates, Working
  <2> QED BY <1>1, <2>1 DEF RowWrite
<1>7. CASE Rebase \/ WaitForPipeline
  <2>1. row' = row \/ \E s \in RowStates : WriteState(s)
    BY <1>7 DEF Rebase, WaitForPipeline, Advance, RowStates, Working
  <2> QED BY <1>3, <1>5, <2>1
<1>8. CASE Complete
  BY <1>1, <1>8 DEF Complete
<1>9. CASE DiscardRow
  BY <1>1, <1>9 DEF DiscardRow
<1>10. CASE \/ Start \/ RecoverySnapshot \/ RecoveryAsks \/ RecoverySkips
            \/ PickNext \/ CreateMachine \/ Verify \/ VerifyFails \/ Merge
            \/ HandleError \/ RemoveLabel
  <2>1. row' = row
    BY <1>10 DEF Start, RecoverySnapshot, RecoveryAsks, RecoverySkips, PickNext, CreateMachine,
                 Verify, VerifyFails, Merge, MergeInGitLab, HandleError, RemoveLabel
  <2> QED BY <1>3, <2>1
<1> QED BY <1>4, <1>5, <1>6, <1>7, <1>8, <1>9, <1>10
        DEF Processor, Recovery, Workflow, ErrorHandling

LEMMA HandlerWrites ==
    ASSUME IInv, NEW h \in Hooks, Handler(h)
    PROVE  /\ RowWrite \/ (HookAt(h, "end") /\ FreezeRow(hooks[h].id, hooks[h].next))
           /\ nextId' = nextId /\ told' = told
<1>1. nextId' = nextId /\ told' = told /\ proc' = proc /\ mr' = mr /\ happened' = happened
  BY DEF Handler, HandleEvent, HandlerCompletes, AcceptPipeline, RecordPipeline, others
<1>2. row \in Rows \cup {None} /\ hooks[h].id \in Nat
  BY DEF IInv, TypeOK, HookTasks
<1>3. CASE HandleEvent(h) \/ AcceptPipeline(h)
  BY <1>1, <1>3 DEF HandleEvent, AcceptPipeline, RowWrite
<1>4. CASE HandlerCompletes(h)
  BY <1>1, <1>4 DEF HandlerCompletes
<1>5. CASE RecordPipeline(h)
  <2>1. WriteState(hooks[h].next) /\ hooks[h].next \in RowStates
    BY <1>5 DEF RecordPipeline, IInv, Intentions, RowStates, Working
  <2> QED BY <1>1, <1>2, <2>1, StateIsWritten
<1> QED BY <1>3, <1>4, <1>5 DEF Handler

LEMMA OrphanWrites ==
    ASSUME IInv, RemoveOrphan
    PROVE  RowWrite /\ nextId' = nextId /\ told' = told
<1>1. row \in Rows \cup {None} /\ WriteState("removed") /\ "removed" \in RowStates
  BY DEF RemoveOrphan, IInv, TypeOK, RowStates
<1> QED BY <1>1, StateIsWritten DEF RemoveOrphan, others
(* All of them together, and with the types of what they write. *)
LEMMA ActorSteps ==
    ASSUME IInv, Processor \/ RemoveOrphan \/ \E h \in Hooks : Handler(h)
    PROVE  RowStep /\ nextId' = nextId /\ told' = told
<1>1. CASE Processor
  <2>1. proc.id \in Nat /\ (ProcAt("complete") => proc.next \in Outcomes)
    BY DEF IInv, TypeOK, Intentions, Processors
  <2> QED BY <1>1, <2>1, ProcessorWrites DEF RowStep
<1>2. CASE RemoveOrphan
  BY <1>2, OrphanWrites DEF RowStep
<1>3. ASSUME NEW h \in Hooks, Handler(h)
      PROVE  RowStep /\ nextId' = nextId /\ told' = told
  <2>1. hooks[h].id \in Nat /\ (HookAt(h, "end") => hooks[h].next \in Outcomes)
    BY DEF IInv, TypeOK, Intentions, HookTasks, Outcomes
  <2> QED BY <1>3, <2>1, HandlerWrites DEF RowStep
<1> QED BY <1>1, <1>2, <1>3

(* The other actors insert, tell, archive, or leave the row alone. *)
LEMMA InsertedRow ==
    ASSUME IInv, row' = FreshRow(nextId) \/ row' = None
    PROVE  row' \in Rows \cup {None} /\ (row' # None => row'.pending = None)
<1>1. nextId \in Nat
  BY DEF IInv, TypeOK
<1> QED BY <1>1, FreshRowType
-----------------------------------------------------------------------------
(* The invariant *)

(* The processor's record, by the ways it is updated *)

LEMMA AtType ==
    ASSUME NEW pc \in Pcs
    PROVE  At(pc) \in Processors /\ At(pc).pc = pc /\ At(pc).sm = "none" /\ At(pc).id = 0
BY DEF At, Processors

LEMMA ProcToType ==
    ASSUME proc \in Processors, NEW pc \in Pcs, ProcTo(pc)
    PROVE  /\ proc' \in Processors /\ proc'.pc = pc /\ proc'.id = proc.id
           /\ proc'.sm = proc.sm /\ proc'.next = proc.next
BY DEF ProcTo, Processors

LEMMA EndWithType ==
    ASSUME proc \in Processors, NEW out \in Outcomes, EndWith(out)
    PROVE  /\ proc' \in Processors /\ proc'.pc = "complete" /\ proc'.id = proc.id
           /\ proc'.sm = "final" /\ proc'.next = out
BY DEF EndWith, Processors, Pcs

LEMMA MovedType ==
    ASSUME proc \in Processors, NEW pc \in Pcs, NEW s \in {"queued"} \cup Working,
           proc' = [proc EXCEPT !.pc = pc, !.sm = s]
    PROVE  proc' \in Processors /\ proc'.pc = pc /\ proc'.id = proc.id /\ proc'.sm = s
BY DEF Processors, Working

(* Where a new machine and a recovery start from. *)
LEMMA MadeType ==
    ASSUME NEW pc \in Pcs, NEW id \in Nat,
           NEW s \in {"none", "queued", "final"} \cup Working,
           proc' = [At(pc) EXCEPT !.id = id, !.sm = s]
    PROVE  proc' \in Processors /\ proc'.pc = pc /\ proc'.id = id /\ proc'.sm = s
BY DEF At, Processors, Working

(* Advance leaves the machine at its target, at the next step or the error. *)
LEMMA AdvanceType ==
    ASSUME IInv, NEW s \in Working, NEW pc \in Pcs, Advance(s, pc)
    PROVE  /\ proc' \in Processors /\ proc'.id = proc.id /\ proc'.sm = s
           /\ proc'.pc \in {pc, "error"}
<1>1. proc \in Processors
  BY DEF IInv, TypeOK
<1>2. PICK p \in {pc, "error"} : proc' = [proc EXCEPT !.pc = p, !.sm = s]
  BY DEF Advance
<1>3. p \in Pcs
  BY DEF Pcs
<1> QED BY <1>1, <1>2, <1>3, MovedType

Intends(p) ==
    /\ p.pc = "complete" => p.next \in Outcomes
    /\ p.pc \in {"rebase", "reach", "wait", "merge", "reset"} => p.sm \in Working

LEMMA ProcessorTyped ==
    ASSUME IInv, Processor
    PROVE  /\ proc' \in Processors /\ Intends(proc')
           /\ proc'.pc = "complete" /\ proc'.next = "merged" => Merge
<1> USE DEF Intends
<1>1. proc \in Processors /\ row \in Rows \cup {None} /\ Intends(proc)
  BY DEF IInv, TypeOK, Intentions, ProcAt
<1>2. row # None => row.id \in Nat /\ row.attempts \in Nat
                    /\ row.state \in {"queued", "removed"} \cup Working
  BY <1>1 DEF Rows
<1>3. /\ "none" \notin Working /\ "final" \notin Working /\ "queued" \notin Working
      /\ Working = {"rebasing", "testing", "merging"} /\ Outcomes = {"merged", "failed", "removed"}
  BY DEF Working, Outcomes
<1>4. CASE ProcDone
  BY <1>4, AtType DEF ProcDone, Pcs
<1>5. CASE \/ \E pc \in Pcs \ {"complete", "rebase", "reach", "wait", "merge", "reset"} : ProcTo(pc)
           \/ proc.sm \in Working /\ \E pc \in Pcs \ {"complete"} : ProcTo(pc)
  BY <1>1, <1>5, ProcToType
<1>6. CASE \E out \in {"failed", "removed"} : EndWith(out)
  BY <1>1, <1>3, <1>6, EndWithType
<1>7. CASE \E s \in Working, pc \in Pcs \ {"complete"} : Advance(s, pc)
  BY <1>7, AdvanceType
<1>8. CASE Start \/ RecoverySkips \/ RemoveLabel \/ DiscardRow \/ VerifyFails \/ CountAttempt \/ Complete
  BY <1>8, <1>4, <1>5
  DEF Start, RecoverySkips, RemoveLabel, DiscardRow, VerifyFails, CountAttempt, Complete, Pcs
<1>9. CASE RecoverySnapshot
  <2>1. CASE Active
    <3>1. /\ proc' = [At("ask") EXCEPT !.id = row.id, !.sm = row.state]
          /\ row.id \in Nat /\ row.state \in {"none", "queued", "final"} \cup Working
      BY <1>2, <1>9, <2>1 DEF RecoverySnapshot, Active, Undecided
    <3>2. proc' \in Processors /\ proc'.pc = "ask"
      BY <3>1, MadeType DEF Pcs
    <3> QED BY <3>2
  <2>2. CASE ~Active
    BY <1>4, <1>9, <2>2 DEF RecoverySnapshot
  <2> QED BY <2>1, <2>2
<1>10. CASE RecoveryAsks
  <2>1. CASE RecoveryAction = None
    BY <1>4, <1>10, <2>1 DEF RecoveryAsks
  <2>2. CASE RecoveryAction # None
    <3>1. RecoveryAction \in {"merged", "removed", "queued"}
      BY <2>2 DEF RecoveryAction
    <3> QED BY <1>1, <1>3, <1>10, <2>2, <3>1 DEF RecoveryAsks, Processors, Pcs
  <2> QED BY <2>1, <2>2
<1>11. CASE RecoverySettles
  <2>1. proc' = At("dead") \/ ProcDone
    BY <1>11 DEF RecoverySettles
  <2> QED BY <1>4, <2>1, AtType DEF Pcs
<1>12. CASE PickNext
  BY <1>12, AtType DEF PickNext, Pcs
<1>13. CASE CreateMachine
  <2>1. CASE row = None
    <3>1. proc' = [At("verify") EXCEPT !.sm = "queued"] \/ proc' = At("error")
      BY <1>13, <2>1 DEF CreateMachine
    <3>2. CASE proc' = At("error")
      BY <3>2, AtType DEF Pcs
    <3>3. CASE proc' = [At("verify") EXCEPT !.sm = "queued"]
      <4>1. proc' = [pc |-> "verify", id |-> 0, sm |-> "queued", next |-> None, attempts |-> 0]
        BY <3>3 DEF At
      <4>2. proc' \in Processors /\ proc'.pc = "verify"
        BY <4>1 DEF Processors, Pcs
      <4> QED BY <4>2
    <3> QED BY <3>1, <3>2, <3>3
  <2>2. CASE row # None
    <3> DEFINE s == IF Active THEN row.state ELSE "final"
    <3>1. row.id \in Nat /\ s \in {"none", "queued", "final"} \cup Working
      BY <1>2, <1>3, <2>2 DEF Active, Undecided
    <3>2. proc' = [At("verify") EXCEPT !.id = row.id, !.sm = s]
      BY <1>13, <2>2 DEF CreateMachine
    <3> HIDE DEF s
    <3>3. proc' \in Processors /\ proc'.pc = "verify"
      BY <3>1, <3>2, MadeType DEF Pcs
    <3> QED BY <3>3
  <2> QED BY <2>1, <2>2
<1>14. CASE Verify
  <2>1. CASE Eligible /\ proc.sm # "final"
    <3>1. ProcTo(WorkflowEntry)
      BY <1>14, <2>1 DEF Verify
    <3>2. \/ proc.sm = "rebasing" /\ WorkflowEntry = "rebase"
          \/ proc.sm = "testing" /\ WorkflowEntry = "reach"
          \/ proc.sm = "merging" /\ WorkflowEntry = "merge"
          \/ WorkflowEntry \in {"begin", "idle"}
      BY DEF WorkflowEntry
    <3> QED BY <1>3, <1>5, <3>1, <3>2 DEF Pcs
  <2>2. CASE ~(Eligible /\ proc.sm # "final")
    BY <1>3, <1>4, <1>5, <1>6, <1>14, <2>2 DEF Verify, Pcs
  <2> QED BY <2>1, <2>2
<1>15. CASE Begin \/ Rebase \/ WaitForPipeline
  BY <1>3, <1>5, <1>6, <1>7, <1>15 DEF Begin, Rebase, WaitForPipeline, Pcs
<1>16. CASE ReachTesting
  <2>1. proc.sm \in Working
    BY <1>1, <1>16 DEF ReachTesting, ProcAt
  <2> QED BY <1>5, <1>16, <2>1 DEF ReachTesting, Pcs
<1>17. CASE Merge
  BY <1>1, <1>3, <1>17, EndWithType DEF Merge
<1>18. CASE HandleError
  <2>1. CASE ProcDone \/ EndWith("failed") \/ ProcTo("discard")
    BY <1>3, <1>4, <1>5, <1>6, <2>1 DEF Pcs
  <2>2. CASE /\ row # None /\ proc.sm \notin {"queued", "final"}
             /\ proc' = [proc EXCEPT !.pc = IF proc.sm = "none" THEN "count" ELSE "reset",
                                     !.attempts = row.attempts + 1]
    <3>1. row.attempts + 1 \in Nat
      BY <1>2, <2>2
    <3>2. /\ proc' \in Processors /\ proc'.sm = proc.sm
          /\ proc'.pc = IF proc.sm = "none" THEN "count" ELSE "reset"
      BY <1>1, <2>2, <3>1 DEF Processors, Pcs
    <3>3. proc.sm = "none" \/ proc.sm \in Working
      BY <1>1, <2>2 DEF Processors
    <3> QED BY <3>2, <3>3
  <2> QED BY <1>18, <2>1, <2>2 DEF HandleError, Undecided
<1>19. CASE Reset
  <2>1. CASE Undecided
    <3>1. proc' = [proc EXCEPT !.pc = "count", !.sm = "queued"]
      BY <1>19, <2>1 DEF Reset
    <3> QED BY <1>1, <3>1, MovedType DEF Pcs
  <2>2. CASE ~Undecided
    BY <1>4, <1>19, <2>2 DEF Reset
  <2> QED BY <2>1, <2>2
<1> QED BY <1>8, <1>9, <1>10, <1>11, <1>12, <1>13, <1>14, <1>15, <1>16, <1>17, <1>18, <1>19
        DEF Processor, Recovery, Workflow, ErrorHandling

(* A handler intends what the row and the events it looked at allow. *)
LEMMA HooksTyped ==
    ASSUME IInv, NEW h \in Hooks, Handler(h)
    PROVE  /\ hooks' \in [Hooks -> HookTasks]
           /\ \A k \in Hooks : k # h => hooks'[k] = hooks[k]
           /\ hooks'[h].pc = "end" => hooks'[h].next \in {"merged", "removed"}
           /\ hooks'[h].pc = "write" => hooks'[h].next \in {"testing", "merging"}
           /\ hooks'[h].pc = "end" /\ hooks'[h].next = "merged" => mr.state = "merged"
<1>1. hooks \in [Hooks -> HookTasks] /\ row \in Rows \cup {None}
  BY DEF IInv, TypeOK
<1>2. ASSUME NEW task \in HookTasks, HookTo(h, task)
      PROVE  /\ hooks' \in [Hooks -> HookTasks] /\ hooks'[h] = task
             /\ \A k \in Hooks : k # h => hooks'[k] = hooks[k]
  BY <1>1, <1>2 DEF HookTo
<1>3. CASE HandlerCompletes(h) \/ RecordPipeline(h)
  <2>1. HookTo(h, IdleHook) /\ IdleHook \in HookTasks /\ IdleHook.pc = "idle"
    BY <1>3 DEF HandlerCompletes, RecordPipeline, IdleHook, HookTasks
  <2> QED BY <1>2, <2>1
<1>4. CASE HandleEvent(h)
  <2>1. PICK e \in happened : HookTo(h, [pc |-> "end", id |-> row.id,
                                   next |-> IF e = "merged" THEN "merged" ELSE "removed"])
    BY <1>4 DEF HandleEvent
  <2> DEFINE task == [pc |-> "end", id |-> row.id,
                      next |-> IF e = "merged" THEN "merged" ELSE "removed"]
  <2>2. row.id \in Nat
    BY <1>1, <1>4 DEF HandleEvent, Active, Undecided, Rows
  <2>3. /\ task \in HookTasks /\ task.pc = "end" /\ task.next \in {"merged", "removed"}
        /\ task.next = "merged" => e = "merged"
    BY <2>2 DEF HookTasks
  <2>4. e = "merged" => mr.state = "merged"
    BY DEF IInv, Truth
  <2> HIDE DEF task
  <2>5. HookTo(h, task)
    BY <2>1 DEF task
  <2> QED BY <1>2, <2>3, <2>4, <2>5
<1>5. CASE AcceptPipeline(h)
  <2>1. PICK state \in {"testing", "merging"} :
          HookTo(h, [pc |-> "write", id |-> row.id, next |-> state])
    BY <1>5 DEF AcceptPipeline
  <2> DEFINE task == [pc |-> "write", id |-> row.id, next |-> state]
  <2>2. row.id \in Nat
    BY <1>1, <1>5 DEF AcceptPipeline, Active, Undecided, Rows
  <2>3. task \in HookTasks /\ task.pc = "write" /\ task.next \in {"testing", "merging"}
    BY <2>2 DEF HookTasks
  <2> HIDE DEF task
  <2>4. HookTo(h, task)
    BY <2>1 DEF task
  <2> QED BY <1>2, <2>3, <2>4
<1> QED BY <1>3, <1>4, <1>5 DEF Handler

(* GitLab never takes a merge back, and its events are true. *)
LEMMA MergesLast ==
    ASSUME IInv, [Next]_vars
    PROVE  /\ mr' \in [state : {"opened", "merged", "closed"}, label : BOOLEAN]
           /\ happened' \subseteq {"unlabeled", "closed", "merged"}
           /\ mr.state = "merged" => mr'.state = "merged"
           /\ "merged" \in happened' => mr'.state = "merged"
<1>1. /\ mr \in [state : {"opened", "merged", "closed"}, label : BOOLEAN]
      /\ happened \subseteq {"unlabeled", "closed", "merged"}
      /\ "merged" \in happened => mr.state = "merged"
  BY DEF IInv, TypeOK, Truth
<1>2. CASE mr' = mr /\ happened' = happened
  BY <1>1, <1>2
<1>3. CASE MergeInGitLab
  BY <1>1, <1>3 DEF MergeInGitLab
<1>4. CASE happened' = happened /\ \E l \in BOOLEAN : mr' = [mr EXCEPT !.label = l]
  BY <1>1, <1>4
<1>5. CASE RemoveLabel \/ Tell \/ Archive
  BY <1>1, <1>2, <1>4, <1>5 DEF RemoveLabel, Tell, Archive
<1>6. CASE UserActs
  <2>1. /\ mr' \in [state : {"opened", "merged", "closed"}, label : BOOLEAN]
        /\ mr.state = "merged" => mr'.state = "merged"
    BY <1>1, <1>6 DEF UserActs
  <2> QED BY <1>1, <1>6, <2>1 DEF UserActs
<1>7. CASE Processor
  BY <1>2, <1>3, <1>5, <1>7
  DEF Processor, Start, Recovery, RecoverySnapshot, RecoveryAsks, RecoverySkips, RecoverySettles,
      Workflow, PickNext, CreateMachine, Verify, VerifyFails, Begin, Rebase, Advance,
      ReachTesting, WaitForPipeline, Merge, Complete, ErrorHandling, HandleError, Reset,
      CountAttempt, DiscardRow, external
<1>8. CASE \/ \E h \in Hooks : Handler(h)
           \/ AddToQueue \/ RemoveOrphan \/ Crash \/ UNCHANGED vars
  BY <1>2, <1>8
  DEF Handler, HandleEvent, HandlerCompletes, AcceptPipeline, RecordPipeline, AddToQueue,
      RemoveOrphan, Crash, others, vars
<1> QED BY <1>5, <1>6, <1>7, <1>8 DEF Next

LEMMA RowTyped ==
    ASSUME IInv, [Next]_vars
    PROVE  row' \in Rows \cup {None} /\ nextId' \in Nat /\ told' \subseteq Nat
<1>1. row \in Rows \cup {None} /\ nextId \in Nat /\ told \subseteq Nat
  BY DEF IInv, TypeOK
<1>2. CASE Processor \/ RemoveOrphan \/ \E h \in Hooks : Handler(h)
  BY <1>1, <1>2, ActorSteps, RowStepType
<1>3. CASE AddToQueue \/ Archive
  BY <1>1, <1>3, InsertedRow DEF AddToQueue, Archive
<1>4. CASE Tell
  <2>1. row.id \in Nat
    BY <1>1, <1>4 DEF Tell, Pending, Rows
  <2> QED BY <1>1, <1>4, <2>1 DEF Tell
<1>5. CASE UserActs \/ Crash \/ UNCHANGED vars
  BY <1>1, <1>5 DEF UserActs, Crash, vars
<1> QED BY <1>2, <1>3, <1>4, <1>5 DEF Next

(* An outcome is only frozen by who had it from GitLab. *)
LEMMA TruthIsFrozen ==
    ASSUME IInv, [Next]_vars
    PROVE  MergedIsTrue'
<1>1. row \in Rows \cup {None} /\ (mr.state = "merged" => mr'.state = "merged") /\ MergedIsTrue
  BY MergesLast DEF IInv, TypeOK, Truth
<1>2. CASE row' = row
  BY <1>1, <1>2 DEF MergedIsTrue, Pending
<1>3. CASE RowWrite
  <2>1. ASSUME NEW s \in RowStates, NEW a \in Nat, WriteRow(s, a)
        PROVE  MergedIsTrue'
    <3>1. row' = row \/ (row' # None /\ row'.pending = None)
      BY <1>1, <2>1, WrittenRow
    <3> QED BY <1>2, <3>1 DEF MergedIsTrue, Pending
  <2> QED BY <1>2, <1>3, <2>1 DEF RowWrite
<1>4. ASSUME NEW id, DeleteRow(id)
      PROVE  MergedIsTrue'
  BY <1>2, <1>4, DeletedRow DEF MergedIsTrue, Pending
<1>5. ASSUME NEW id \in Nat, NEW out \in Outcomes, FreezeRow(id, out),
             out = "merged" => mr.state = "merged"
      PROVE  MergedIsTrue'
  <2>1. row' = row \/ row'.pending = out
    BY <1>1, <1>5, FrozenRow
  <2> QED BY <1>1, <1>2, <1>5, <2>1 DEF MergedIsTrue, Pending
<1>6. CASE Processor
  <2>1. /\ proc.id \in Nat
        /\ ProcAt("complete") => proc.next \in Outcomes
        /\ ProcAt("complete") /\ proc.next = "merged" => mr.state = "merged"
    BY DEF IInv, TypeOK, Intentions, Processors, Truth
  <2> QED BY <1>3, <1>4, <1>5, <1>6, <2>1, ProcessorWrites
<1>7. ASSUME NEW h \in Hooks, Handler(h)
      PROVE  MergedIsTrue'
  <2>1. /\ hooks[h].id \in Nat
        /\ HookAt(h, "end") => hooks[h].next \in Outcomes
        /\ HookAt(h, "end") /\ hooks[h].next = "merged" => mr.state = "merged"
    BY DEF IInv, TypeOK, Intentions, HookTasks, Truth, Outcomes
  <2> QED BY <1>3, <1>5, <1>7, <2>1, HandlerWrites
<1>8. CASE RemoveOrphan
  BY <1>3, <1>8, OrphanWrites
<1>9. CASE AddToQueue \/ Archive
  <2>1. row' # None => row'.pending = None
    BY <1>9, InsertedRow DEF AddToQueue, Archive
  <2> QED BY <2>1 DEF MergedIsTrue, Pending
<1>10. CASE Tell \/ UserActs \/ Crash \/ UNCHANGED vars
  BY <1>2, <1>10 DEF Tell, UserActs, Crash, vars
<1> QED BY <1>6, <1>7, <1>8, <1>9, <1>10 DEF Next

(* A processor that is about to record "merged" has merged. *)
LEMMA TruthIsCarried ==
    ASSUME IInv, Processor, ProcAt("complete")', proc'.next = "merged"
    PROVE  mr'.state = "merged"
<1>1. Merge
  BY ProcessorTyped DEF ProcAt
<1>2. proc \in Processors /\ mr \in [state : {"opened", "merged", "closed"}, label : BOOLEAN]
  BY DEF IInv, TypeOK
<1>3. CASE EndWith("failed")
  <2>1. proc'.next = "failed"
    BY <1>2, <1>3, EndWithType DEF Outcomes
  <2> QED BY <2>1
<1>4. CASE MergeInGitLab
  BY <1>2, <1>4 DEF MergeInGitLab
<1> QED BY <1>1, <1>3, <1>4 DEF Merge

LEMMA InitIInv == Init => IInv
<1> SUFFICES ASSUME Init PROVE IInv
  OBVIOUS
<1>1. ASSUME NEW s \in Working \cup {"queued"}
      PROVE  [FreshRow(1) EXCEPT !.state = s] \in Rows
             /\ [FreshRow(1) EXCEPT !.state = s].pending = None
  BY DEF FreshRow, Rows
<1>2. row \in Rows \cup {None} /\ (row # None => row.pending = None)
  BY <1>1 DEF Init
<1>3. proc = At("down") /\ proc \in Processors /\ proc.pc = "down"
  BY AtType DEF Init, Pcs
<1>4. IdleHook \in HookTasks /\ IdleHook.pc = "idle"
  BY DEF IdleHook, HookTasks
<1>5. TypeOK
  BY <1>2, <1>3, <1>4 DEF Init, TypeOK
<1>6. Intentions
  BY <1>3, <1>4 DEF Init, Intentions, ProcAt, HookAt
<1>7. Truth
  BY <1>2, <1>3, <1>4 DEF Init, Truth, MergedIsTrue, Pending, ProcAt, HookAt
<1> QED BY <1>5, <1>6, <1>7 DEF IInv

LEMMA NextIInv == IInv /\ [Next]_vars => IInv'
<1> SUFFICES ASSUME IInv, [Next]_vars PROVE IInv'
  OBVIOUS
<1>1. /\ row' \in Rows \cup {None} /\ nextId' \in Nat /\ told' \subseteq Nat
      /\ mr' \in [state : {"opened", "merged", "closed"}, label : BOOLEAN]
      /\ happened' \subseteq {"unlabeled", "closed", "merged"}
      /\ mr.state = "merged" => mr'.state = "merged"
      /\ "merged" \in happened' => mr'.state = "merged"
      /\ MergedIsTrue'
  BY RowTyped, MergesLast, TruthIsFrozen
<1>2. acts \in Nat /\ crashes \in Nat /\ proc \in Processors /\ hooks \in [Hooks -> HookTasks]
  BY DEF IInv, TypeOK
<1>3. acts' \in Nat /\ crashes' \in Nat
  <2>1. acts' \in {acts, acts + 1} /\ crashes' \in {crashes, crashes + 1}
    BY DEF Next, Processor, Start, Recovery, RecoverySnapshot, RecoveryAsks, RecoverySkips,
           RecoverySettles, Workflow, PickNext, CreateMachine, Verify, VerifyFails, Begin, Rebase,
           Advance, ReachTesting, WaitForPipeline, Merge, MergeInGitLab, Complete, ErrorHandling,
           HandleError, Reset, CountAttempt, DiscardRow, RemoveLabel, external, Handler,
           HandleEvent, HandlerCompletes, AcceptPipeline, RecordPipeline, others, AddToQueue,
           RemoveOrphan, Tell, Archive, UserActs, Crash, vars
  <2> QED BY <1>2, <2>1
<1>4. /\ proc' \in Processors /\ Intends(proc')
      /\ ProcAt("complete")' /\ proc'.next = "merged" => mr'.state = "merged"
  <2>1. CASE Processor
    BY <2>1, ProcessorTyped, TruthIsCarried DEF ProcAt
  <2>2. CASE proc' = proc
    BY <1>1, <2>2 DEF IInv, TypeOK, Intentions, Intends, Truth, ProcAt
  <2>3. CASE Crash
    BY <2>3, AtType DEF Crash, Intends, ProcAt, Pcs
  <2>4. Processor \/ Crash \/ proc' = proc
    BY DEF Next, Handler, HandleEvent, HandlerCompletes, AcceptPipeline, RecordPipeline,
           AddToQueue, RemoveOrphan, Tell, Archive, UserActs, vars
  <2> QED BY <2>1, <2>2, <2>3, <2>4
<1>5. /\ hooks' \in [Hooks -> HookTasks]
      /\ \A h \in Hooks :
            /\ HookAt(h, "end")' => hooks'[h].next \in {"merged", "removed"}
            /\ HookAt(h, "write")' => hooks'[h].next \in {"testing", "merging"}
            /\ HookAt(h, "end")' /\ hooks'[h].next = "merged" => mr'.state = "merged"
  <2>1. \A h \in Hooks :
          /\ HookAt(h, "end") => hooks[h].next \in {"merged", "removed"}
          /\ HookAt(h, "write") => hooks[h].next \in {"testing", "merging"}
          /\ HookAt(h, "end") /\ hooks[h].next = "merged" => mr.state = "merged"
    BY DEF IInv, Intentions, Truth
  <2>2. CASE hooks' = hooks
    BY <1>1, <1>2, <2>1, <2>2 DEF HookAt
  <2>3. ASSUME NEW k \in Hooks, Handler(k)
        PROVE  <1>5!1 /\ <1>5!2
    BY <1>1, <2>1, <2>3, HooksTyped DEF HookAt
  <2>4. CASE Crash
    <3>1. IdleHook \in HookTasks /\ IdleHook.pc = "idle"
      BY DEF IdleHook, HookTasks
    <3> QED BY <2>4, <3>1 DEF Crash, HookAt
  <2>5. hooks' = hooks \/ Crash \/ \E k \in Hooks : Handler(k)
    BY DEF Next, Processor, Start, Recovery, RecoverySnapshot, RecoveryAsks, RecoverySkips,
           RecoverySettles, Workflow, PickNext, CreateMachine, Verify, VerifyFails, Begin, Rebase,
           Advance, ReachTesting, WaitForPipeline, Merge, MergeInGitLab, Complete, ErrorHandling,
           HandleError, Reset, CountAttempt, DiscardRow, RemoveLabel, external,
           AddToQueue, RemoveOrphan, others, Tell, Archive, UserActs, vars
  <2> QED BY <2>2, <2>3, <2>4, <2>5
<1>6. TypeOK'
  BY <1>1, <1>3, <1>4, <1>5 DEF TypeOK
<1>7. Intentions'
  BY <1>4, <1>5 DEF Intentions, Intends, ProcAt
<1>8. Truth'
  BY <1>1, <1>4, <1>5 DEF Truth
<1> QED BY <1>6, <1>7, <1>8 DEF IInv

LEMMA Invariance == Spec => []IInv
BY InitIInv, NextIInv, PTL DEF Spec
-----------------------------------------------------------------------------
(* The abstract lifecycle *)

AbstractStep == [Lifecycle!Next]_(Lifecycle!vars)

LEMMA StutteringStep ==
    ASSUME row' = row, nextId' = nextId, told' = told
    PROVE  AbstractStep
BY DEF AbstractStep, Lifecycle!vars, Pending, Active, Undecided

(* A write of the state sets the mark "removed" or takes it off. *)
LEMMA WriteRefines ==
    ASSUME row \in Rows \cup {None}, RowWrite, nextId' = nextId, told' = told
    PROVE  AbstractStep
<1>1. ASSUME NEW s \in RowStates, NEW a \in Nat, WriteRow(s, a)
      PROVE  AbstractStep
  <2>1. CASE Undecided
    <3>1. row' # None /\ row'.id = row.id /\ row'.pending = None
      BY <1>1, <2>1, WrittenRow
    <3>2. Lifecycle!Mark
      BY <2>1, <3>1 DEF Lifecycle!Mark, Lifecycle!Undecided, Pending, Active, Undecided
    <3> QED BY <3>2 DEF AbstractStep, Lifecycle!Next
  <2>2. CASE ~Undecided
    BY <1>1, <2>2, WrittenRow, StutteringStep
  <2> QED BY <2>1, <2>2
<1> QED BY <1>1, StutteringStep DEF RowWrite

LEMMA FreezeRefines ==
    ASSUME row \in Rows \cup {None}, NEW id \in Nat, NEW out \in Outcomes, FreezeRow(id, out),
           nextId' = nextId, told' = told
    PROVE  AbstractStep
<1>1. CASE row' = row
  BY <1>1, StutteringStep
<1>2. CASE /\ Undecided /\ row' # None /\ row'.id = row.id /\ row'.pending = out
  <2>1. out # None
    BY NoneIsNoRow
  <2>2. Lifecycle!Freeze(out)
    BY <1>2, <2>1 DEF Lifecycle!Freeze, Lifecycle!Undecided, Pending, Active, Undecided
  <2> QED BY <2>2 DEF AbstractStep, Lifecycle!Next
<1> QED BY <1>1, <1>2, FrozenRow

LEMMA DeleteRefines ==
    ASSUME NEW id, DeleteRow(id), nextId' = nextId, told' = told
    PROVE  AbstractStep
<1>1. CASE row' = row
  BY <1>1, StutteringStep
<1>2. CASE Undecided /\ row' = None
  <2>1. Lifecycle!Discard
    BY <1>2 DEF Lifecycle!Discard, Lifecycle!Undecided, Lifecycle!Leave, Pending, Active, Undecided
  <2> QED BY <2>1 DEF AbstractStep, Lifecycle!Next
<1> QED BY <1>1, <1>2, DeletedRow

LEMMA FreshRowEnqueues ==
    ASSUME nextId \in Nat, row' = FreshRow(nextId), nextId' = nextId + 1, told' = told
    PROVE  Lifecycle!Enqueue
<1>1. row' # None /\ row'.id = nextId /\ row'.pending = None /\ row'.state = "queued"
  BY FreshRowType
<1> QED BY <1>1 DEF Lifecycle!Enqueue, Pending, Active, Undecided

LEMMA NextRefines ==
    ASSUME IInv, [Next]_vars
    PROVE  AbstractStep
<1>1. row \in Rows \cup {None} /\ nextId \in Nat
  BY DEF IInv, TypeOK
<1>2. CASE Processor \/ RemoveOrphan \/ \E h \in Hooks : Handler(h)
  BY <1>1, <1>2, ActorSteps, WriteRefines, FreezeRefines, DeleteRefines DEF RowStep
<1>3. CASE AddToQueue
  <2>1. Lifecycle!Enqueue /\ (row = None \/ (Undecided /\ row.state = "removed"))
    BY <1>1, <1>3, FreshRowEnqueues DEF AddToQueue
  <2>2. Lifecycle!Begin
    BY <2>1 DEF Lifecycle!Begin, Pending, Active, Undecided
  <2> QED BY <2>2 DEF AbstractStep, Lifecycle!Next
<1>4. CASE Tell
  <2>1. Lifecycle!Tell
    BY <1>4 DEF Tell, Lifecycle!Tell, Pending, Active, Undecided
  <2> QED BY <2>1 DEF AbstractStep, Lifecycle!Next
<1>5. CASE Archive
  <2>1. row # None /\ Pending /\ row.id \in told /\ told' = told
    BY <1>5 DEF Archive, Pending
  <2>2. CASE row' = None /\ nextId' = nextId
    <3>1. Lifecycle!Leave
      BY <2>1, <2>2 DEF Lifecycle!Leave, Pending, Active, Undecided
    <3>2. Lifecycle!Finish
      BY <2>1, <3>1 DEF Lifecycle!Finish
    <3> QED BY <3>2 DEF AbstractStep, Lifecycle!Next
  <2>3. CASE row' = FreshRow(nextId) /\ nextId' = nextId + 1
    <3>1. Lifecycle!Enqueue
      BY <1>1, <2>1, <2>3, FreshRowEnqueues
    <3>2. Lifecycle!Finish
      BY <2>1, <3>1 DEF Lifecycle!Finish
    <3> QED BY <3>2 DEF AbstractStep, Lifecycle!Next
  <2> QED BY <1>5, <2>2, <2>3 DEF Archive
<1>6. CASE UserActs \/ Crash \/ UNCHANGED vars
  BY <1>6, StutteringStep DEF UserActs, Crash, vars
<1> QED BY <1>2, <1>3, <1>4, <1>5, <1>6 DEF Next
-----------------------------------------------------------------------------
(* The theorems *)

(***************************************************************************)
(* Whatever the tasks do to the row at the wrong moment, it keeps the      *)
(* types of its columns.                                                   *)
(***************************************************************************)
THEOREM ProcessingTypeCorrect == Spec => []TypeOK
BY Invariance, PTL DEF IInv

(***************************************************************************)
(* _process_merge and _handle_merge record "merged" only for a merge       *)
(* request GitLab has merged.                                              *)
(***************************************************************************)
THEOREM MergedOutcomesAreTrue == Spec => []MergedIsTrue
BY Invariance, PTL DEF IInv, Truth

(***************************************************************************)
(* The processor, its error handling, recovery, the webhooks and crashes   *)
(* implement the abstract lifecycle that QueueCompletion implements too.   *)
(***************************************************************************)
THEOREM ProcessingImplementsLifecycle == Spec => ImplementsLifecycle
<1>1. Init => Lifecycle!Init
  <2> SUFFICES ASSUME Init PROVE Lifecycle!Init
    OBVIOUS
  <2>1. nextId - 1 = 1 /\ told = {}
    BY DEF Init
  <2>2. CASE row = None
    BY <2>1, <2>2 DEF Lifecycle!Init, Pending
  <2>3. ASSUME NEW s \in Working \cup {"queued"}, row = [FreshRow(1) EXCEPT !.state = s]
        PROVE  Lifecycle!Init
    <3>1. row \in Rows /\ row.id = 1 /\ row.state # "removed" /\ row.pending = None
      BY <2>3 DEF FreshRow, Rows, Working
    <3>2. row # None
      BY <3>1, NoneIsNoRow
    <3> QED BY <2>1, <3>1, <3>2 DEF Lifecycle!Init, Pending, Active, Undecided
  <2> QED BY <2>2, <2>3 DEF Init
<1>2. IInv /\ [Next]_vars => [Lifecycle!Next]_(Lifecycle!vars)
  BY NextRefines DEF AbstractStep
<1> QED BY <1>1, <1>2, Invariance, PTL DEF Spec, ImplementsLifecycle, Lifecycle!Spec

(***************************************************************************)
(* queue_id: the processor ends the lifecycle its machine was made for,    *)
(* unless the machine has none or _fail_mr_permanently archives blindly.   *)
(***************************************************************************)
THEOREM OwnLifecycleIsEnded == Spec => EndsItsOwnLifecycle
<1> DEFINE Claim == [Processor /\ Ended => proc.id \in {0, row.id} \/ ProcAt("discard")]_vars
<1>1. ASSUME IInv, Processor, Ended
      PROVE  proc.id \in {0, row.id} \/ ProcAt("discard")
  <2>1. row \in Rows \cup {None} /\ Undecided /\ row' # row
    BY <1>1 DEF IInv, TypeOK, Ended, Undecided
  <2>2. ~RowWrite
    <3>1. ASSUME NEW s \in RowStates, NEW a \in Nat, WriteRow(s, a)
          PROVE  ~Ended
      BY <2>1, <3>1, WrittenRow DEF Ended
    <3> QED BY <1>1, <2>1, <3>1 DEF RowWrite
  <2>3. CASE ProcAt("complete") /\ FreezeRow(proc.id, proc.next)
    BY <2>1, <2>3 DEF FreezeRow
  <2>4. CASE DeleteRow(proc.id)
    BY <2>1, <2>4 DEF DeleteRow
  <2> QED BY <1>1, <2>2, <2>3, <2>4, ProcessorWrites
<1>2. IInv /\ [Next]_vars => Claim
  BY <1>1
<1> QED BY <1>2, Invariance, PTL DEF Spec, EndsItsOwnLifecycle

(* Steps of the others put no row to work but the one RecordPipeline writes. *)
LEMMA OthersAbandonNone ==
    ASSUME IInv, [Next]_vars, ~Processor, Abandoned', ~Abandoned,
           \A h \in Hooks : ~RecordPipeline(h)
    PROVE  FALSE
<1>1. row \in Rows \cup {None}
  BY DEF IInv, TypeOK
<1>2. ~(row' = row /\ proc' = proc)
  BY DEF Abandoned, InProgress, Undecided, Attended
<1>3. CASE Crash
  BY <1>3, AtType DEF Crash, Abandoned, Attended, Pcs
<1>4. CASE AddToQueue \/ Archive
  <2>1. row' = None \/ row'.state = "queued"
    BY <1>4, FreshRowType DEF AddToQueue, Archive, IInv, TypeOK
  <2> QED BY <2>1 DEF Abandoned, InProgress, Undecided, Working
<1>5. CASE RemoveOrphan
  <2>1. Undecided /\ "removed" \in RowStates
    BY <1>5 DEF RemoveOrphan, Active, RowStates
  <2>2. WriteRow("removed", row.attempts) /\ row.attempts \in Nat
    BY <1>1, <1>5, <2>1 DEF RemoveOrphan, WriteState, Undecided, Rows
  <2>3. row'.state = "removed"
    BY <1>1, <2>1, <2>2, WrittenRow
  <2> QED BY <2>3 DEF Abandoned, InProgress, Working
<1>6. ASSUME NEW h \in Hooks, HandlerCompletes(h)
      PROVE  FALSE
  <2>1. hooks[h].id \in Nat /\ hooks[h].next \in Outcomes
    BY <1>6 DEF HandlerCompletes, IInv, TypeOK, Intentions, HookTasks, Outcomes
  <2>2. row' = row \/ row'.pending \in Outcomes
    BY <1>1, <1>6, <2>1, FrozenRow DEF HandlerCompletes
  <2>3. proc' = proc
    BY <1>6 DEF HandlerCompletes
  <2>4. row'.pending # None => ~Abandoned'
    BY DEF Abandoned, InProgress, Undecided
  <2> QED BY <1>2, <2>1, <2>2, <2>3, <2>4, NoneIsNoRow
<1>7. CASE \/ \E h \in Hooks : HandleEvent(h) \/ AcceptPipeline(h)
           \/ Tell \/ UserActs \/ UNCHANGED vars
  BY <1>2, <1>7 DEF HandleEvent, AcceptPipeline, Tell, UserActs, vars
<1> QED BY <1>3, <1>4, <1>5, <1>6, <1>7 DEF Next, Handler

(* A machine that is on its row when it steps stays with it. *)
LEMMA ProcessorAbandonsNone ==
    ASSUME IInv, Processor, Abandoned', ~Abandoned, ~RecoverySkips, proc.id = row.id
    PROVE  FALSE
<1>1. row \in Rows \cup {None} /\ proc \in Processors /\ Intends(proc)
  BY DEF IInv, TypeOK, Intentions, Intends, ProcAt
<1>2. InProgress' /\ ~Attended'
  BY DEF Abandoned
<1>3. InProgress => Attended
  BY DEF Abandoned
<1>4. CASE row' = row
  <2>1. InProgress /\ Attended /\ Undecided /\ Active /\ row.state # "queued"
    BY <1>2, <1>3, <1>4 DEF InProgress, Undecided, Active, Working
  <2>2. proc'.pc = "recover" \/ (proc'.id = row.id /\ proc'.pc \in {"ask", "settle", "complete", "count"})
        => FALSE
    BY <1>2, <1>4 DEF Attended
  <2>3. proc'.id = row.id /\ proc'.pc \in {"rebase", "reach", "wait", "merge", "error", "reset"}
        /\ proc'.sm \in Working => FALSE
    BY <1>2, <1>4 DEF Attended
  <2>4. CASE Start
    BY <1>1, <2>2, <2>4, ProcToType DEF Start, Pcs
  <2>5. CASE RecoverySnapshot
    <3>1. proc' = [At("ask") EXCEPT !.id = row.id, !.sm = row.state]
      BY <2>1, <2>5 DEF RecoverySnapshot
    <3>2. row.id \in Nat /\ row.state \in {"none", "queued", "final"} \cup Working
      BY <1>1, <2>1 DEF InProgress, Undecided, Rows
    <3>3. proc'.pc = "ask" /\ proc'.id = row.id
      BY <3>1, <3>2, MadeType DEF Pcs
    <3> QED BY <2>2, <3>3
  <2>6. CASE RecoveryAsks
    <3>1. ~ProcDone
      BY <2>6 DEF RecoveryAsks, RecoverySkips
    <3>2. proc' = [proc EXCEPT !.pc = "settle", !.next = RecoveryAction]
      BY <2>6, <3>1 DEF RecoveryAsks
    <3> QED BY <1>1, <2>2, <3>2 DEF Processors
  <2>7. CASE EndWith("failed") \/ EndWith("removed") \/ EndWith("merged")
    BY <1>1, <2>2, <2>7, EndWithType DEF Outcomes
  <2>8. CASE proc.sm \in Working /\ ProcTo("error")
    BY <1>1, <2>3, <2>8, ProcToType DEF Pcs
  <2>9. proc.pc \in {"down", "recover", "ask", "settle", "complete", "count", "rebase", "reach",
                     "wait", "merge", "error", "reset"}
        /\ (proc.pc = "error" => proc.sm \in Working)
    BY <2>1 DEF Attended
  <2>10. CASE HandleError
    <3>1. proc.sm \in Working /\ proc.sm \notin {"none", "queued", "final"}
      BY <2>9, <2>10 DEF HandleError, ProcAt, Working
    <3>2. EndWith("failed")
          \/ proc' = [proc EXCEPT !.pc = "reset", !.attempts = row.attempts + 1]
      BY <2>1, <2>10, <3>1 DEF HandleError
    <3>3. CASE proc' = [proc EXCEPT !.pc = "reset", !.attempts = row.attempts + 1]
      BY <1>1, <2>3, <3>1, <3>3 DEF Processors
    <3> QED BY <2>7, <3>2, <3>3
  <2>11. CASE Rebase \/ WaitForPipeline
    <3>1. proc.sm \in Working
      BY <1>1, <2>11 DEF Rebase, WaitForPipeline, ProcAt, Intends
    <3>2. CASE \E s \in Working, pc \in {"reach", "merge"} : Advance(s, pc)
      <4>1. /\ proc'.id = proc.id /\ proc'.sm \in Working
            /\ proc'.pc \in {"reach", "merge", "error"}
        BY <3>2, AdvanceType DEF Pcs
      <4> QED BY <2>3, <4>1
    <3> QED BY <2>7, <2>8, <2>11, <3>1, <3>2 DEF Rebase, WaitForPipeline, Working
  <2>12. CASE Begin
    BY <2>9, <2>12 DEF Begin, ProcAt
  <2>13. CASE ReachTesting
    <3>1. ProcTo("wait") /\ proc.sm \in Working
      BY <1>1, <2>1, <2>13 DEF ReachTesting, Intends, ProcAt
    <3> QED BY <1>1, <2>3, <3>1, ProcToType DEF Pcs
  <2>14. CASE Merge
    BY <2>7, <2>14 DEF Merge
  <2>15. CASE PickNext \/ CreateMachine \/ Verify \/ VerifyFails \/ DiscardRow \/ RemoveLabel
    BY <2>1, <2>9, <2>15
    DEF PickNext, CreateMachine, Verify, VerifyFails, DiscardRow, RemoveLabel, ProcAt
  <2>16. CASE Complete
    <3>1. FreezeRow(proc.id, proc.next) /\ proc.next \in Outcomes
      BY <1>1, <2>16 DEF Complete, ProcAt, Intends
    <3>2. row' = [row EXCEPT !.pending = proc.next]
      BY <2>1, <3>1 DEF FreezeRow
    <3>3. row'.pending = proc.next /\ row.pending = None
      BY <1>1, <2>1, <3>2 DEF Undecided, Rows
    <3> QED BY <1>4, <3>1, <3>3, NoneIsNoRow
  <2>17. CASE RecoverySettles \/ Reset \/ CountAttempt
    <3>1. CASE \E a \in Nat : WriteRow("queued", a)
      <4>1. row'.state = "queued"
        BY <1>1, <2>1, <3>1, WrittenRow DEF RowStates
      <4> QED BY <1>4, <2>1, <4>1
    <3>2. CASE DeleteRow(proc.id)
      BY <1>4, <2>1, <3>2 DEF DeleteRow, Undecided
    <3>3. row.attempts \in Nat /\ proc.attempts \in Nat /\ row # None
      BY <1>1, <2>1 DEF Undecided, Rows, Processors
    <3> QED BY <2>17, <3>1, <3>2, <3>3 DEF RecoverySettles, Reset, CountAttempt, WriteState
  <2> QED BY <2>4, <2>5, <2>6, <2>10, <2>11, <2>12, <2>13, <2>14, <2>15, <2>16, <2>17
          DEF Processor, Recovery, Workflow, ErrorHandling
<1>5. CASE row' # row
  <2>1. Undecided /\ row' # None /\ row'.id = row.id
    <3>1. row' # None /\ row'.pending = None
      BY <1>2 DEF InProgress, Undecided
    <3> QED BY <1>1, <1>5, <3>1, ProcessorWrites, WrittenRow, FrozenRow, DeletedRow
            DEF RowWrite, Intends, Processors, ProcAt
  <2>2. row'.state \in Working
    BY <1>2 DEF InProgress
  <2>3. CASE \E s \in Working, pc \in {"rebase", "reach", "merge"} : Advance(s, pc)
    <3>1. proc'.id = proc.id /\ proc'.sm \in Working /\ proc'.pc \in {"rebase", "reach", "merge", "error"}
      BY <2>3, AdvanceType DEF Pcs
    <3> QED BY <1>2, <2>1, <3>1 DEF Attended
  <2>4. CASE ReachTesting
    <3>1. ProcTo("wait") /\ proc.sm \in Working
      BY <1>1, <2>1, <2>4 DEF ReachTesting, Intends, ProcAt
    <3>2. proc'.id = proc.id /\ proc'.sm \in Working /\ proc'.pc = "wait"
      BY <1>1, <3>1, ProcToType DEF Pcs
    <3> QED BY <1>2, <2>1, <3>2 DEF Attended
  <2>5. CASE RecoverySettles \/ Reset \/ CountAttempt
    <3>1. CASE \E a \in Nat : WriteRow("queued", a)
      <4>1. row'.state = "queued"
        BY <1>1, <2>1, <3>1, WrittenRow DEF RowStates
      <4> QED BY <2>2, <4>1 DEF Working
    <3>2. CASE DeleteRow(proc.id)
      BY <1>5, <2>1, <3>2 DEF DeleteRow
    <3>3. row.attempts \in Nat /\ proc.attempts \in Nat /\ row # None
      BY <1>1, <2>1 DEF Undecided, Rows, Processors
    <3> QED BY <2>5, <3>1, <3>2, <3>3 DEF RecoverySettles, Reset, CountAttempt, WriteState
  <2>6. CASE Complete
    <3>1. FreezeRow(proc.id, proc.next) /\ proc.next \in Outcomes /\ proc.id \in Nat
      BY <1>1, <2>6 DEF Complete, ProcAt, Intends, Processors
    <3>2. row'.pending = proc.next
      BY <1>1, <1>5, <3>1, FrozenRow
    <3> QED BY <1>2, <3>1, <3>2, NoneIsNoRow DEF InProgress, Undecided
  <2>7. CASE DiscardRow
    BY <1>5, <2>1, <2>7 DEF DiscardRow, DeleteRow
  <2>8. CASE Begin \/ Rebase \/ WaitForPipeline
    BY <1>5, <2>3, <2>8 DEF Begin, Rebase, WaitForPipeline, Working
  <2>9. CASE \/ Start \/ RecoverySnapshot \/ RecoveryAsks \/ PickNext \/ CreateMachine
             \/ Verify \/ VerifyFails \/ Merge \/ HandleError \/ RemoveLabel
    BY <1>5, <2>9
    DEF Start, RecoverySnapshot, RecoveryAsks, PickNext, CreateMachine, Verify, VerifyFails, Merge,
        MergeInGitLab, HandleError, RemoveLabel
  <2> QED BY <2>4, <2>5, <2>6, <2>7, <2>8, <2>9 DEF Processor, Recovery, Workflow, ErrorHandling
<1> QED BY <1>4, <1>5

(***************************************************************************)
(* get_next_mr never picks a row in rebasing, testing or merging: errors,  *)
(* completions of others and crashes at any point leave none that nobody   *)
(* works on; the exceptions are those the property names.                  *)
(***************************************************************************)
THEOREM RowsAreAttended == Spec => NoRowIsAbandoned
<1> DEFINE Claim == [Abandoned' => \/ Abandoned
                                   \/ RecoverySkips
                                   \/ \E h \in Hooks : RecordPipeline(h)
                                   \/ Processor /\ proc.id # row.id]_vars
<1>1. IInv /\ [Next]_vars => Claim
  BY OthersAbandonNone, ProcessorAbandonsNone
<1> QED BY <1>1, Invariance, PTL DEF Spec, NoRowIsAbandoned
=============================================================================
