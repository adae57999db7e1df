------------------------------ MODULE TaskQueue ------------------------------
(***************************************************************************)
(* What a CThreadWork promises the object that owns it, without threads,   *)
(* locks or event objects: posted tasks wait in line, one task runs at a   *)
(* time, every task that runs was posted and runs once, and no task        *)
(* overtakes an earlier one unless the earlier one was posted with a delay.*)
(* ThreadWork.tla is the thread that keeps this promise.                   *)
(***************************************************************************)
EXTENDS Sequences, SequencesExt, Naturals

CONSTANT ID         \* task identifiers (QC_TASK_OPEN, QC_TASK_SEEK, ...)

VARIABLES waiting,  \* tasks posted and not started, in the order of posting
          running   \* <<t>> while the handler of t runs, else <<>>

vars == <<waiting, running>>

Task == [id : ID, delayed : BOOLEAN]

Init == waiting = <<>> /\ running = <<>>

(* Any thread, the handler of the running task included, posts a task. *)
Post == /\ \E t \in Task : waiting' = Append(waiting, t)
        /\ UNCHANGED running

(* A task starts when nothing runs; only delayed tasks may be passed over. *)
Begin == /\ running = <<>>
         /\ \E i \in 1..Len(waiting) :
               /\ \A j \in 1..(i - 1) : waiting[j].delayed
               /\ running' = <<waiting[i]>>
               /\ waiting' = RemoveAt(waiting, i)

End == running # <<>> /\ running' = <<>> /\ UNCHANGED waiting

(* Only the handler of the running task takes a waiting task back. *)
Withdraw == /\ running # <<>>
            /\ \E i \in 1..Len(waiting) : waiting' = RemoveAt(waiting, i)
            /\ UNCHANGED running

(* The owner goes away: nothing runs and all waiting tasks are dropped. *)
Discard == running = <<>> /\ waiting' = <<>> /\ UNCHANGED running

Next == Post \/ Begin \/ End \/ Withdraw \/ Discard

Spec == Init /\ [][Next]_vars
=============================================================================
