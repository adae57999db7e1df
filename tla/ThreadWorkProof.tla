--------------------------- MODULE ThreadWorkProof ----------------------------
(***************************************************************************)
(* Theorems about the work thread, for any number of owners, work threads, *)
(* events and ids.  The control invariants need no assumption; that no     *)
(* event is in two places and that nothing dangles needs NoSelfReset, as   *)
(* does the last theorem: every step of ThreadWork is a step of TaskQueue. *)
(***************************************************************************)
EXTENDS ThreadWork, SequenceLemmas, FiniteSetTheorems

-----------------------------------------------------------------------------
(* Type correctness *)

(* The scan moves to a posted event or to the end of the list. *)
LEMMA FollowingType ==
  ASSUME NEW s \in Seq(Event), NEW e
  PROVE  Following(s, e) \in Range(s) \cup {Nil}
<1>1. CASE \E i \in 1..(Len(s) - 1) : s[i] = e
  <2> DEFINE k == CHOOSE i \in 1..(Len(s) - 1) : s[i] = e
  <2>1. k \in 1..(Len(s) - 1)
    BY <1>1
  <2>2. k + 1 \in DOMAIN s
    BY <2>1
  <2> QED BY <1>1, <2>2 DEF Following, Range
<1>2. CASE ~ \E i \in 1..(Len(s) - 1) : s[i] = e
  BY <1>2 DEF Following
<1> QED BY <1>1, <1>2

LEMMA RangeType ==
  ASSUME NEW S, NEW s \in Seq(S)
  PROVE  Range(s) \subseteq S
BY DEF Range

LEMMA GetFreeType ==
  ASSUME TypeOK, NEW a \in Owner \cup Worker, NEW id \in ID, GetFree(a, id)
  PROVE  TypeOK'
<1>1. CASE m_lstFree # <<>>
  <2>1. Head(m_lstFree) \in Event /\ Tail(m_lstFree) \in Seq(Event)
    BY <1>1, HeadTailProperties DEF TypeOK
  <2> QED BY <1>1, <2>1 DEF TypeOK, GetFree, control, loop
<1>2. CASE m_lstFree = <<>>
  BY <1>2 DEF TypeOK, GetFree, control, loop
<1> QED BY <1>1, <1>2

LEMMA PostEventType ==
  ASSUME TypeOK, NEW a \in Owner \cup Worker, NEW delayed \in BOOLEAN,
         PostEvent(a, delayed)
  PROVE  TypeOK'
<1>1. held[a] \in Event
  BY DEF TypeOK, PostEvent, HasEvent
<1>2. Queued(held[a]) \in Seq(Event)
  BY <1>1 DEF TypeOK, Queued
<1> QED BY <1>1, <1>2 DEF TypeOK, PostEvent, control, loop

LEMMA OwnerStepType ==
  ASSUME TypeOK, NEW o \in Owner, OwnerStep(o)
  PROVE  TypeOK'
<1> USE DEF TypeOK, Status, control, lists, loop
<1>1. CASE Start(o)
  <2>1. pc' \in [Worker -> Line] /\ m_hThread' \in Worker \cup {Nil}
    BY <1>1 DEF Start, Line
  <2>2. /\ m_nStatus' = "run" /\ quiet' = FALSE /\ late' = 0
        /\ UNCHANGED <<m_bWorking, m_mtThread, call, pPos, pEventTask>>
        /\ UNCHANGED <<m_mtTask, m_lstFull, m_lstFree, m_nID, m_nTime, held>>
    BY <1>1 DEF Start
  <2>3. quiet' \in BOOLEAN /\ m_bWorking' \in BOOLEAN
    BY <2>2, Zenon
  <2>4. late' \in 0..2
    BY <2>2
  <2>5. m_nStatus' \in Status
    BY <2>2
  <2> QED BY <2>1, <2>2, <2>3, <2>4, <2>5
<1>2. CASE Pause(o)
  BY <1>2 DEF Pause
<1>3. CASE PauseReturns(o)
  BY <1>3 DEF PauseReturns
<1>4. CASE Stop(o)
  BY <1>4 DEF Stop
<1>5. CASE StopReturns(o)
  BY <1>5 DEF StopReturns
<1>6. CASE Delete(o)
  BY <1>6 DEF Delete
<1>7. CASE DeleteReturns(o)
  <2>1. <<>> \in Seq(Event)
    OBVIOUS
  <2> QED BY <1>7, <2>1 DEF DeleteReturns
<1>8. CASE OwnerGetFree(o)
  BY <1>8, GetFreeType DEF OwnerGetFree
<1>9. CASE OwnerPost(o)
  BY <1>9, PostEventType DEF OwnerPost
<1> QED BY <1>1, <1>2, <1>3, <1>4, <1>5, <1>6, <1>7, <1>8, <1>9
         DEF OwnerStep, OwnerReturns

LEMMA WorkerStepType ==
  ASSUME TypeOK, NEW w \in Worker, WorkerStep(w)
  PROVE  TypeOK'
<1> USE DEF TypeOK, Status, Line, control, lists, loop, Goto
<1>1. CASE TestStatus(w)
  BY <1>1 DEF TestStatus
<1>2. CASE ClearWorking(w)
  BY <1>2 DEF ClearWorking
<1>3. CASE CheckPause(w)
  BY <1>3 DEF CheckPause
<1>4. CASE MarkWorking(w)
  BY <1>4 DEF MarkWorking
<1>5. CASE OnWork(w)
  BY <1>5 DEF OnWork
<1>6. CASE ReadHead(w)
  <2>1. ScanStart \in Event \cup {Nil}
    BY HeadTailProperties DEF ScanStart
  <2> QED BY <1>6, <2>1 DEF ReadHead
<1>7. CASE Scan(w)
  <2>1. Following(m_lstFull, pPos[w]) \in Event \cup {Nil}
    BY FollowingType, RangeType
  <2> QED BY <1>7, <2>1 DEF Scan
<1>8. CASE ScanEnds(w)
  BY <1>8 DEF ScanEnds
<1>9. CASE FirePlain(w)
  BY <1>9 DEF FirePlain
<1>10. CASE FireReset(w)
  BY <1>10 DEF FireReset
<1>11. CASE ResetOne(w)
  BY <1>11, RemoveAtProperties DEF ResetOne
<1>12. CASE ResetEnds(w)
  BY <1>12 DEF ResetEnds
<1>13. CASE FireRemove(w)
  BY <1>13, RemoveAtProperties DEF FireRemove
<1>14. CASE HandlerGetFree(w)
  BY <1>14, GetFreeType DEF HandlerGetFree
<1>15. CASE HandlerPost(w)
  BY <1>15, PostEventType DEF HandlerPost
<1>16. CASE Fired(w)
  BY <1>16 DEF Fired
<1>17. CASE Recycle(w)
  <2>1. CASE UNCHANGED <<m_lstFull, m_lstFree>>
    BY <1>17, <2>1 DEF Recycle
  <2>2. ASSUME NEW i \in 1..Len(m_lstFull), m_lstFull[i] = pEventTask[w],
               m_lstFull' = AfterFire(i), m_lstFree' = Append(m_lstFree, pEventTask[w])
        PROVE  TypeOK'
    <3>1. m_lstFull' \in Seq(Event)
      BY <2>2, RemoveAtProperties DEF AfterFire
    <3>2. m_lstFree' \in Seq(Event)
      BY <2>2
    <3> QED BY <1>17, <3>1, <3>2 DEF Recycle
  <2> QED BY <1>17, <2>1, <2>2 DEF Recycle
<1>18. CASE OnStop(w)
  BY <1>18 DEF OnStop
<1>19. CASE ClearHandle(w)
  BY <1>19 DEF ClearHandle, FinalHandle
<1>20. CASE LeaveLoop(w)
  BY <1>20 DEF LeaveLoop
<1> QED BY <1>1, <1>2, <1>3, <1>4, <1>5, <1>6, <1>7, <1>8, <1>9, <1>10,
            <1>11, <1>12, <1>13, <1>14, <1>15, <1>16, <1>17, <1>18, <1>19, <1>20
         DEF WorkerStep

(* Every variable keeps its type, whatever the threads do. *)
THEOREM TypeCorrect == Spec => []TypeOK
<1>1. Init => TypeOK
  <2>1. (CHOOSE id \in ID : TRUE) \in ID
    BY IDAssumption DEF IDAssumption
  <2>2. <<>> \in Seq(Event)
    OBVIOUS
  <2> SUFFICES ASSUME Init PROVE TypeOK
    OBVIOUS
  <2>3. m_nID \in [Event -> ID] /\ m_nTime \in [Event -> {"zero", "future", "past"}]
    BY <2>1 DEF Init
  <2>4. m_lstFull \in Seq(Event) /\ m_lstFree \in Seq(Event)
    BY <2>2 DEF Init
  <2>5. /\ held \in [Owner \cup Worker -> Event \cup {Nil}]
        /\ pPos \in [Worker -> Event \cup {Nil}]
        /\ pEventTask \in [Worker -> Event \cup {Nil}]
        /\ pc \in [Worker -> Line]
        /\ call \in [Owner -> {"idle", "pausing", "stopping", "deleting", "deleted"}]
    BY DEF Init, Line
  <2>6. quiet \in BOOLEAN /\ m_bWorking \in BOOLEAN
    BY Zenon DEF Init
  <2>7. late \in 0..2 /\ m_nStatus \in Status
    BY DEF Init, Status
  <2>8. /\ m_hThread \in Worker \cup {Nil} /\ m_mtThread \in Owner \cup {Nil}
        /\ m_mtTask \in Worker \cup {Nil}
    BY DEF Init
  <2> QED BY <2>3, <2>4, <2>5, <2>6, <2>7, <2>8, Zenon DEF TypeOK
<1>2. TypeOK /\ [Next]_vars => TypeOK'
  <2> SUFFICES ASSUME TypeOK, [Next]_vars PROVE TypeOK'
    OBVIOUS
  <2>1. CASE \E o \in Owner : OwnerStep(o)
    BY <2>1, OwnerStepType
  <2>2. CASE \E w \in Worker : WorkerStep(w)
    BY <2>2, WorkerStepType
  <2>3. CASE \E e \in Event : Expire(e)
    BY <2>3 DEF Expire, TypeOK, control, loop
  <2>4. CASE UNCHANGED vars
    BY <2>4 DEF TypeOK, vars, control, lists, loop
  <2> QED BY <2>1, <2>2, <2>3, <2>4 DEF Next, Deleted
<1> QED BY <1>1, <1>2, PTL DEF Spec

-----------------------------------------------------------------------------
(* Threads *)

(* The handle names the only thread in the loop; after Stop there is no     *)
(* handle; and a worker that passed its test of m_nStatus before the status *)
(* became "pause" is the only one that can begin a pass after Pause.        *)
HandleInv == \A w \in Worker : InLoop(w) => m_hThread = w
QuietInv  == quiet => m_hThread = Nil
LateInv   == /\ late <= 1
             /\ late = 1 /\ m_nStatus = "pause" /\ ~Pausing
                  => \A w \in Worker : pc[w] # "mark"
ControlInv == HandleInv /\ QuietInv /\ LateInv

LEMMA NilIsNoWorker == Nil \notin Worker
BY NilAssumption

(* Steps on the lists, or of the clock, leave the control state alone. *)
LEMMA ControlUnchanged ==
  ASSUME ControlInv, UNCHANGED <<control, loop>>
  PROVE  ControlInv'
BY DEF ControlInv, HandleInv, QuietInv, LateInv, InLoop, Pausing, control, loop

LEMMA OwnerStepControl ==
  ASSUME TypeOK, ControlInv, NEW o \in Owner, OwnerStep(o)
  PROVE  ControlInv'
<1> USE NilIsNoWorker
<1> USE DEF ControlInv, HandleInv, QuietInv, InLoop, loop
<1>1. CASE Start(o)
  <2>1. HandleInv'
    <3>1. CASE m_hThread = Nil
      BY <1>1, <3>1 DEF Start, NeedsThread, TypeOK
    <3>2. CASE m_hThread # Nil
      BY <1>1, <3>2 DEF Start, NeedsThread
    <3> QED BY <3>1, <3>2
  <2>2. QuietInv' /\ LateInv'
    BY <1>1 DEF Start, LateInv
  <2> QED BY <2>1, <2>2
<1>2. CASE Pause(o)
  <2>1. LateInv'
    <3>1. Pausing'
      BY <1>2 DEF Pause, Pausing, TypeOK
    <3> QED BY <1>2, <3>1 DEF Pause, LateInv
  <2> QED BY <1>2, <2>1 DEF Pause
<1>3. CASE PauseReturns(o)
  BY <1>3 DEF PauseReturns, LateInv
<1>4. CASE Stop(o)
  BY <1>4 DEF Stop, LateInv
<1>5. CASE StopReturns(o)
  <2>1. LateInv'
    BY <1>5 DEF StopReturns, LateInv, Pausing, TypeOK
  <2> QED BY <1>5, <2>1 DEF StopReturns, ThreadGone
<1>6. CASE Delete(o)
  BY <1>6 DEF Delete, LateInv
<1>7. CASE DeleteReturns(o)
  <2>1. LateInv'
    BY <1>7 DEF DeleteReturns, LateInv, Pausing, TypeOK
  <2> QED BY <1>7, <2>1 DEF DeleteReturns, ThreadGone
<1>8. CASE OwnerGetFree(o)
  BY <1>8, ControlUnchanged DEF OwnerGetFree, GetFree
<1>9. CASE OwnerPost(o)
  BY <1>9, ControlUnchanged DEF OwnerPost, PostEvent
<1> QED BY <1>1, <1>2, <1>3, <1>4, <1>5, <1>6, <1>7, <1>8, <1>9
         DEF OwnerStep, OwnerReturns

(* A worker that moves from one line of the loop to another one, and does   *)
(* not change the control state, keeps the invariant unless the new line    *)
(* is the write of m_bWorking.                                              *)
LEMMA GotoControl ==
  ASSUME TypeOK, ControlInv, NEW w \in Worker, NEW l, InLoop(w), Goto(w, l),
         l # "mark" \/ m_nStatus # "pause", UNCHANGED control
  PROVE  ControlInv'
BY DEF TypeOK, ControlInv, HandleInv, QuietInv, LateInv, InLoop, Goto, Pausing, control

LEMMA WorkerStepControl ==
  ASSUME TypeOK, ControlInv, NEW w \in Worker, WorkerStep(w)
  PROVE  ControlInv'
<1> USE NilIsNoWorker
<1>1. CASE TestStatus(w)
  BY <1>1, GotoControl DEF TestStatus, InLoop
<1>2. CASE ClearWorking(w)
  BY <1>2 DEF ClearWorking, TypeOK, ControlInv, HandleInv, QuietInv, LateInv,
              InLoop, Goto, Pausing
<1>3. CASE CheckPause(w)
  BY <1>3, GotoControl DEF CheckPause, SeesPause, InLoop
<1>4. CASE MarkWorking(w)
  <2>1. HandleInv' /\ QuietInv'
    BY <1>4 DEF MarkWorking, TypeOK, ControlInv, HandleInv, QuietInv, InLoop, Goto
  <2>2. \A v \in Worker : pc'[v] # "mark"
    BY <1>4 DEF MarkWorking, TypeOK, ControlInv, HandleInv, InLoop, Goto
  <2>3. late' <= 1
    BY <1>4 DEF MarkWorking, TypeOK, ControlInv, LateInv
  <2> QED BY <2>1, <2>2, <2>3 DEF ControlInv, LateInv
<1>5. CASE OnWork(w)
  <2>1. HandleInv' /\ QuietInv'
    BY <1>5 DEF OnWork, TypeOK, ControlInv, HandleInv, QuietInv, InLoop, Goto
  <2>2. LateInv'
    BY <1>5 DEF OnWork, TypeOK, ControlInv, LateInv, Goto, Pausing
  <2> QED BY <2>1, <2>2 DEF ControlInv
<1>6. CASE ReadHead(w)
  BY <1>6, GotoControl DEF ReadHead, InLoop
<1>7. CASE Scan(w)
  BY <1>7, GotoControl, ControlUnchanged DEF Scan, InLoop, ControlInv, HandleInv,
     QuietInv, LateInv, Pausing, control
<1>8. CASE ScanEnds(w)
  BY <1>8, GotoControl DEF ScanEnds, InLoop
<1>9. CASE FirePlain(w)
  BY <1>9, GotoControl DEF FirePlain, InLoop
<1>10. CASE FireReset(w)
  BY <1>10, GotoControl DEF FireReset, InLoop
<1>11. CASE ResetOne(w)
  BY <1>11, ControlUnchanged DEF ResetOne
<1>12. CASE ResetEnds(w)
  BY <1>12, GotoControl DEF ResetEnds, InLoop
<1>13. CASE FireRemove(w)
  BY <1>13, GotoControl DEF FireRemove, InLoop
<1>14. CASE HandlerGetFree(w)
  BY <1>14, ControlUnchanged DEF HandlerGetFree, GetFree
<1>15. CASE HandlerPost(w)
  BY <1>15, ControlUnchanged DEF HandlerPost, PostEvent
<1>16. CASE Fired(w)
  BY <1>16, GotoControl DEF Fired, InLoop
<1>17. CASE Recycle(w)
  BY <1>17, GotoControl DEF Recycle, InLoop
<1>18. CASE OnStop(w)
  BY <1>18, GotoControl DEF OnStop, InLoop
<1>19. CASE ClearHandle(w)
  BY <1>19 DEF ClearHandle, FinalHandle, TypeOK, ControlInv, HandleInv, QuietInv,
               LateInv, InLoop, Goto, Pausing
<1>20. CASE LeaveLoop(w)
  BY <1>20 DEF LeaveLoop, TypeOK, ControlInv, HandleInv, QuietInv, LateInv,
               InLoop, Goto, Pausing
<1> QED BY <1>1, <1>2, <1>3, <1>4, <1>5, <1>6, <1>7, <1>8, <1>9, <1>10,
            <1>11, <1>12, <1>13, <1>14, <1>15, <1>16, <1>17, <1>18, <1>19, <1>20
         DEF WorkerStep

THEOREM ControlCorrect == Spec => []ControlInv
<1>1. Init => ControlInv
  BY DEF Init, ControlInv, HandleInv, QuietInv, LateInv, InLoop
<1>2. TypeOK /\ ControlInv /\ [Next]_vars => ControlInv'
  <2> SUFFICES ASSUME TypeOK, ControlInv, [Next]_vars PROVE ControlInv'
    OBVIOUS
  <2>1. CASE \E o \in Owner : OwnerStep(o)
    BY <2>1, OwnerStepControl
  <2>2. CASE \E w \in Worker : WorkerStep(w)
    BY <2>2, WorkerStepControl
  <2>3. CASE \E e \in Event : Expire(e)
    BY <2>3, ControlUnchanged DEF Expire
  <2>4. CASE UNCHANGED vars
    BY <2>4, ControlUnchanged DEF vars
  <2> QED BY <2>1, <2>2, <2>3, <2>4 DEF Next, Deleted
<1> QED BY <1>1, <1>2, TypeCorrect, PTL DEF Spec

(* At most one thread of the object can call into the owner. *)
THEOREM OneWorkerCorrect == Spec => []OneWorker
<1>1. ControlInv => OneWorker
  BY DEF ControlInv, HandleInv, OneWorker
<1> QED BY <1>1, ControlCorrect, PTL

(* When Stop has returned, no thread calls into the owner before Start. *)
THEOREM StoppedIsQuietCorrect == Spec => []StoppedIsQuiet
<1>1. ControlInv => StoppedIsQuiet
  BY NilIsNoWorker DEF ControlInv, HandleInv, QuietInv, StoppedIsQuiet
<1> QED BY <1>1, ControlCorrect, PTL

(* After Pause returned the worker begins at most one more pass. *)
THEOREM PauseCorrect == Spec => []AtMostOnePassAfterPause
<1>1. ControlInv => AtMostOnePassAfterPause
  BY DEF ControlInv, LateInv, AtMostOnePassAfterPause
<1> QED BY <1>1, ControlCorrect, PTL

-----------------------------------------------------------------------------
(* Event objects *)

(* OnePlace and NothingDangles together are inductive under NoSelfReset:    *)
(* no handler can withdraw the event that is being fired, and no second     *)
(* worker is in the loop whose position a withdrawal could leave dangling.  *)
ListInv == OnePlace /\ NothingDangles

(* What a position or an event kept by the loop needs from a step of others.*)
LEMMA StillNothingDangles ==
  ASSUME NothingDangles, UNCHANGED loop, Range(m_lstFull) \subseteq Range(m_lstFull')
  PROVE  NothingDangles'
BY DEF NothingDangles, Firing, loop

LEMMA StillOnePlace ==
  ASSUME OnePlace, UNCHANGED <<m_lstFull, m_lstFree, held>>
  PROVE  OnePlace'
BY DEF OnePlace

(* Withdrawing an event leaves every other event in its one place. *)
LEMMA RemoveOnePlace ==
  ASSUME TypeOK, OnePlace, NEW i \in 1..Len(m_lstFull),
         m_lstFull' = RemoveAt(m_lstFull, i), UNCHANGED <<m_lstFree, held>>
  PROVE  OnePlace' /\ Range(m_lstFull') = Range(m_lstFull) \ {m_lstFull[i]}
<1>1. m_lstFull \in Seq(Event) /\ IsInjective(m_lstFull)
  BY DEF TypeOK, OnePlace
<1>2. /\ IsInjective(m_lstFull')
      /\ Range(m_lstFull') = Range(m_lstFull) \ {m_lstFull[i]}
  BY <1>1, RemoveAtDistinct
<1> QED BY <1>2 DEF OnePlace

LEMMA GetFreeList ==
  ASSUME TypeOK, ListInv, NEW a \in Owner \cup Worker, NEW id \in ID, GetFree(a, id)
  PROVE  ListInv'
<1>1. NothingDangles'
  BY StillNothingDangles DEF ListInv, GetFree
<1>2. CASE m_lstFree # <<>>
  <2> DEFINE e == Head(m_lstFree)
  <2>1. /\ IsInjective(m_lstFree') /\ e \in Range(m_lstFree)
        /\ Range(m_lstFree') = Range(m_lstFree) \ {e}
    <3>1. m_lstFree \in Seq(Event) /\ IsInjective(m_lstFree)
      BY DEF TypeOK, ListInv, OnePlace
    <3>2. m_lstFree' = Tail(m_lstFree)
      BY <1>2 DEF GetFree
    <3> QED BY <1>2, <3>1, <3>2, TailDistinct
  <2>2. /\ m_lstFull' = m_lstFull
        /\ held' = [held EXCEPT ![a] = e]
    BY <1>2 DEF GetFree
  <2>3. \A b \in Owner \cup Worker : held[b] # e
    BY <2>1, NilAssumption, RangeType DEF TypeOK, ListInv, OnePlace
  <2> HIDE DEF e
  <2>4. OnePlace'
    BY <2>1, <2>2, <2>3 DEF TypeOK, ListInv, OnePlace
  <2> QED BY <1>1, <2>4 DEF ListInv
<1>3. CASE m_lstFree = <<>>
  <2>1. PICK e \in Event \ Allocated : held' = [held EXCEPT ![a] = e]
    BY <1>3 DEF GetFree
  <2>2. UNCHANGED <<m_lstFull, m_lstFree>>
    BY <1>3 DEF GetFree
  <2>3. /\ e \notin Range(m_lstFull) /\ e \notin Range(m_lstFree)
        /\ \A b \in Owner \cup Worker : held[b] # e
    BY <2>1 DEF Allocated
  <2>4. OnePlace'
    BY <2>1, <2>2, <2>3 DEF TypeOK, ListInv, OnePlace
  <2> QED BY <1>1, <2>4 DEF ListInv
<1> QED BY <1>2, <1>3

LEMMA PostEventList ==
  ASSUME TypeOK, ListInv, NEW a \in Owner \cup Worker, NEW delayed \in BOOLEAN,
         PostEvent(a, delayed)
  PROVE  ListInv'
<1> DEFINE e == held[a]
<1>1. e \in Event /\ e # Nil
  BY DEF TypeOK, PostEvent, HasEvent
<1>2. /\ m_lstFull' = Append(m_lstFull, e) /\ m_lstFree' = m_lstFree
      /\ held' = [held EXCEPT ![a] = Nil]
  BY DEF PostEvent, Queued
<1>3. /\ e \notin Range(m_lstFull) /\ e \notin Range(m_lstFree)
      /\ \A b \in Owner \cup Worker : held[b] = e => a = b
  BY <1>1 DEF ListInv, OnePlace
<1>4. IsInjective(m_lstFull') /\ Range(m_lstFull') = Range(m_lstFull) \cup {e}
  BY <1>1, <1>2, <1>3, AppendDistinct DEF TypeOK, ListInv, OnePlace
<1> HIDE DEF e
<1>5. OnePlace'
  BY <1>1, <1>2, <1>3, <1>4 DEF TypeOK, ListInv, OnePlace
<1>6. NothingDangles'
  BY <1>4, StillNothingDangles DEF PostEvent, ListInv
<1> QED BY <1>5, <1>6 DEF ListInv

LEMMA OwnerStepList ==
  ASSUME TypeOK, ControlInv, ListInv, NEW o \in Owner, OwnerStep(o)
  PROVE  ListInv'
<1>1. CASE Start(o)
  <2>1. OnePlace'
    BY <1>1, StillOnePlace DEF Start, lists, ListInv
  <2>2. NothingDangles'
    BY <1>1 DEF Start, lists, ListInv, NothingDangles, Firing, TypeOK
  <2> QED BY <2>1, <2>2 DEF ListInv
<1>2. CASE Pause(o) \/ PauseReturns(o) \/ Stop(o) \/ StopReturns(o) \/ Delete(o)
  BY <1>2, StillOnePlace, StillNothingDangles
     DEF Pause, PauseReturns, Stop, StopReturns, Delete, lists, ListInv
<1>3. CASE DeleteReturns(o)
  <2>1. \A w \in Worker : ~InLoop(w)
    BY <1>3, NilIsNoWorker DEF DeleteReturns, ThreadGone, ControlInv, HandleInv
  <2>2. NothingDangles'
    BY <1>3, <2>1 DEF DeleteReturns, NothingDangles, InLoop, Firing, loop
  <2>3. IsInjective(<<>>) /\ Range(<<>>) = {}
    BY DEF IsInjective, Range
  <2>4. m_lstFull' = <<>> /\ m_lstFree' = <<>> /\ held' = held
    BY <1>3 DEF DeleteReturns
  <2>5. OnePlace'
    BY <2>3, <2>4 DEF ListInv, OnePlace
  <2> QED BY <2>2, <2>5 DEF ListInv
<1>4. CASE OwnerGetFree(o)
  BY <1>4, GetFreeList DEF OwnerGetFree
<1>5. CASE OwnerPost(o)
  BY <1>5, PostEventList DEF OwnerPost
<1> QED BY <1>1, <1>2, <1>3, <1>4, <1>5 DEF OwnerStep, OwnerReturns

(* A worker that moves on without touching the lists still knows a posted   *)
(* event if its new position, and the event it fires, are posted.           *)
LEMMA GotoList ==
  ASSUME TypeOK, ListInv, NEW w \in Worker, NEW l, Goto(w, l),
         UNCHANGED <<m_lstFull, m_lstFree, held>>,
         \A v \in Worker \ {w} : pPos'[v] = pPos[v] /\ pEventTask'[v] = pEventTask[v],
         l = "scan" /\ pPos'[w] # Nil => pPos'[w] \in Range(m_lstFull),
         l \in {"fire", "reset", "body", "remove"} => pEventTask'[w] \in Range(m_lstFull)
  PROVE  ListInv'
<1>1. OnePlace'
  BY StillOnePlace DEF ListInv
<1>2. NothingDangles'
  <2> SUFFICES ASSUME NEW v \in Worker
               PROVE  /\ pc'[v] = "scan" /\ pPos'[v] # Nil => pPos'[v] \in Range(m_lstFull)
                      /\ pc'[v] \in {"fire", "reset", "body", "remove"}
                            => pEventTask'[v] \in Range(m_lstFull)
    BY DEF NothingDangles, Firing
  <2>1. CASE v = w
    BY <2>1 DEF Goto, TypeOK
  <2>2. CASE v # w
    BY <2>2 DEF Goto, TypeOK, ListInv, NothingDangles, Firing
  <2> QED BY <2>1, <2>2
<1> QED BY <1>1, <1>2 DEF ListInv

(* While w is in the loop no other worker keeps a position or an event. *)
LEMMA Alone ==
  ASSUME ControlInv, NEW w \in Worker, InLoop(w)
  PROVE  \A v \in Worker \ {w} : pc[v] # "scan" /\ ~Firing(v)
BY DEF ControlInv, HandleInv, InLoop, Firing

(* A handler withdraws an event other than the one being fired. *)
LEMMA WithdrawList ==
  ASSUME TypeOK, ControlInv, ListInv, NEW w \in Worker, Firing(w),
         NEW i \in 1..Len(m_lstFull), m_lstFull[i] # pEventTask[w],
         m_lstFull' = RemoveAt(m_lstFull, i),
         NEW l \in {"reset", "body"}, pc' = [pc EXCEPT ![w] = l],
         UNCHANGED <<m_lstFree, held, pPos, pEventTask>>
  PROVE  ListInv'
<1>1. OnePlace' /\ Range(m_lstFull') = Range(m_lstFull) \ {m_lstFull[i]}
  BY RemoveOnePlace DEF ListInv
<1>2. InLoop(w)
  BY DEF Firing, InLoop
<1>3. pEventTask[w] \in Range(m_lstFull')
  BY <1>1 DEF ListInv, NothingDangles
<1>4. NothingDangles'
  BY <1>2, <1>3, Alone DEF NothingDangles, Firing, TypeOK
<1> QED BY <1>1, <1>4 DEF ListInv

LEMMA WorkerStepList ==
  ASSUME NoSelfReset, TypeOK, ControlInv, ListInv, NEW w \in Worker, WorkerStep(w)
  PROVE  ListInv'
<1> USE DEF lists
<1>1. CASE TestStatus(w)
  BY <1>1, GotoList DEF TestStatus
<1>2. CASE ClearWorking(w)
  BY <1>2, GotoList DEF ClearWorking
<1>3. CASE CheckPause(w)
  BY <1>3, GotoList DEF CheckPause
<1>4. CASE MarkWorking(w)
  BY <1>4, GotoList DEF MarkWorking
<1>5. CASE OnWork(w)
  BY <1>5, GotoList DEF OnWork
<1>6. CASE ReadHead(w)
  <2>1. pPos'[w] # Nil => pPos'[w] \in Range(m_lstFull)
    BY <1>6, TailDistinct DEF ReadHead, ScanStart, TypeOK, ListInv, OnePlace
  <2>2. \A v \in Worker \ {w} : pPos'[v] = pPos[v]
    BY <1>6 DEF ReadHead, TypeOK
  <2> QED BY <1>6, <2>1, <2>2, GotoList DEF ReadHead
<1>7. CASE Scan(w)
  <2>1. pPos[w] \in Range(m_lstFull)
    BY <1>7 DEF Scan, ListInv, NothingDangles
  <2>2. Following(m_lstFull, pPos[w]) \in Range(m_lstFull) \cup {Nil}
    BY FollowingType DEF TypeOK
  <2>3. CASE Due(pPos[w])
    <3>1. /\ Goto(w, "fire") /\ UNCHANGED <<m_lstFull, m_lstFree, held>>
          /\ pEventTask'[w] = pPos[w]
          /\ \A v \in Worker \ {w} : pPos'[v] = pPos[v] /\ pEventTask'[v] = pEventTask[v]
      BY <1>7, <2>3 DEF Scan, TypeOK
    <3> QED BY <2>1, <3>1, GotoList
  <2>4. CASE ~Due(pPos[w])
    <3>1. /\ pPos'[w] = Following(m_lstFull, pPos[w])
          /\ \A v \in Worker \ {w} : pPos'[v] = pPos[v]
          /\ UNCHANGED <<m_lstFull, m_lstFree, held, pc, pEventTask>>
      BY <1>7, <2>4 DEF Scan, TypeOK
    <3>2. Goto(w, "scan")
      BY <1>7, <3>1 DEF Scan, Goto, TypeOK
    <3> QED BY <2>2, <3>1, <3>2, GotoList
  <2> QED BY <2>3, <2>4
<1>8. CASE ScanEnds(w)
  BY <1>8, GotoList DEF ScanEnds
<1>9. CASE FirePlain(w) \/ FireReset(w) \/ ResetEnds(w) \/ Fired(w)
  <2>1. pEventTask[w] \in Range(m_lstFull)
    BY <1>9 DEF FirePlain, FireReset, ResetEnds, Fired, Firing, ListInv, NothingDangles
  <2> QED BY <1>9, <2>1, GotoList DEF FirePlain, FireReset, ResetEnds, Fired
<1>10. CASE ResetOne(w)
  <2>1. PICK i \in 1..Len(m_lstFull) :
          /\ m_nID[m_lstFull[i]] = ResetBy[MyID(w)]
          /\ m_lstFull' = RemoveAt(m_lstFull, i)
    BY <1>10 DEF ResetOne, IsFirst
  <2>2. Firing(w) /\ pEventTask[w] \in Event
    BY <1>10, RangeType DEF ResetOne, Firing, ListInv, NothingDangles, TypeOK
  <2>3. m_lstFull[i] # pEventTask[w]
    BY <2>1, <2>2 DEF MyID, NoSelfReset, TypeOK
  <2>4. pc' = [pc EXCEPT ![w] = "reset"]
    BY <1>10 DEF ResetOne, loop, TypeOK
  <2> QED BY <1>10, <2>1, <2>2, <2>3, <2>4, WithdrawList DEF ResetOne, loop
<1>11. CASE FireRemove(w)
  <2>1. PICK i \in 1..Len(m_lstFull) :
          /\ m_nID[m_lstFull[i]] = RemoveBy[MyID(w)]
          /\ m_lstFull' = RemoveAt(m_lstFull, i)
    BY <1>11 DEF FireRemove, Matches
  <2>2. Firing(w) /\ pEventTask[w] \in Event
    BY <1>11, RangeType DEF FireRemove, Firing, ListInv, NothingDangles, TypeOK
  <2>3. m_lstFull[i] # pEventTask[w]
    BY <2>1, <2>2 DEF MyID, NoSelfReset, TypeOK
  <2> QED BY <1>11, <2>1, <2>2, <2>3, WithdrawList DEF FireRemove, Goto
<1>12. CASE HandlerGetFree(w)
  BY <1>12, GetFreeList DEF HandlerGetFree
<1>13. CASE HandlerPost(w)
  BY <1>13, PostEventList DEF HandlerPost
<1>14. CASE Recycle(w)
  <2>1. CASE pEventTask[w] \notin Range(m_lstFull)
    <3>1. UNCHANGED <<m_lstFull, m_lstFree, held>>
      BY <1>14, <2>1 DEF Recycle, Range, TypeOK
    <3> QED BY <1>14, <3>1, GotoList DEF Recycle, TypeOK
  <2>2. CASE pEventTask[w] \in Range(m_lstFull)
    <3>1. PICK i \in 1..Len(m_lstFull) :
            /\ m_lstFull[i] = pEventTask[w]
            /\ m_lstFull' = RemoveAt(m_lstFull, i)
            /\ m_lstFree' = Append(m_lstFree, pEventTask[w])
      BY <1>14, <2>2 DEF Recycle, AfterFire
    <3> DEFINE e == pEventTask[w]
    <3>2. e \in Event /\ e \notin Range(m_lstFree)
      BY <2>2, RangeType DEF ListInv, OnePlace, TypeOK
    <3>3. /\ IsInjective(m_lstFull') /\ Range(m_lstFull') = Range(m_lstFull) \ {e}
      BY <3>1, RemoveAtDistinct DEF ListInv, OnePlace, TypeOK
    <3>4. /\ IsInjective(m_lstFree') /\ Range(m_lstFree') = Range(m_lstFree) \cup {e}
      BY <3>1, <3>2, AppendDistinct DEF ListInv, OnePlace, TypeOK
    <3>5. held' = held /\ pc' = [pc EXCEPT ![w] = "test"]
      BY <1>14 DEF Recycle, Goto
    <3> HIDE DEF e
    <3>6. OnePlace'
      BY <2>2, <3>3, <3>4, <3>5 DEF ListInv, OnePlace, e
    <3>7. NothingDangles'
      BY <1>14, <3>5, Alone DEF NothingDangles, Recycle, InLoop, Firing, TypeOK
    <3> QED BY <3>6, <3>7 DEF ListInv
  <2> QED BY <2>1, <2>2
<1>15. CASE OnStop(w)
  BY <1>15, GotoList DEF OnStop
<1>16. CASE ClearHandle(w)
  BY <1>16, GotoList DEF ClearHandle
<1>17. CASE LeaveLoop(w)
  BY <1>17, GotoList DEF LeaveLoop
<1> QED BY <1>1, <1>2, <1>3, <1>4, <1>5, <1>6, <1>7, <1>8, <1>9, <1>10,
            <1>11, <1>12, <1>13, <1>14, <1>15, <1>16, <1>17
         DEF WorkerStep

(* If no handler withdraws its own id, the lists stay consistent. *)
THEOREM ListsCorrect ==
  ASSUME NoSelfReset
  PROVE  Spec => []ListInv
<1>1. Init => ListInv
  <2>1. IsInjective(<<>>) /\ Range(<<>>) = {}
    BY DEF IsInjective, Range
  <2> QED BY <2>1 DEF Init, ListInv, OnePlace, NothingDangles, Firing
<1>2. TypeOK /\ ControlInv /\ ListInv /\ [Next]_vars => ListInv'
  <2> SUFFICES ASSUME TypeOK, ControlInv, ListInv, [Next]_vars PROVE ListInv'
    OBVIOUS
  <2>1. CASE \E o \in Owner : OwnerStep(o)
    BY <2>1, OwnerStepList
  <2>2. CASE \E w \in Worker : WorkerStep(w)
    BY <2>2, WorkerStepList
  <2>3. CASE \E e \in Event : Expire(e)
    BY <2>3, StillOnePlace, StillNothingDangles DEF Expire, ListInv
  <2>4. CASE UNCHANGED vars
    BY <2>4, StillOnePlace, StillNothingDangles DEF vars, lists, ListInv
  <2> QED BY <2>1, <2>2, <2>3, <2>4 DEF Next, Deleted
<1> QED BY <1>1, <1>2, TypeCorrect, ControlCorrect, PTL DEF Spec

(* An event object is never in two places, so it is fired once per post,    *)
(* if no handler withdraws its own id (ResetEventByID, RemoveEvent).        *)
THEOREM OnePlaceCorrect ==
  ASSUME NoSelfReset
  PROVE  Spec => []OnePlace
<1>1. ListInv => OnePlace
  BY DEF ListInv
<1> QED BY <1>1, ListsCorrect, PTL

(* What the loop keeps across its unlocked regions stays a posted event, if *)
(* no handler withdraws its own id: lines 280-283 touch no freed event.     *)
THEOREM NothingDanglesCorrect ==
  ASSUME NoSelfReset
  PROVE  Spec => []NothingDangles
<1>1. ListInv => NothingDangles
  BY DEF ListInv
<1> QED BY <1>1, ListsCorrect, PTL

-----------------------------------------------------------------------------
(* The task queue: under NoSelfReset every step of the threads is a step of  *)
(* TaskQueue or none.                                                       *)

TaskMap == [e \in Event |-> TaskOf(e)]
NoneFires == \A w \in Worker : ~Firing(w)
OneFires(w, i) == /\ Firing(w) /\ \A v \in Worker \ {w} : ~Firing(v)
                  /\ i \in 1..Len(m_lstFull) /\ m_lstFull[i] = pEventTask[w]

(* The scan has passed over delayed events only. *)
ScanInv ==
  \A w \in Worker : \A i \in 1..Len(m_lstFull) :
    pc[w] = "scan" /\ m_lstFull[i] = pPos[w] =>
      \A j \in 1..(i - 1) : m_nTime[m_lstFull[j]] # "zero"

(* What waits and what runs, in the terms of the thread. *)
Seen == /\ NoneFires => /\ FiringAt = {} /\ Running = <<>>
                        /\ Waiting = Mapped(m_lstFull, TaskMap)
        /\ \A w \in Worker, i \in 1..Len(m_lstFull) : OneFires(w, i) =>
             /\ FiringAt = {i} /\ Running = <<TaskMap[m_lstFull[i]]>>
             /\ Waiting = Mapped(RemoveAt(m_lstFull, i), TaskMap)

LEMMA ListIsTyped ==
  ASSUME TypeOK
  PROVE  /\ Len(m_lstFull) \in Nat /\ DOMAIN m_lstFull = 1..Len(m_lstFull)
         /\ m_lstFull \in Seq(Event) /\ \A i \in 1..Len(m_lstFull) : m_lstFull[i] \in Event
  BY LenProperties, ElementOfSeq DEF TypeOK

LEMMA SeenIs == TypeOK /\ OnePlace => Seen
<1> SUFFICES ASSUME TypeOK, OnePlace PROVE Seen
  OBVIOUS
<1>0. \A s \in Seq(Event) :
        [k \in 1..Len(s) |-> TaskOf(s[k])] = Mapped(s, TaskMap)
  BY ElementOfSeq DEF Mapped, TaskMap
<1>1. ASSUME NoneFires
      PROVE  FiringAt = {} /\ Running = <<>> /\ Waiting = Mapped(m_lstFull, TaskMap)
  <2>1. FiringEvents = {}
    BY <1>1 DEF NoneFires, FiringEvents
  <2>2. FiringAt = {}
    BY <2>1 DEF FiringAt
  <2>3. Cardinality(FiringAt) = 0
    BY <2>2, FS_EmptySet
  <2>4. Running = <<>>
    BY <2>3 DEF Running
  <2>5. WaitingEvents = m_lstFull
    BY <2>2 DEF WaitingEvents
  <2> QED BY <1>0, <2>2, <2>4, <2>5, ListIsTyped DEF Waiting
<1>2. ASSUME NEW w \in Worker, NEW i \in 1..Len(m_lstFull), OneFires(w, i)
      PROVE  /\ FiringAt = {i} /\ Running = <<TaskMap[m_lstFull[i]]>>
             /\ Waiting = Mapped(RemoveAt(m_lstFull, i), TaskMap)
  <2>1. FiringEvents = {m_lstFull[i]}
    BY <1>2 DEF OneFires, FiringEvents
  <2>2. FiringAt = {i}
    BY <2>1, ListIsTyped DEF FiringAt, OnePlace, IsInjective
  <2>3. FiringPos = i
    BY <2>2 DEF FiringPos
  <2>4. Cardinality(FiringAt) = 1
    BY <2>2, FS_Singleton
  <2>5. Running = <<TaskOf(m_lstFull[i])>>
    BY <2>3, <2>4 DEF Running
  <2>6. WaitingEvents = RemoveAt(m_lstFull, i)
    BY <2>2, <2>3 DEF WaitingEvents
  <2>7. RemoveAt(m_lstFull, i) \in Seq(Event)
    BY ListIsTyped, RemoveAtProperties
  <2>8. Waiting = Mapped(RemoveAt(m_lstFull, i), TaskMap)
    BY <1>0, <2>6, <2>7 DEF Waiting
  <2>9. TaskMap[m_lstFull[i]] = TaskOf(m_lstFull[i])
    BY ListIsTyped DEF TaskMap
  <2> QED BY <2>2, <2>5, <2>8, <2>9, Zenon
<1> QED BY <1>1, <1>2 DEF Seen

LEMMA SeenNext == TypeOK' /\ OnePlace' => Seen'
  BY SeenIs, PTL

LEMMA TaskMapType ==
  ASSUME TypeOK, NEW e \in Event
  PROVE  /\ TaskMap[e] = TaskOf(e) /\ TaskOf(e).delayed = (m_nTime[e] # "zero")
         /\ TaskMap[e].delayed = (m_nTime[e] # "zero")
<1>1. TaskMap[e] = TaskOf(e)
  BY DEF TaskMap
<1> QED BY <1>1 DEF TaskOf

(* The worker that fires is alone and its event is posted. *)
LEMMA FiresAt ==
  ASSUME TypeOK, ControlInv, ListInv, NEW w \in Worker, Firing(w)
  PROVE  \E i \in 1..Len(m_lstFull) : OneFires(w, i)
<1>1. \A v \in Worker \ {w} : ~Firing(v)
  BY Alone DEF Firing, InLoop
<1>2. pEventTask[w] \in Range(m_lstFull)
  BY DEF ListInv, NothingDangles
<1> QED BY <1>1, <1>2, ListIsTyped DEF OneFires, Range

(* Steps that change no posted event and no event being fired. *)
LEMMA QueueKept ==
  ASSUME TypeOK, UNCHANGED m_lstFull, FiringEvents' = FiringEvents,
         \A e \in Event : e \in Range(m_lstFull) => TaskOf(e)' = TaskOf(e)
  PROVE  UNCHANGED TQ!vars
<1>1. FiringAt' = FiringAt
  BY DEF FiringAt
<1>2. FiringPos' = FiringPos
  BY <1>1 DEF FiringPos
<1>3. WaitingEvents' = WaitingEvents
  BY <1>1, <1>2 DEF WaitingEvents
<1>4. \A i \in 1..Len(m_lstFull) : TaskOf(m_lstFull[i])' = TaskOf(m_lstFull[i])
  <2>1. ASSUME NEW i \in 1..Len(m_lstFull) PROVE TaskOf(m_lstFull[i])' = TaskOf(m_lstFull[i])
    <3>1. m_lstFull[i] \in Event /\ m_lstFull[i] \in Range(m_lstFull)
      BY ListIsTyped DEF Range
    <3> QED BY <3>1 DEF TaskOf
  <2> QED BY <2>1
<1>5. Running' = Running
  <2>1. CASE FiringAt = {}
    <3>1. Cardinality(FiringAt) = 0 /\ Cardinality(FiringAt') = 0
      BY <1>1, <2>1, FS_EmptySet
    <3> QED BY <3>1 DEF Running
  <2>2. CASE FiringAt # {}
    <3>1. FiringPos \in 1..Len(m_lstFull)
      BY <2>2, ListIsTyped DEF FiringPos, FiringAt
    <3>2. TaskOf(m_lstFull[FiringPos])' = TaskOf(m_lstFull[FiringPos])
      BY <1>2, <1>4, <3>1 DEF TaskOf
    <3> QED BY <1>1, <1>2, <3>2 DEF Running
  <2> QED BY <2>1, <2>2
<1>6. Waiting' = Waiting
  <2>1. \A k \in 1..Len(WaitingEvents) : \E i \in 1..Len(m_lstFull) : WaitingEvents[k] = m_lstFull[i]
    <3>1. CASE FiringAt = {}
      BY <3>1 DEF WaitingEvents
    <3>2. CASE FiringAt # {}
      <4>1. FiringPos \in 1..Len(m_lstFull)
        BY <3>2, ListIsTyped DEF FiringPos, FiringAt
      <4>2. WaitingEvents = RemoveAt(m_lstFull, FiringPos)
        BY <3>2 DEF WaitingEvents
      <4>3. /\ Len(WaitingEvents) = Len(m_lstFull) - 1
            /\ \A j \in 1..(Len(m_lstFull) - 1) :
                 WaitingEvents[j] = IF j < FiringPos THEN m_lstFull[j] ELSE m_lstFull[j + 1]
        BY <4>1, <4>2, ListIsTyped, RemoveAtProperties
      <4> QED BY <4>3, ListIsTyped
    <3> QED BY <3>1, <3>2
  <2>2. \A k \in 1..Len(WaitingEvents) : TaskOf(WaitingEvents[k])' = TaskOf(WaitingEvents[k])
    <3> TAKE k \in 1..Len(WaitingEvents)
    <3>1. PICK i \in 1..Len(m_lstFull) : WaitingEvents[k] = m_lstFull[i]
      BY <2>1
    <3>2. WaitingEvents'[k] = m_lstFull'[i]
      BY <1>3, <3>1
    <3> QED BY <1>4, <3>1, <3>2 DEF TaskOf
  <2> QED BY <1>3, <2>2 DEF Waiting
<1> QED BY <1>5, <1>6 DEF TQ!vars

(* A worker that moves inside the handler, or outside of it. *)
LEMMA GotoQueue ==
  ASSUME TypeOK, NEW w \in Worker, NEW l, Goto(w, l),
         Firing(w) <=> l \in {"fire", "reset", "body", "remove"},
         UNCHANGED <<m_lstFull, m_nID, m_nTime, pEventTask>>
  PROVE  UNCHANGED TQ!vars
<1>1. \A v \in Worker : Firing(v)' <=> Firing(v)
  BY DEF Goto, Firing, TypeOK
<1>2. {v \in Worker : Firing(v)}' = {v \in Worker : Firing(v)}
  BY <1>1
<1>3. FiringEvents' = FiringEvents
  BY <1>2 DEF FiringEvents
<1>4. \A e \in Event : TaskOf(e)' = TaskOf(e)
  BY DEF TaskOf
<1> QED BY <1>3, <1>4, QueueKept

LEMMA ListsQueue ==
  ASSUME TypeOK, UNCHANGED <<m_lstFull, m_nID, m_nTime, pc, pEventTask>>
  PROVE  UNCHANGED TQ!vars
<1>1. FiringEvents' = FiringEvents
  BY DEF FiringEvents, Firing
<1>2. \A e \in Event : TaskOf(e)' = TaskOf(e)
  BY DEF TaskOf
<1> QED BY <1>1, <1>2, QueueKept

(* What the scan has passed over stays delayed and stays in front of it. *)
LEMMA ScanInvKept ==
  ASSUME TypeOK, ScanInv, UNCHANGED <<m_lstFull, pPos>>,
         \A w \in Worker : pc'[w] = "scan" => pc[w] = "scan",
         \A e \in Event : m_nTime[e] # "zero" => m_nTime'[e] # "zero"
  PROVE  ScanInv'
<1> SUFFICES ASSUME NEW w \in Worker, NEW i \in 1..Len(m_lstFull),
                    pc'[w] = "scan", m_lstFull[i] = pPos[w],
                    NEW j \in 1..(i - 1)
             PROVE  m_nTime'[m_lstFull[j]] # "zero"
  BY DEF ScanInv
<1>1. j \in 1..Len(m_lstFull) /\ m_lstFull[j] \in Event
  BY ListIsTyped
<1>2. m_nTime[m_lstFull[j]] # "zero"
  BY DEF ScanInv
<1> QED BY <1>1, <1>2

LEMMA ScanInvPost ==
  ASSUME TypeOK, ListInv, ScanInv, NEW a \in Owner \cup Worker, NEW delayed \in BOOLEAN,
         PostEvent(a, delayed)
  PROVE  ScanInv'
<1> DEFINE e == held[a]
<1>1. e \in Event /\ e \notin Range(m_lstFull)
  BY DEF TypeOK, PostEvent, HasEvent, ListInv, OnePlace
<1>2. /\ m_lstFull' = Append(m_lstFull, e) /\ UNCHANGED <<pc, pPos>>
      /\ \A x \in Event : x # e => m_nTime'[x] = m_nTime[x]
  BY <1>1 DEF PostEvent, Queued, loop, TypeOK
<1> HIDE DEF e
<1>3. /\ Len(m_lstFull') = Len(m_lstFull) + 1 /\ m_lstFull'[Len(m_lstFull) + 1] = e
      /\ \A k \in 1..Len(m_lstFull) : m_lstFull'[k] = m_lstFull[k]
  BY <1>1, <1>2, ListIsTyped, AppendProperties
<1> SUFFICES ASSUME NEW w \in Worker, NEW i \in 1..Len(m_lstFull'),
                    pc[w] = "scan", m_lstFull'[i] = pPos[w], NEW j \in 1..(i - 1)
             PROVE  m_nTime'[m_lstFull'[j]] # "zero"
  BY <1>2 DEF ScanInv
<1>4. pPos[w] \in Range(m_lstFull)
  <2>1. pPos[w] # Nil
    <3>1. m_lstFull'[i] \in Event
      BY <1>1, <1>3, ListIsTyped
    <3> QED BY <3>1, NilAssumption
  <2> QED BY <2>1 DEF ListInv, NothingDangles
<1>5. i \in 1..Len(m_lstFull)
  BY <1>1, <1>3, <1>4, ListIsTyped
<1>6. /\ m_lstFull'[i] = m_lstFull[i] /\ m_lstFull'[j] = m_lstFull[j]
      /\ j \in 1..Len(m_lstFull)
  BY <1>3, <1>5, ListIsTyped
<1>7. m_nTime[m_lstFull[j]] # "zero"
  BY <1>5, <1>6 DEF ScanInv
<1>8. m_lstFull[j] \in Event /\ m_lstFull[j] # e
  BY <1>1, <1>6, ListIsTyped DEF Range
<1> QED BY <1>2, <1>6, <1>7, <1>8

(* Nobody scans while an event is withdrawn or recycled. *)
LEMMA ScanInvAlone ==
  ASSUME \A w \in Worker : pc'[w] # "scan"
  PROVE  ScanInv'
  BY DEF ScanInv

LEMMA ScanInvFires ==
  ASSUME TypeOK, ControlInv, NEW w \in Worker, Firing(w), NEW l, Goto(w, l), l # "scan"
  PROVE  ScanInv'
<1>1. \A v \in Worker \ {w} : pc[v] # "scan"
  BY Alone DEF Firing, InLoop
<1> QED BY <1>1, ScanInvAlone DEF Goto, TypeOK

LEMMA ScanInvScan ==
  ASSUME TypeOK, ControlInv, ListInv, ScanInv, NEW w \in Worker, Scan(w)
  PROVE  ScanInv'
<1>1. pc[w] = "scan" /\ \A v \in Worker \ {w} : pc[v] # "scan"
  BY Alone DEF Scan, InLoop
<1>2. CASE Due(pPos[w])
  <2>1. pc' = [pc EXCEPT ![w] = "fire"]
    BY <1>2 DEF Scan, Goto
  <2> QED BY <1>1, <2>1, ScanInvAlone DEF TypeOK
<1>3. CASE ~Due(pPos[w])
  <2>1. /\ pPos' = [pPos EXCEPT ![w] = Following(m_lstFull, pPos[w])]
        /\ UNCHANGED <<pc, m_lstFull, m_nTime>>
    BY <1>3 DEF Scan, lists
  <2>2. m_nTime[pPos[w]] = "future"
    BY <1>3 DEF Due
  <2> SUFFICES ASSUME NEW i \in 1..Len(m_lstFull),
                      m_lstFull[i] = Following(m_lstFull, pPos[w]),
                      NEW j \in 1..(i - 1)
               PROVE  m_nTime[m_lstFull[j]] # "zero"
    BY <1>1, <2>1 DEF ScanInv, TypeOK
  <2>3. m_lstFull[i] # Nil
    BY ListIsTyped, NilAssumption
  <2>4. PICK k \in 1..(Len(m_lstFull) - 1) :
          m_lstFull[k] = pPos[w] /\ Following(m_lstFull, pPos[w]) = m_lstFull[k + 1]
    <3> DEFINE P(k) == m_lstFull[k] = pPos[w]
               n == CHOOSE k \in 1..(Len(m_lstFull) - 1) : P(k)
    <3>1. \E k \in 1..(Len(m_lstFull) - 1) : P(k)
      BY <2>3 DEF Following
    <3>2. n \in 1..(Len(m_lstFull) - 1) /\ P(n)
      BY <3>1
    <3>3. Following(m_lstFull, pPos[w]) = m_lstFull[n + 1]
      BY <3>1 DEF Following
    <3> QED BY <3>2, <3>3
  <2>5. i = k + 1
    BY <2>4, ListIsTyped DEF ListInv, OnePlace, IsInjective
  <2>6. CASE j = k
    BY <2>2, <2>4, <2>6
  <2>7. CASE j # k
    <3>1. j \in 1..(k - 1) /\ k \in 1..Len(m_lstFull)
      BY <2>5, <2>7, ListIsTyped
    <3> QED BY <1>1, <2>4, <3>1 DEF ScanInv
  <2> QED BY <2>6, <2>7
<1> QED BY <1>2, <1>3

LEMMA ScanInvNext ==
  ASSUME NoSelfReset, TypeOK, ControlInv, ListInv, ScanInv, [Next]_vars
  PROVE  ScanInv'
<1>1. ASSUME NEW a \in Owner \cup Worker, NEW id \in ID, GetFree(a, id) PROVE ScanInv'
  BY <1>1, ScanInvKept DEF GetFree, loop
<1>2. ASSUME NEW o \in Owner, OwnerStep(o) PROVE ScanInv'
  <2>1. CASE Start(o)
    <3>1. \A w \in Worker : pc'[w] = "scan" => pc[w] = "scan"
      BY <2>1 DEF Start, TypeOK
    <3> QED BY <2>1, <3>1, ScanInvKept DEF Start, lists
  <2>2. CASE Pause(o) \/ PauseReturns(o) \/ Stop(o) \/ StopReturns(o) \/ Delete(o)
    BY <2>2, ScanInvKept DEF Pause, PauseReturns, Stop, StopReturns, Delete, lists, loop
  <2>3. CASE DeleteReturns(o)
    <3>1. \A w \in Worker : ~InLoop(w)
      BY <2>3, NilIsNoWorker DEF DeleteReturns, ThreadGone, ControlInv, HandleInv
    <3> QED BY <2>3, <3>1, ScanInvAlone DEF DeleteReturns, InLoop, loop
  <2>4. CASE OwnerGetFree(o)
    BY <1>1, <2>4 DEF OwnerGetFree
  <2>5. CASE OwnerPost(o)
    BY <2>5, ScanInvPost DEF OwnerPost
  <2> QED BY <1>2, <2>1, <2>2, <2>3, <2>4, <2>5 DEF OwnerStep, OwnerReturns
<1>3. ASSUME NEW w \in Worker, WorkerStep(w) PROVE ScanInv'
  <2>1. ASSUME NEW l, Goto(w, l), l # "scan", UNCHANGED <<m_lstFull, m_nTime, pPos>>
        PROVE  ScanInv'
    <3>1. \A v \in Worker : pc'[v] = "scan" => pc[v] = "scan"
      BY <2>1 DEF Goto, TypeOK
    <3> QED BY <2>1, <3>1, ScanInvKept
  <2>2. CASE TestStatus(w) \/ ClearWorking(w) \/ CheckPause(w) \/ MarkWorking(w) \/ OnWork(w)
    BY <2>1, <2>2 DEF TestStatus, ClearWorking, CheckPause, MarkWorking, OnWork, lists
  <2>3. CASE ReadHead(w)
    <3>1. /\ pc' = [pc EXCEPT ![w] = "scan"] /\ pPos' = [pPos EXCEPT ![w] = ScanStart]
          /\ UNCHANGED <<m_lstFull, m_nTime>> /\ pc[w] = "head"
      BY <2>3 DEF ReadHead, Goto, lists
    <3>2. \A v \in Worker \ {w} : pc[v] # "scan"
      BY <3>1, Alone DEF InLoop
    <3> SUFFICES ASSUME NEW i \in 1..Len(m_lstFull), m_lstFull[i] = ScanStart
                 PROVE  i = 1
      BY <3>1, <3>2 DEF ScanInv, TypeOK
    <3>3. ScanStart = m_lstFull[1] /\ 1 \in 1..Len(m_lstFull)
      BY ListIsTyped DEF ScanStart
    <3> QED BY <3>3, ListIsTyped DEF ListInv, OnePlace, IsInjective
  <2>4. CASE Scan(w)
    BY <2>4, ScanInvScan
  <2>5. CASE ScanEnds(w) \/ OnStop(w) \/ ClearHandle(w) \/ LeaveLoop(w)
    BY <2>1, <2>5 DEF ScanEnds, OnStop, ClearHandle, LeaveLoop, lists
  <2>6. CASE FirePlain(w) \/ FireReset(w) \/ ResetEnds(w) \/ FireRemove(w) \/ Fired(w) \/ Recycle(w)
    BY <2>6, ScanInvFires
    DEF FirePlain, FireReset, ResetEnds, FireRemove, Fired, Recycle, Firing
  <2>7. CASE ResetOne(w)
    <3>1. Firing(w) /\ Goto(w, "reset")
      BY <2>7 DEF ResetOne, Firing, Goto, loop, TypeOK
    <3> QED BY <3>1, ScanInvFires
  <2>8. CASE HandlerGetFree(w)
    BY <1>1, <2>8 DEF HandlerGetFree
  <2>9. CASE HandlerPost(w)
    BY <2>9, ScanInvPost DEF HandlerPost
  <2> QED BY <1>3, <2>2, <2>3, <2>4, <2>5, <2>6, <2>7, <2>8, <2>9 DEF WorkerStep
<1>4. ASSUME NEW e \in Event, Expire(e) PROVE ScanInv'
  <2>1. \A x \in Event : m_nTime[x] # "zero" => m_nTime'[x] # "zero"
    BY <1>4 DEF Expire, TypeOK
  <2> QED BY <1>4, <2>1, ScanInvKept DEF Expire, loop
<1>5. CASE UNCHANGED vars
  BY <1>5, ScanInvKept DEF vars, lists, loop
<1> QED BY <1>2, <1>3, <1>4, <1>5 DEF Next, Deleted

(* A post appends to what waits, whether or not an event is being fired. *)
LEMMA PostQueue ==
  ASSUME TypeOK, TypeOK', ControlInv, ListInv, ListInv', NEW a \in Owner \cup Worker,
         NEW delayed \in BOOLEAN, PostEvent(a, delayed)
  PROVE  TQ!Post
<1> DEFINE e == held[a]
           s == m_lstFull
           f == TaskMap
           g == TaskMap'
<1>1. e \in Event /\ e \notin Range(m_lstFull)
  BY DEF TypeOK, PostEvent, HasEvent, ListInv, OnePlace
<1>2. /\ m_lstFull' = Append(m_lstFull, e) /\ UNCHANGED <<pc, pEventTask, m_nID>>
      /\ m_nTime' = [m_nTime EXCEPT ![e] = IF delayed THEN "future" ELSE "zero"]
  BY DEF PostEvent, Queued, loop
<1>3. SameBut(f, g, Event, e)
  <2>1. \A x \in Event : x # e => TaskOf(x)' = TaskOf(x)
    BY <1>1, <1>2 DEF TaskOf, TypeOK
  <2> QED BY <2>1 DEF SameBut, TaskMap
<1>4. g[e] \in TQ!Task
  <2>1. g[e] = [id |-> m_nID'[e], delayed |-> m_nTime'[e] # "zero"]
    BY <1>1 DEF TaskMap, TaskOf
  <2>2. m_nID'[e] \in ID /\ (m_nTime'[e] # "zero") \in BOOLEAN
    <3>1. m_nID'[e] \in ID
      BY <1>1 DEF TypeOK
    <3>2. (m_nTime'[e] # "zero") \in BOOLEAN
      BY Zenon
    <3> QED BY <3>1, <3>2
  <2> HIDE DEF e
  <2> DEFINE d == m_nTime'[e] # "zero"
  <2>3. g[e] = [id |-> m_nID'[e], delayed |-> d] /\ d \in BOOLEAN
    BY <2>1, <2>2
  <2> HIDE DEF d
  <2> QED BY <2>2, <2>3 DEF TQ!Task
<1>5. Seen /\ Seen'
  BY SeenIs, SeenNext DEF ListInv
<1>6. \A w \in Worker : Firing(w)' <=> Firing(w)
  BY <1>2 DEF Firing
<1>7. /\ m_lstFull \in Seq(Event)
      /\ Len(m_lstFull') = Len(m_lstFull) + 1
      /\ \A k \in 1..Len(m_lstFull) : m_lstFull'[k] = m_lstFull[k]
  <2> HIDE DEF e
  <2> QED BY <1>1, <1>2, ListIsTyped, AppendProperties
<1>8. CASE NoneFires
  <2>1. NoneFires'
    BY <1>6, <1>8 DEF NoneFires
  <2>2. Waiting = Mapped(m_lstFull, f) /\ Waiting' = Mapped(m_lstFull', g)
        /\ Running = <<>> /\ Running' = <<>>
    BY <1>5, <1>8, <2>1 DEF Seen
  <2> HIDE DEF e, f, g
  <2>3. Mapped(Append(m_lstFull, e), g) = Append(Mapped(m_lstFull, f), g[e])
    BY <1>1, <1>3, <1>7, MappedAppend
  <2>4. Waiting' = Append(Waiting, g[e]) /\ Running' = Running
    BY <1>2, <2>2, <2>3
  <2> QED BY <1>4, <2>4 DEF TQ!Post
<1>9. CASE ~NoneFires
  <2>1. PICK w \in Worker, i \in 1..Len(m_lstFull) : OneFires(w, i)
    BY <1>9, FiresAt DEF NoneFires
  <2>2. OneFires(w, i)' /\ i \in 1..Len(m_lstFull')
    BY <1>2, <1>6, <1>7, <2>1, ListIsTyped DEF OneFires
  <2>3. /\ Waiting = Mapped(RemoveAt(m_lstFull, i), f)
        /\ Waiting' = Mapped(RemoveAt(m_lstFull', i), g)
        /\ Running = <<f[m_lstFull[i]]>> /\ Running' = <<g[m_lstFull'[i]]>>
    BY <1>5, <2>1, <2>2 DEF Seen
  <2> HIDE DEF e, f, g
  <2>4. m_lstFull[i] \in Event /\ m_lstFull[i] # e /\ m_lstFull'[i] = m_lstFull[i]
    BY <1>1, <1>7, ListIsTyped DEF Range
  <2>5. Running' = Running
    BY <1>3, <2>3, <2>4 DEF SameBut
  <2>6. RemoveAt(m_lstFull', i) = Append(RemoveAt(m_lstFull, i), e)
    BY <1>1, <1>2, <1>7, RemoveAtAppend
  <2>7. RemoveAt(m_lstFull, i) \in Seq(Event) /\ e \notin Range(RemoveAt(m_lstFull, i))
    BY <1>1, <1>7, RemoveAtDistinct DEF ListInv, OnePlace
  <2>8. Mapped(Append(RemoveAt(m_lstFull, i), e), g) = Append(Mapped(RemoveAt(m_lstFull, i), f), g[e])
    BY <1>1, <1>3, <2>7, MappedAppend
  <2>9. Waiting' = Append(Waiting, g[e])
    BY <2>3, <2>6, <2>8
  <2> QED BY <1>4, <2>5, <2>9 DEF TQ!Post
<1> QED BY <1>8, <1>9

LEMMA GetFreeQueue ==
  ASSUME TypeOK, ListInv, NEW a \in Owner \cup Worker, NEW id \in ID, GetFree(a, id)
  PROVE  UNCHANGED TQ!vars
<1>1. UNCHANGED <<m_lstFull, m_nTime, pc, pEventTask>>
  BY DEF GetFree, loop
<1>2. \A e \in Event : e \in Range(m_lstFull) => m_nID'[e] = m_nID[e]
  <2>1. CASE m_lstFree # <<>>
    <3>1. Head(m_lstFree) \in Range(m_lstFree)
      BY <2>1, TailDistinct DEF TypeOK, ListInv, OnePlace
    <3>2. m_nID' = [m_nID EXCEPT ![Head(m_lstFree)] = id]
      BY <2>1 DEF GetFree
    <3> QED BY <3>1, <3>2 DEF TypeOK, ListInv, OnePlace
  <2>2. CASE m_lstFree = <<>>
    <3>1. PICK e \in Event \ Allocated : m_nID' = [m_nID EXCEPT ![e] = id]
      BY <2>2 DEF GetFree
    <3> QED BY <3>1 DEF TypeOK, Allocated
  <2> QED BY <2>1, <2>2
<1>3. FiringEvents' = FiringEvents
  BY <1>1 DEF FiringEvents, Firing
<1>4. \A e \in Event : e \in Range(m_lstFull) => TaskOf(e)' = TaskOf(e)
  BY <1>1, <1>2 DEF TaskOf
<1> QED BY <1>1, <1>3, <1>4, QueueKept

(* The scan finds the first event whose time has come: it begins, and all   *)
(* that it overtakes was posted with a delay.                               *)
LEMMA BeginQueue ==
  ASSUME TypeOK, TypeOK', ControlInv, ListInv, ListInv', ScanInv,
         NEW w \in Worker, Scan(w), Due(pPos[w])
  PROVE  TQ!Begin
<1>1. /\ pc[w] = "scan" /\ pPos[w] # Nil
      /\ pEventTask' = [pEventTask EXCEPT ![w] = pPos[w]] /\ pc' = [pc EXCEPT ![w] = "fire"]
      /\ UNCHANGED <<m_lstFull, m_nID, m_nTime>>
  BY DEF Scan, Goto, lists
<1>2. \A v \in Worker \ {w} : ~Firing(v)
  BY <1>1, Alone DEF InLoop
<1>3. NoneFires
  BY <1>1, <1>2 DEF NoneFires, Firing
<1>4. PICK i \in 1..Len(m_lstFull) : m_lstFull[i] = pPos[w]
  BY <1>1, ListIsTyped DEF ListInv, NothingDangles, Range
<1>5. OneFires(w, i)'
  BY <1>1, <1>2, <1>4 DEF OneFires, Firing, TypeOK
<1>6. TaskMap' = TaskMap
  BY <1>1 DEF TaskMap, TaskOf
<1>7. Seen /\ Seen'
  BY SeenIs, SeenNext DEF ListInv
<1>8. Running = <<>> /\ Waiting = Mapped(m_lstFull, TaskMap)
  BY <1>3, <1>7 DEF Seen
<1>9. /\ Running' = <<TaskMap[m_lstFull[i]]>>
      /\ Waiting' = Mapped(RemoveAt(m_lstFull, i), TaskMap)
  BY <1>1, <1>4, <1>5, <1>6, <1>7 DEF Seen
<1>10. /\ Len(Waiting) = Len(m_lstFull)
       /\ \A k \in 1..Len(m_lstFull) : Waiting[k] = TaskMap[m_lstFull[k]]
  BY <1>8, ListIsTyped, MappedElements
<1>11. Waiting' = RemoveAt(Waiting, i)
  BY <1>8, <1>9, ListIsTyped, MappedRemoveAt
<1>12. \A j \in 1..(i - 1) : Waiting[j].delayed
  <2> TAKE j \in 1..(i - 1)
  <2>1. j \in 1..Len(m_lstFull) /\ m_lstFull[j] \in Event
    BY ListIsTyped
  <2>2. m_nTime[m_lstFull[j]] # "zero"
    BY <1>1, <1>4 DEF ScanInv
  <2>3. Waiting[j] = TaskMap[m_lstFull[j]]
    BY <1>10, <2>1
  <2>4. TaskMap[m_lstFull[j]].delayed = (m_nTime[m_lstFull[j]] # "zero")
    BY <2>1, TaskMapType
  <2> QED BY <2>2, <2>3, <2>4, Zenon
<1>13. Running' = <<Waiting[i]>>
  BY <1>9, <1>10
<1>14. i \in 1..Len(Waiting)
  BY <1>10
<1>15. /\ Running = <<>>
       /\ \E k \in 1..Len(Waiting) : /\ \A j \in 1..(k - 1) : Waiting[j].delayed
                                     /\ Running' = <<Waiting[k]>>
                                     /\ Waiting' = TQ!RemoveAt(Waiting, k)
  BY <1>8, <1>11, <1>12, <1>13, <1>14, Zenon DEF TQ!RemoveAt, RemoveAt
<1> QED BY <1>15, Zenon DEF TQ!Begin

(* The event goes to the free list when its handler has returned. *)
LEMMA EndQueue ==
  ASSUME TypeOK, TypeOK', ControlInv, ListInv, ListInv', NEW w \in Worker, Recycle(w)
  PROVE  TQ!End
<1>1. pc[w] = "remove" /\ Firing(w) /\ pc' = [pc EXCEPT ![w] = "test"]
      /\ UNCHANGED <<m_nID, m_nTime>>
  BY DEF Recycle, Firing, Goto
<1>2. PICK i \in 1..Len(m_lstFull) : OneFires(w, i)
  BY <1>1, FiresAt
<1>3. m_lstFull' = RemoveAt(m_lstFull, i)
  <2>1. m_lstFull[i] = pEventTask[w] /\ pEventTask[w] \in Range(m_lstFull)
    BY <1>2, ListIsTyped DEF OneFires, Range
  <2>2. PICK k \in 1..Len(m_lstFull) :
          m_lstFull[k] = pEventTask[w] /\ m_lstFull' = RemoveAt(m_lstFull, k)
    BY <2>1 DEF Recycle, AfterFire
  <2>3. k = i
    BY <2>1, <2>2, ListIsTyped DEF ListInv, OnePlace, IsInjective
  <2> QED BY <2>2, <2>3
<1>4. NoneFires'
  BY <1>1, <1>2 DEF NoneFires, OneFires, Firing, TypeOK
<1>5. TaskMap' = TaskMap
  BY <1>1 DEF TaskMap, TaskOf
<1>6. Seen /\ Seen'
  BY SeenIs, SeenNext DEF ListInv
<1>7. Running = <<TaskMap[m_lstFull[i]]>> /\ Waiting = Mapped(RemoveAt(m_lstFull, i), TaskMap)
  BY <1>2, <1>6 DEF Seen
<1>8. Running' = <<>> /\ Waiting' = Mapped(RemoveAt(m_lstFull, i), TaskMap)
  BY <1>3, <1>4, <1>5, <1>6 DEF Seen
<1>9. Running # <<>>
  <2> DEFINE x == TaskMap[m_lstFull[i]]
  <2> HIDE DEF x
  <2>1. <<x>> # <<>>
    OBVIOUS
  <2> QED BY <1>7, <2>1 DEF x
<1> QED BY <1>7, <1>8, <1>9 DEF TQ!End

(* The handler takes back a task that waits, never the one that runs. *)
LEMMA WithdrawQueue ==
  ASSUME TypeOK, TypeOK', ControlInv, ListInv, ListInv', NEW w \in Worker, Firing(w),
         NEW k \in 1..Len(m_lstFull), m_lstFull[k] # pEventTask[w],
         m_lstFull' = RemoveAt(m_lstFull, k),
         NEW l \in {"reset", "body"}, pc' = [pc EXCEPT ![w] = l],
         UNCHANGED <<m_nID, m_nTime, pEventTask>>
  PROVE  TQ!Withdraw
<1>1. PICK i \in 1..Len(m_lstFull) : OneFires(w, i)
  BY FiresAt
<1>2. m_lstFull[i] = pEventTask[w] /\ i # k
  BY <1>1 DEF OneFires
<1> DEFINE n == Len(m_lstFull)
           p == IF i < k THEN i ELSE i - 1
           q == IF i < k THEN k - 1 ELSE k
           r == RemoveAt(m_lstFull, i)
<1>3. /\ Len(m_lstFull') = Len(m_lstFull) - 1
      /\ \A j \in 1..(Len(m_lstFull) - 1) :
           m_lstFull'[j] = IF j < k THEN m_lstFull[j] ELSE m_lstFull[j + 1]
  BY ListIsTyped, RemoveAtProperties
<1>4. p \in 1..Len(m_lstFull') /\ m_lstFull'[p] = m_lstFull[i]
  <2>1. p \in 1..(Len(m_lstFull) - 1)
    BY <1>2, ListIsTyped
  <2>2. m_lstFull'[p] = IF p < k THEN m_lstFull[p] ELSE m_lstFull[p + 1]
    BY <1>3, <2>1
  <2>3. CASE i < k
    BY <1>3, <2>1, <2>2, <2>3
  <2>4. CASE ~(i < k)
    <3>1. p = i - 1 /\ ~(p < k) /\ p + 1 = i
      BY <1>2, <2>4, ListIsTyped
    <3> QED BY <1>3, <2>1, <2>2, <3>1
  <2> QED BY <2>3, <2>4
<1>5. q \in 1..Len(r) /\ RemoveAt(m_lstFull', p) = RemoveAt(r, q)
  <2>1. CASE i < k
    BY <2>1, ListIsTyped, RemoveAtTwice
  <2>2. CASE k < i
    <3>1. /\ k \in 1..Len(RemoveAt(m_lstFull, i))
          /\ RemoveAt(RemoveAt(m_lstFull, i), k) = RemoveAt(RemoveAt(m_lstFull, k), i - 1)
      BY <2>2, ListIsTyped, RemoveAtTwice
    <3>2. p = i - 1 /\ q = k
      BY <2>2
    <3> QED BY <3>1, <3>2
  <2>3. i < k \/ k < i
    BY <1>2
  <2> QED BY <2>1, <2>2, <2>3
<1>6. r \in Seq(Event)
  BY ListIsTyped, RemoveAtProperties
<1> HIDE DEF p, q, r
<1>7. OneFires(w, p)'
  BY <1>1, <1>2, <1>4 DEF OneFires, Firing, TypeOK
<1>8. TaskMap' = TaskMap
  BY DEF TaskMap, TaskOf
<1>9. Seen /\ Seen'
  BY SeenIs, SeenNext DEF ListInv
<1>10. Running = <<TaskMap[m_lstFull[i]]>> /\ Waiting = Mapped(r, TaskMap)
  BY <1>1, <1>9 DEF Seen, r
<1>11. Running' = <<TaskMap[m_lstFull[i]]>> /\ Waiting' = Mapped(RemoveAt(m_lstFull', p), TaskMap)
  BY <1>4, <1>7, <1>8, <1>9 DEF Seen
<1>12. Waiting' = RemoveAt(Waiting, q)
  BY <1>5, <1>6, <1>10, <1>11, MappedRemoveAt
<1>13. q \in 1..Len(Waiting)
  BY <1>5, <1>6, <1>10, MappedElements
<1>14. Running # <<>>
  <2> DEFINE x == TaskMap[m_lstFull[i]]
  <2> HIDE DEF x
  <2>1. <<x>> # <<>>
    OBVIOUS
  <2> QED BY <1>10, <2>1 DEF x
<1>15. Waiting' = TQ!RemoveAt(Waiting, q)
  BY <1>12, Zenon DEF TQ!RemoveAt, RemoveAt
<1> QED BY <1>10, <1>11, <1>13, <1>14, <1>15, Zenon DEF TQ!Withdraw

LEMMA DiscardQueue ==
  ASSUME TypeOK, TypeOK', ControlInv, ListInv, ListInv', NEW o \in Owner, DeleteReturns(o)
  PROVE  TQ!Discard
<1>1. m_hThread = Nil /\ m_lstFull' = <<>> /\ UNCHANGED pc
  BY DEF DeleteReturns, ThreadGone, loop
<1>2. \A w \in Worker : ~InLoop(w)
  BY <1>1, NilIsNoWorker DEF ControlInv, HandleInv
<1>3. NoneFires /\ NoneFires'
  BY <1>1, <1>2 DEF NoneFires, Firing, InLoop
<1>4. Seen /\ Seen'
  BY SeenIs, SeenNext DEF ListInv
<1>5. Running = <<>> /\ Running' = <<>> /\ Waiting' = Mapped(<<>>, TaskMap')
  BY <1>1, <1>3, <1>4 DEF Seen
<1>6. Waiting' = <<>>
  <2>1. <<>> \in Seq(Event)
    OBVIOUS
  <2> QED BY <1>5, <2>1, MappedEmpty
<1> QED BY <1>5, <1>6 DEF TQ!Discard

(* Every step of the threads is a step of the queue or none. *)
LEMMA QueueStep ==
  ASSUME NoSelfReset, TypeOK, TypeOK', ControlInv, ListInv, ListInv', ScanInv, [Next]_vars
  PROVE  [TQ!Next]_(TQ!vars)
<1>1. ASSUME NEW o \in Owner, OwnerStep(o) PROVE [TQ!Next]_(TQ!vars)
  <2>1. CASE Start(o)
    <3>1. \A w \in Worker : Firing(w)' <=> Firing(w)
      BY <2>1 DEF Start, Firing, TypeOK
    <3>2. {v \in Worker : Firing(v)}' = {v \in Worker : Firing(v)}
      BY <3>1
    <3>3. UNCHANGED <<m_lstFull, m_nID, m_nTime, pEventTask>>
      BY <2>1 DEF Start, lists
    <3>4. FiringEvents' = FiringEvents
      BY <3>2, <3>3 DEF FiringEvents
    <3>5. \A e \in Event : TaskOf(e)' = TaskOf(e)
      BY <3>3 DEF TaskOf
    <3> QED BY <3>3, <3>4, <3>5, QueueKept
  <2>2. CASE Pause(o) \/ PauseReturns(o) \/ Stop(o) \/ StopReturns(o) \/ Delete(o)
    BY <2>2, ListsQueue DEF Pause, PauseReturns, Stop, StopReturns, Delete, lists, loop
  <2>3. CASE DeleteReturns(o)
    BY <2>3, DiscardQueue DEF TQ!Next
  <2>4. CASE OwnerGetFree(o)
    BY <2>4, GetFreeQueue DEF OwnerGetFree
  <2>5. CASE OwnerPost(o)
    BY <2>5, PostQueue DEF OwnerPost, TQ!Next
  <2> QED BY <1>1, <2>1, <2>2, <2>3, <2>4, <2>5 DEF OwnerStep, OwnerReturns
<1>2. ASSUME NEW w \in Worker, WorkerStep(w) PROVE [TQ!Next]_(TQ!vars)
  <2>1. CASE TestStatus(w) \/ ClearWorking(w) \/ CheckPause(w) \/ MarkWorking(w) \/ OnWork(w)
    BY <2>1, GotoQueue
    DEF TestStatus, ClearWorking, CheckPause, MarkWorking, OnWork, Firing, lists
  <2>2. CASE ReadHead(w) \/ ScanEnds(w) \/ OnStop(w) \/ ClearHandle(w) \/ LeaveLoop(w)
    BY <2>2, GotoQueue DEF ReadHead, ScanEnds, OnStop, ClearHandle, LeaveLoop, Firing, lists
  <2>3. CASE Scan(w) /\ Due(pPos[w])
    BY <2>3, BeginQueue DEF TQ!Next
  <2>4. CASE Scan(w) /\ ~Due(pPos[w])
    BY <2>4, ListsQueue DEF Scan, lists
  <2>5. CASE FirePlain(w) \/ FireReset(w) \/ ResetEnds(w) \/ Fired(w)
    BY <2>5, GotoQueue DEF FirePlain, FireReset, ResetEnds, Fired, Firing, lists
  <2>6. CASE ResetOne(w)
    <3>1. PICK k \in 1..Len(m_lstFull) :
            /\ m_nID[m_lstFull[k]] = ResetBy[MyID(w)]
            /\ m_lstFull' = RemoveAt(m_lstFull, k)
      BY <2>6 DEF ResetOne, IsFirst
    <3>2. Firing(w) /\ pEventTask[w] \in Event
      BY <2>6, RangeType DEF ResetOne, Firing, ListInv, NothingDangles, TypeOK
    <3>3. m_lstFull[k] # pEventTask[w]
      BY <3>1, <3>2 DEF MyID, NoSelfReset, TypeOK
    <3>4. pc' = [pc EXCEPT ![w] = "reset"] /\ UNCHANGED <<m_nID, m_nTime, pEventTask>>
      BY <2>6 DEF ResetOne, loop, TypeOK
    <3> QED BY <3>1, <3>2, <3>3, <3>4, WithdrawQueue DEF TQ!Next
  <2>7. CASE FireRemove(w)
    <3>1. PICK k \in 1..Len(m_lstFull) :
            /\ m_nID[m_lstFull[k]] = RemoveBy[MyID(w)]
            /\ m_lstFull' = RemoveAt(m_lstFull, k)
      BY <2>7 DEF FireRemove, Matches
    <3>2. Firing(w) /\ pEventTask[w] \in Event
      BY <2>7, RangeType DEF FireRemove, Firing, ListInv, NothingDangles, TypeOK
    <3>3. m_lstFull[k] # pEventTask[w]
      BY <3>1, <3>2 DEF MyID, NoSelfReset, TypeOK
    <3>4. pc' = [pc EXCEPT ![w] = "body"] /\ UNCHANGED <<m_nID, m_nTime, pEventTask>>
      BY <2>7 DEF FireRemove, Goto
    <3> QED BY <3>1, <3>2, <3>3, <3>4, WithdrawQueue DEF TQ!Next
  <2>8. CASE HandlerGetFree(w)
    BY <2>8, GetFreeQueue DEF HandlerGetFree
  <2>9. CASE HandlerPost(w)
    BY <2>9, PostQueue DEF HandlerPost, TQ!Next
  <2>10. CASE Recycle(w)
    BY <2>10, EndQueue DEF TQ!Next
  <2> QED BY <1>2, <2>1, <2>2, <2>3, <2>4, <2>5, <2>6, <2>7, <2>8, <2>9, <2>10
          DEF WorkerStep
<1>3. ASSUME NEW e \in Event, Expire(e) PROVE [TQ!Next]_(TQ!vars)
  <2>1. UNCHANGED <<m_lstFull, m_nID, pc, pEventTask>>
    BY <1>3 DEF Expire, loop
  <2>2. \A x \in Event : (m_nTime'[x] # "zero") = (m_nTime[x] # "zero")
    <3>1. \A x \in Event : (m_nTime'[x] # "zero") <=> (m_nTime[x] # "zero")
      BY <1>3 DEF Expire, TypeOK
    <3> QED BY <3>1, Zenon
  <2>3. \A x \in Event : TaskOf(x)' = TaskOf(x)
    BY <2>1, <2>2, Zenon DEF TaskOf
  <2>4. FiringEvents' = FiringEvents
    BY <2>1 DEF FiringEvents, Firing
  <2> QED BY <2>1, <2>3, <2>4, QueueKept
<1>4. CASE UNCHANGED vars
  BY <1>4, ListsQueue DEF vars, lists, loop
<1> QED BY <1>1, <1>2, <1>3, <1>4 DEF Next, Deleted

(* The thread keeps what TaskQueue promises its owners, if no handler       *)
(* withdraws its own id: one task at a time, each once per post, in the     *)
(* order of posting unless the earlier one was posted with a delay, for any *)
(* number of owners, events and ids and across every Stop and Start.        *)
THEOREM TaskQueueImplemented ==
  ASSUME NoSelfReset
  PROVE  Spec => ImplementsTaskQueue
<1>1. Init => TQ!Init /\ ScanInv
  <2> SUFFICES ASSUME Init PROVE TQ!Init /\ ScanInv
    OBVIOUS
  <2>1. FiringAt = {} /\ m_lstFull = <<>>
    BY DEF Init, FiringAt
  <2>2. Running = <<>>
    BY <2>1, FS_EmptySet DEF Running
  <2>3. Waiting = <<>>
    BY <2>1 DEF Waiting, WaitingEvents
  <2>4. ScanInv
    BY DEF Init, ScanInv
  <2> QED BY <2>2, <2>3, <2>4 DEF TQ!Init
<1>2. TypeOK /\ ControlInv /\ ListInv /\ ScanInv /\ [Next]_vars => ScanInv'
  BY ScanInvNext
<1>3. /\ TypeOK /\ TypeOK' /\ ControlInv /\ ListInv /\ ListInv' /\ ScanInv /\ [Next]_vars
      => [TQ!Next]_(TQ!vars)
  BY QueueStep
<1>4. Spec => []TypeOK /\ []ControlInv /\ []ListInv
  BY TypeCorrect, ControlCorrect, ListsCorrect
<1> QED BY <1>1, <1>2, <1>3, <1>4, PTL DEF Spec, ImplementsTaskQueue, TQ!Spec
=============================================================================
