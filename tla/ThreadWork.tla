----------------------------- MODULE ThreadWork ------------------------------
(***************************************************************************)
(* CThreadWork (base/CThreadWork.cpp): a work thread with a status, a work *)
(* function called on every pass, and a queue of posted CThreadEvents.     *)
(* Start, Pause and Stop are called by owner threads under m_mtThread, the *)
(* work loop polls m_nStatus and m_bWorking without a lock, and only the   *)
(* lists of events are guarded by m_mtTask.  One step of the model is one  *)
(* access the other threads can see: the two tests of m_nStatus (245, 248) *)
(* and the two writes of m_bWorking (247, 253) are steps of their own.     *)
(*                                                                         *)
(* Two work threads can be alive: line 293 clears m_hThread, so Start may  *)
(* create the next thread before the old one has executed line 294.        *)
(***************************************************************************)
EXTENDS Naturals, Sequences, SequencesExt

CONSTANTS Owner,        \* threads that call Start, Pause, Stop, PostEvent
          Worker,       \* thread objects that qcThreadCreate can return
          Event,        \* addresses of CThreadEvent objects
          ID,           \* values of m_nID
          Nil,          \* NULL, and a mutex nobody holds
          OwnerCalls,   \* the operations this owner uses
          WorkExits,    \* the work function may call Exit() (CHTTPIO2.cpp:664)
          ResetBy,      \* ResetBy[a]: id the handler of a resets, or Nil
          RemoveBy      \* RemoveBy[a]: id the handler of a removes, or Nil

ASSUME NilAssumption == Nil \notin Owner \cup Worker \cup Event \cup ID
ASSUME ThreadAssumption == Owner \cap Worker = {}
ASSUME CallAssumption == OwnerCalls \subseteq {"start", "pause", "stop", "delete"}
                         /\ WorkExits \in BOOLEAN
ASSUME IDAssumption == ID # {}
ASSUME HandlerAssumption == /\ ResetBy \in [ID -> ID \cup {Nil}]
                            /\ RemoveBy \in [ID -> ID \cup {Nil}]

(* No handler withdraws events that carry its own id: the event being      *)
(* fired is still in m_lstFull and would be deleted under the worker.      *)
NoSelfReset == \A a \in ID : ResetBy[a] # a /\ RemoveBy[a] # a

VARIABLES
  m_nStatus,    \* QCWORK_STATUS
  m_hThread,    \* handle of the work thread, or Nil
  m_bWorking,
  m_mtThread,   \* the owner inside Start, Pause or Stop, or Nil
  m_mtTask,     \* the worker inside ResetEventByID, or Nil; every other
                \* critical section of m_mtTask is one step
  m_lstFull,    \* posted events
  m_lstFree,    \* fired events, for reuse
  m_nID,        \* m_nID[e] of every event object
  m_nTime,      \* "zero": no delay, "future" and "past": delay (not) elapsed
  held,         \* held[a]: event that a got from GetFree or new, not posted yet
  pc,           \* pc[w]: next line of WorkLoop
  pPos,         \* pPos[w]: list position of the scan (267-271)
  pEventTask,   \* pEventTask[w]: the event being fired
  call,         \* call[o]: the call owner o is in
  quiet,        \* history: Stop has returned and Start was not called since
  late          \* history: passes begun since Pause returned, 2 = two or more

control == <<m_nStatus, m_hThread, m_bWorking, m_mtThread, call, quiet, late>>
lists   == <<m_mtTask, m_lstFull, m_lstFree, m_nID, m_nTime, held>>
loop    == <<pc, pPos, pEventTask>>
vars    == <<control, lists, loop>>

Status == {"init", "run", "pause", "stop"}
Line   == {"none", "test", "clear", "check", "mark", "work", "head", "scan",
           "fire", "reset", "body", "remove", "onstop", "unset", "last"}
(* the worker can still reach OnWork or Fire without another Start *)
InLoop(w) == pc[w] \notin {"none", "last"}
Firing(w) == pc[w] \in {"fire", "reset", "body", "remove"}

Allocated == Range(m_lstFull) \cup Range(m_lstFree)
                \cup {held[a] : a \in Owner \cup Worker}
Due(e)    == m_nTime[e] # "future"
Alive     == \A o \in Owner : call[o] \notin {"deleting", "deleted"}
MayCall(o, op) == op \in OwnerCalls /\ Alive /\ call[o] = "idle" /\ held[o] = Nil

Init ==
  /\ m_nStatus = "init" /\ m_hThread = Nil /\ m_bWorking = FALSE
  /\ m_mtThread = Nil /\ m_mtTask = Nil
  /\ m_lstFull = <<>> /\ m_lstFree = <<>>
  /\ m_nID = [e \in Event |-> CHOOSE id \in ID : TRUE]
  /\ m_nTime = [e \in Event |-> "zero"]
  /\ held = [a \in Owner \cup Worker |-> Nil]
  /\ pc = [w \in Worker |-> "none"]
  /\ pPos = [w \in Worker |-> Nil] /\ pEventTask = [w \in Worker |-> Nil]
  /\ call = [o \in Owner |-> "idle"]
  /\ quiet = TRUE /\ late = 0

-----------------------------------------------------------------------------
(* The owner's calls *)

NeedsThread_Always == TRUE
NeedsThread == m_hThread = Nil                                  \* 53

(* qcThreadCreate only when there is no handle: an old thread past line 293 *)
(* may still be alive.                                                      *)
Start(o) ==
  /\ MayCall(o, "start") /\ m_mtThread = Nil
  /\ m_nStatus' = "run"
  /\ IF NeedsThread
     THEN \E w \in Worker : /\ pc[w] = "none"
                            /\ m_hThread' = w
                            /\ pc' = [pc EXCEPT ![w] = "test"]
     ELSE UNCHANGED <<m_hThread, pc>>
  /\ quiet' = FALSE /\ late' = 0
  /\ UNCHANGED <<m_bWorking, m_mtThread, call, lists, pPos, pEventTask>>

(* Pause sets the status and then polls m_bWorking, holding m_mtThread. *)
Pause(o) ==
  /\ MayCall(o, "pause") /\ m_mtThread = Nil
  /\ m_nStatus' = "pause" /\ m_mtThread' = o
  /\ call' = [call EXCEPT ![o] = "pausing"]
  /\ UNCHANGED <<m_hThread, m_bWorking, quiet, late, lists, loop>>

PauseReturns(o) ==
  /\ call[o] = "pausing" /\ ~m_bWorking
  /\ m_mtThread' = Nil /\ call' = [call EXCEPT ![o] = "idle"]
  /\ late' = 0
  /\ UNCHANGED <<m_nStatus, m_hThread, m_bWorking, quiet, lists, loop>>

ThreadGone_Idle == ~m_bWorking
ThreadGone == m_hThread = Nil                                   \* 86

(* Stop polls m_hThread, holding m_mtThread. *)
Stop(o) ==
  /\ MayCall(o, "stop") /\ m_mtThread = Nil
  /\ m_nStatus' = "stop" /\ m_mtThread' = o
  /\ call' = [call EXCEPT ![o] = "stopping"]
  /\ UNCHANGED <<m_hThread, m_bWorking, quiet, late, lists, loop>>

StopReturns(o) ==
  /\ call[o] = "stopping" /\ ThreadGone
  /\ m_mtThread' = Nil /\ call' = [call EXCEPT ![o] = "idle"]
  /\ quiet' = TRUE
  /\ UNCHANGED <<m_nStatus, m_hThread, m_bWorking, late, lists, loop>>

(* The destructor: Stop, then ResetEvent.  Its owner deletes the object once *)
(* and with no other call in progress.                                       *)
Delete(o) ==
  /\ MayCall(o, "delete") /\ m_mtThread = Nil
  /\ \A p \in Owner : call[p] = "idle" /\ held[p] = Nil
  /\ m_nStatus' = "stop" /\ m_mtThread' = o
  /\ call' = [call EXCEPT ![o] = "deleting"]
  /\ UNCHANGED <<m_hThread, m_bWorking, quiet, late, lists, loop>>

DeleteReturns(o) ==
  /\ call[o] = "deleting" /\ ThreadGone
  /\ m_mtThread' = Nil /\ call' = [call EXCEPT ![o] = "deleted"]
  /\ quiet' = TRUE
  /\ m_lstFull' = <<>> /\ m_lstFree' = <<>>
  /\ UNCHANGED <<m_nStatus, m_hThread, m_bWorking, late, loop,
                 m_mtTask, m_nID, m_nTime, held>>

-----------------------------------------------------------------------------
(* Posting a task: GetFree, or new when the free list is empty, then the   *)
(* fields, then PostEvent.  The two critical sections are separate steps.  *)

GetFree(a, id) ==
  /\ held[a] = Nil /\ m_mtTask = Nil
  /\ IF m_lstFree # <<>>
     THEN /\ held' = [held EXCEPT ![a] = Head(m_lstFree)]
          /\ m_lstFree' = Tail(m_lstFree)
          /\ m_nID' = [m_nID EXCEPT ![Head(m_lstFree)] = id]
     ELSE \E e \in Event \ Allocated :
            /\ held' = [held EXCEPT ![a] = e]
            /\ m_nID' = [m_nID EXCEPT ![e] = id]
            /\ UNCHANGED m_lstFree
  /\ UNCHANGED <<control, m_mtTask, m_lstFull, m_nTime, loop>>

HasEvent_NoCheck(a) == TRUE
HasEvent(a) == held[a] # Nil                                    \* 220

Queued_Front(e) == <<e>> \o m_lstFull
Queued(e) == Append(m_lstFull, e)                               \* 227

PostEvent(a, delayed) ==
  /\ HasEvent(a) /\ m_mtTask = Nil
  /\ m_nTime' = [m_nTime EXCEPT ![held[a]] = IF delayed THEN "future" ELSE "zero"]
  /\ m_lstFull' = Queued(held[a])
  /\ held' = [held EXCEPT ![a] = Nil]
  /\ UNCHANGED <<control, m_mtTask, m_lstFree, m_nID, loop>>

OwnerGetFree(o)  == Alive /\ call[o] = "idle" /\ \E id \in ID : GetFree(o, id)
OwnerPost(o)     == call[o] = "idle" /\ Alive /\ \E delayed \in BOOLEAN : PostEvent(o, delayed)
HandlerGetFree(w) == pc[w] = "body" /\ \E id \in ID : GetFree(w, id)
HandlerPost(w)   == pc[w] = "body" /\ \E delayed \in BOOLEAN : PostEvent(w, delayed)

(* The clock passes m_nTime of a posted event. *)
Expire(e) ==
  /\ e \in Range(m_lstFull) /\ m_nTime[e] = "future"
  /\ m_nTime' = [m_nTime EXCEPT ![e] = "past"]
  /\ UNCHANGED <<control, m_mtTask, m_lstFull, m_lstFree, m_nID, held, loop>>

-----------------------------------------------------------------------------
(* The work loop *)

Goto(w, l) == pc' = [pc EXCEPT ![w] = l]

TestStatus(w) ==                                                \* 245
  /\ pc[w] = "test"
  /\ Goto(w, IF m_nStatus \in {"run", "pause"} THEN "clear" ELSE "onstop")
  /\ UNCHANGED <<control, lists, pPos, pEventTask>>

ClearWorking(w) ==                                              \* 247
  /\ pc[w] = "clear" /\ m_bWorking' = FALSE /\ Goto(w, "check")
  /\ UNCHANGED <<m_nStatus, m_hThread, m_mtThread, call, quiet, late,
                 lists, pPos, pEventTask>>

SeesPause_Never == FALSE
SeesPause == m_nStatus = "pause"

CheckPause(w) ==                                                \* 248-252
  /\ pc[w] = "check"
  /\ Goto(w, IF SeesPause THEN "test" ELSE "mark")
  /\ UNCHANGED <<control, lists, pPos, pEventTask>>

Pausing == \E o \in Owner : call[o] = "pausing"

MarkWorking(w) ==                                               \* 253
  /\ pc[w] = "mark" /\ m_bWorking' = TRUE /\ Goto(w, "work")
  /\ late' = IF m_nStatus = "pause" /\ ~Pausing /\ late < 2
             THEN late + 1 ELSE late
  /\ UNCHANGED <<m_nStatus, m_hThread, m_mtThread, call, quiet,
                 lists, pPos, pEventTask>>

(* The owner's work function, which may end the thread with Exit. *)
OnWork(w) ==                                                    \* 261-262
  /\ pc[w] = "work" /\ Goto(w, "head")
  /\ \/ UNCHANGED m_nStatus
     \/ WorkExits /\ m_nStatus' = "stop"
  /\ UNCHANGED <<m_hThread, m_bWorking, m_mtThread, call, quiet, late,
                 lists, pPos, pEventTask>>

ScanStart_Tail == IF m_lstFull = <<>> THEN Nil ELSE Last(m_lstFull)
ScanStart == IF m_lstFull = <<>> THEN Nil ELSE Head(m_lstFull)

(* The head position is read without m_mtTask. *)
ReadHead(w) ==                                                  \* 267
  /\ pc[w] = "head" /\ Goto(w, "scan")
  /\ pPos' = [pPos EXCEPT ![w] = ScanStart]
  /\ UNCHANGED <<control, lists, pEventTask>>

(* the element after position e of a list, Nil at its end *)
Following(s, e) ==
  IF \E i \in 1..(Len(s) - 1) : s[i] = e
  THEN s[(CHOOSE i \in 1..(Len(s) - 1) : s[i] = e) + 1]
  ELSE Nil

Scan(w) ==                                                      \* 268-277
  /\ pc[w] = "scan" /\ pPos[w] # Nil /\ m_mtTask = Nil
  /\ IF Due(pPos[w])
     THEN /\ pEventTask' = [pEventTask EXCEPT ![w] = pPos[w]]
          /\ pPos' = [pPos EXCEPT ![w] = Nil]
          /\ Goto(w, "fire")
     ELSE /\ pPos' = [pPos EXCEPT ![w] = Following(m_lstFull, pPos[w])]
          /\ UNCHANGED <<pc, pEventTask>>
  /\ UNCHANGED <<control, lists>>

ScanEnds(w) ==                                                  \* 268, 285-288
  /\ pc[w] = "scan" /\ pPos[w] = Nil /\ Goto(w, "test")
  /\ UNCHANGED <<control, lists, pPos, pEventTask>>

(* Fire() runs the handler on the worker, without a lock.  Depending on its *)
(* id it first withdraws waiting events, then may post new ones.            *)
MyID(w) == m_nID[pEventTask[w]]

FirePlain(w) ==                                                 \* 280
  /\ pc[w] = "fire" /\ Goto(w, "body")
  /\ UNCHANGED <<control, lists, pPos, pEventTask>>

FireReset(w) ==                                                 \* 189-200
  /\ pc[w] = "fire" /\ ResetBy[MyID(w)] # Nil /\ m_mtTask = Nil
  /\ m_mtTask' = w /\ Goto(w, "reset")
  /\ UNCHANGED <<control, m_lstFull, m_lstFree, m_nID, m_nTime, held,
                 pPos, pEventTask>>

(* the first position in m_lstFull of an event with that id *)
IsFirst(i, id) == /\ i \in 1..Len(m_lstFull) /\ m_nID[m_lstFull[i]] = id
                  /\ \A j \in 1..(i - 1) : m_nID[m_lstFull[j]] # id

ResetOne(w) ==                                                  \* 201-213
  /\ pc[w] = "reset"
  /\ \E i \in 1..Len(m_lstFull) :
        /\ IsFirst(i, ResetBy[MyID(w)])
        /\ m_lstFull' = RemoveAt(m_lstFull, i)
  /\ UNCHANGED <<control, m_mtTask, m_lstFree, m_nID, m_nTime, held, loop>>

ResetEnds(w) ==                                                 \* 215
  /\ pc[w] = "reset"
  /\ \A i \in 1..Len(m_lstFull) : m_nID[m_lstFull[i]] # ResetBy[MyID(w)]
  /\ m_mtTask' = Nil /\ Goto(w, "body")
  /\ UNCHANGED <<control, m_lstFull, m_lstFree, m_nID, m_nTime, held,
                 pPos, pEventTask>>

Matches_AnyID(w, e) == TRUE
Matches(w, e) == m_nID[e] = RemoveBy[MyID(w)]                   \* 146

(* RemoveEvent deletes one event that has the id and also the name; when   *)
(* the name matches none, or is NULL, it deletes nothing: FirePlain.       *)
FireRemove(w) ==                                                \* 138-169
  /\ pc[w] = "fire" /\ RemoveBy[MyID(w)] # Nil /\ m_mtTask = Nil
  /\ \E i \in 1..Len(m_lstFull) :
        /\ Matches(w, m_lstFull[i])
        /\ m_lstFull' = RemoveAt(m_lstFull, i)
  /\ Goto(w, "body")
  /\ UNCHANGED <<control, m_mtTask, m_lstFree, m_nID, m_nTime, held,
                 pPos, pEventTask>>

Fired(w) ==
  /\ pc[w] = "body" /\ held[w] = Nil /\ Goto(w, "remove")
  /\ UNCHANGED <<control, lists, pPos, pEventTask>>

AfterFire_Kept(i) == m_lstFull
AfterFire(i) == RemoveAt(m_lstFull, i)                          \* 282

(* The event is recycled only if it is still in the list. *)
Recycle(w) ==                                                   \* 281-283
  /\ pc[w] = "remove" /\ m_mtTask = Nil
  /\ \/ /\ pEventTask[w] \notin Range(m_lstFull)
        /\ UNCHANGED <<m_lstFull, m_lstFree>>
     \/ \E i \in 1..Len(m_lstFull) :
          /\ m_lstFull[i] = pEventTask[w]
          /\ \A j \in 1..(i - 1) : m_lstFull[j] # pEventTask[w]
          /\ m_lstFull' = AfterFire(i)
          /\ m_lstFree' = Append(m_lstFree, pEventTask[w])
  /\ pEventTask' = [pEventTask EXCEPT ![w] = Nil]
  /\ Goto(w, "test")
  /\ UNCHANGED <<control, m_mtTask, m_nID, m_nTime, held, pPos>>

OnStop(w) ==                                                    \* 290-292
  /\ pc[w] = "onstop" /\ Goto(w, "unset")
  /\ UNCHANGED <<control, lists, pPos, pEventTask>>

FinalHandle_Kept == m_hThread
FinalHandle == Nil

ClearHandle(w) ==                                               \* 293
  /\ pc[w] = "unset" /\ m_hThread' = FinalHandle /\ Goto(w, "last")
  /\ UNCHANGED <<m_nStatus, m_bWorking, m_mtThread, call, quiet, late,
                 lists, pPos, pEventTask>>

LeaveLoop(w) ==                                                 \* 294-295
  /\ pc[w] = "last" /\ m_bWorking' = FALSE /\ Goto(w, "none")
  /\ UNCHANGED <<m_nStatus, m_hThread, m_mtThread, call, quiet, late,
                 lists, pPos, pEventTask>>

-----------------------------------------------------------------------------
(* Once the object is deleted and its thread is gone, nothing happens. *)
Deleted ==
  /\ \E o \in Owner : call[o] = "deleted"
  /\ \A w \in Worker : pc[w] = "none"
  /\ UNCHANGED vars

WorkerStep(w) ==
  \/ TestStatus(w) \/ ClearWorking(w) \/ CheckPause(w) \/ MarkWorking(w)
  \/ OnWork(w) \/ ReadHead(w) \/ Scan(w) \/ ScanEnds(w)
  \/ FirePlain(w) \/ FireReset(w) \/ ResetOne(w) \/ ResetEnds(w)
  \/ FireRemove(w) \/ HandlerGetFree(w) \/ HandlerPost(w) \/ Fired(w)
  \/ Recycle(w) \/ OnStop(w) \/ ClearHandle(w) \/ LeaveLoop(w)

OwnerReturns(o) == PauseReturns(o) \/ StopReturns(o) \/ DeleteReturns(o)

OwnerStep(o) ==
  \/ Start(o) \/ Pause(o) \/ Stop(o) \/ Delete(o) \/ OwnerReturns(o)
  \/ OwnerGetFree(o) \/ OwnerPost(o)

Next == \/ \E o \in Owner : OwnerStep(o)
        \/ \E w \in Worker : WorkerStep(w)
        \/ \E e \in Event : Expire(e)
        \/ Deleted

Spec == Init /\ [][Next]_vars

(* The scheduler runs every thread, handlers return, the clock advances and *)
(* a poster that took an event object posts it.                             *)
Fairness ==
  /\ \A w \in Worker : WF_vars(WorkerStep(w))
  /\ \A o \in Owner : WF_vars(OwnerReturns(o)) /\ WF_vars(OwnerPost(o))
  /\ \A e \in Event : WF_vars(Expire(e))

LiveSpec == Spec /\ Fairness

-----------------------------------------------------------------------------
(* Every variable has its type. *)
TypeOK ==
  /\ m_nStatus \in Status /\ m_hThread \in Worker \cup {Nil}
  /\ m_bWorking \in BOOLEAN
  /\ m_mtThread \in Owner \cup {Nil} /\ m_mtTask \in Worker \cup {Nil}
  /\ m_lstFull \in Seq(Event) /\ m_lstFree \in Seq(Event)
  /\ m_nID \in [Event -> ID] /\ m_nTime \in [Event -> {"zero", "future", "past"}]
  /\ held \in [Owner \cup Worker -> Event \cup {Nil}]
  /\ pc \in [Worker -> Line]
  /\ pPos \in [Worker -> Event \cup {Nil}]
  /\ pEventTask \in [Worker -> Event \cup {Nil}]
  /\ call \in [Owner -> {"idle", "pausing", "stopping", "deleting", "deleted"}]
  /\ quiet \in BOOLEAN /\ late \in 0..2

(* At most one work thread can reach the work function or an event handler: *)
(* the two threads that exist across a Stop and Start never work together.  *)
OneWorker == \A v, w \in Worker : InLoop(v) /\ InLoop(w) => v = w

(* After Stop (or the destructor) returned, no thread will call into the    *)
(* owner again before the next Start.                                       *)
StoppedIsQuiet == quiet => \A w \in Worker : ~InLoop(w)

(* Pause may return while the worker is between its tests of m_nStatus and  *)
(* m_bWorking, but then the worker begins at most one more pass.            *)
AtMostOnePassAfterPause == late <= 1

(* An event object is in one place: at one position of one of the lists, or *)
(* with one thread that is about to post it.                                *)
OnePlace ==
  /\ IsInjective(m_lstFull) /\ IsInjective(m_lstFree)
  /\ Range(m_lstFull) \cap Range(m_lstFree) = {}
  /\ \A a \in Owner \cup Worker : held[a] # Nil =>
        /\ held[a] \notin Range(m_lstFull) \cup Range(m_lstFree)
        /\ \A b \in Owner \cup Worker : held[b] = held[a] => a = b

(* The list position and the event that the worker keeps across unlocked    *)
(* regions of WorkLoop (267-283) still denote posted events.                *)
NothingDangles ==
  \A w \in Worker :
    /\ pc[w] = "scan" /\ pPos[w] # Nil => pPos[w] \in Range(m_lstFull)
    /\ Firing(w) => pEventTask[w] \in Range(m_lstFull)

(* A posted event is fired or withdrawn unless the thread is not running:   *)
(* delays elapse, events behind it do not overtake it for ever, and a       *)
(* started thread exists.                                                   *)
PostedEventFires ==
  \A e \in Event :
    (e \in Range(m_lstFull))
      ~> \/ e \notin Range(m_lstFull)
         \/ \E w \in Worker : pEventTask[w] = e
         \/ m_nStatus # "run"

(* Pause, Stop and the destructor return: their polling loops end. *)
CallsReturn ==
  \A o \in Owner : /\ (call[o] \in {"pausing", "stopping"}) ~> (call[o] = "idle")
                   /\ (call[o] = "deleting") ~> (call[o] = "deleted")

(* The thread implements the task queue its owners rely on: an event being  *)
(* fired is still in m_lstFull, and counts as running, not as waiting.      *)
TaskOf(e) == [id |-> m_nID[e], delayed |-> m_nTime[e] # "zero"]
FiringEvents == {pEventTask[w] : w \in {v \in Worker : Firing(v)}}
FiringAt == {i \in DOMAIN m_lstFull : m_lstFull[i] \in FiringEvents}
FiringPos == CHOOSE i \in FiringAt : TRUE
WaitingEvents == IF FiringAt = {} THEN m_lstFull ELSE RemoveAt(m_lstFull, FiringPos)
Waiting == [k \in 1..Len(WaitingEvents) |-> TaskOf(WaitingEvents[k])]
Running == [k \in 1..Cardinality(FiringAt) |-> TaskOf(m_lstFull[FiringPos])]
TQ == INSTANCE TaskQueue WITH waiting <- Waiting, running <- Running
ImplementsTaskQueue == TQ!Spec
=============================================================================
