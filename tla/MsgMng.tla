------------------------------- MODULE MsgMng --------------------------------
(***************************************************************************)
(* CMsgMng (base/CMsgMng.cpp), the message manager: any thread posts       *)
(* messages with Notify, a dispatcher thread (a ThreadWork) takes them out *)
(* of m_lstItemFull and calls every registered receiver, holding m_lckRecv *)
(* meanwhile.  CMsgItem objects are reused through m_lstItemFree and may   *)
(* carry a cloned info (m_pInfo).  The dispatcher begins a pass only while *)
(* no source is being opened (m_bHadOpened, set in CBoxSource::OpenSource).*)
(*                                                                         *)
(* A section guarded by m_lckItem is one step.  m_lckNotify is only taken  *)
(* by the dispatcher: Send, its other user, has no caller.                 *)
(***************************************************************************)
EXTENDS Naturals, Sequences, SequencesExt

CONSTANTS Msg,          \* message ids that are posted
          Info,         \* those posted with an info, by the third Notify
          Receiver,     \* CMsgReceiver objects
          Item,         \* addresses of CMsgItem objects: bounds what is in use
          Nil,          \* NULL, a free mutex
          Refused       \* an open may return at CBoxSource.cpp:116

ASSUME MsgAssumption == Msg # {} /\ Info \subseteq Msg /\ "exit" \notin Msg
ASSUME NilAssumption == Nil \notin Msg \cup Receiver \cup Item \cup {"dispatcher"}
ASSUME NoDelivery == Nil \notin [msg : Msg \cup {"exit"}, todo : Seq(Receiver)]
ASSUME ItemAssumption == IsFiniteSet(Item)
ASSUME RefusedAssumption == Refused \in BOOLEAN

VARIABLES
  m_lstItemFull,  \* items that wait
  m_lstItemFree,  \* items for reuse
  m_nMsgID,       \* m_nMsgID[i]
  m_pInfo,        \* m_pInfo[i] # NULL
  clones,         \* number of info clones on the heap
  m_lstReceiver,
  m_lckRecv,      \* "dispatcher" in NotifyItem, else Nil: the other critical
                  \* sections of m_lckRecv are one step
  m_bHadOpened,
  opening,        \* OpenSource: "yes" inside it; "refused" when the last open was
  pc,             \* next step of the dispatcher
  pItem,          \* item the dispatcher has taken, or Nil
  pPos,           \* position in m_lstReceiver (NotifyItem)
  call            \* call of the thread that registers, removes and deletes

items == <<m_lstItemFull, m_lstItemFree, m_nMsgID, m_pInfo, clones>>
gate  == <<m_bHadOpened, opening>>
loop  == <<pc, pItem, pPos, m_lckRecv>>
vars  == <<items, m_lstReceiver, gate, loop, call>>

Posted == Msg \cup {"exit"}
InHand == IF pItem = Nil THEN {} ELSE {pItem}
Allocated == Range(m_lstItemFull) \cup Range(m_lstItemFree) \cup InHand
Call(op, r) == [op |-> op, recv |-> r]
Idle == call.op = "idle"
(* the destructor runs when nobody posts or opens any more *)
Alive == call.op \in {"idle", "reg", "rem"}

Init ==
  /\ m_lstItemFull = <<>> /\ m_lstItemFree = <<>>
  /\ m_nMsgID = [i \in Item |-> "exit"] /\ m_pInfo = [i \in Item |-> FALSE]
  /\ clones = 0
  /\ m_lstReceiver = <<>> /\ m_lckRecv = Nil
  /\ m_bHadOpened = TRUE /\ opening = "no"
  /\ pc = "none" /\ pItem = Nil /\ pPos = 1
  /\ call = Call("idle", Nil)

-----------------------------------------------------------------------------
(* Posting: the first free item, or a new one, filled and appended.        *)

(* SetValue with an info releases the old one; with a text it forgets it,  *)
(* with values only it leaves it alone.                                     *)
SetValue(i, m) ==                                     \* UMsgMng.h:123-166
  /\ m_nMsgID' = [m_nMsgID EXCEPT ![i] = m]
  /\ IF m \in Info THEN m_pInfo' = [m_pInfo EXCEPT ![i] = TRUE]
     ELSE m_pInfo' \in {m_pInfo, [m_pInfo EXCEPT ![i] = FALSE]}
  /\ clones' = (IF m_pInfo[i] /\ m \in Info THEN clones - 1 ELSE clones)
                  + (IF m \in Info THEN 1 ELSE 0)

Queued_First(i) == <<i>> \o m_lstItemFull
Queued(i) == Append(m_lstItemFull, i)                           \* 78, 89, 100

Post(m) ==                                                      \* 71-105
  \E i \in Item :
    /\ IF m_lstItemFree # <<>>
       THEN i = Head(m_lstItemFree) /\ m_lstItemFree' = Tail(m_lstItemFree)
       ELSE i \notin Allocated /\ UNCHANGED m_lstItemFree
    /\ SetValue(i, m) /\ m_lstItemFull' = Queued(i)

Notify(m) ==
  /\ Alive /\ Post(m) /\ UNCHANGED <<m_lstReceiver, gate, loop, call>>

DeleteAll ==                                                    \* 179-195
  /\ m_lstItemFull' = <<>> /\ m_lstItemFree' = <<>>
  /\ LET freed == Range(m_lstItemFull) \cup Range(m_lstItemFree)
     IN  /\ m_pInfo' = [i \in Item |-> m_pInfo[i] /\ i \notin freed]
         /\ clones' = clones - Cardinality({i \in freed : m_pInfo[i]})
  /\ UNCHANGED m_nMsgID

(* COMBoxMng::Close drops what waits. *)
ReleaseItem ==                                                  \* COMBoxMng.cpp:410
  /\ Alive /\ DeleteAll /\ UNCHANGED <<m_lstReceiver, gate, loop, call>>

-----------------------------------------------------------------------------
(* Registration.  The first receiver starts the dispatcher. *)

RegNotify(r) ==                                                 \* 40-48
  /\ Idle /\ r \notin Range(m_lstReceiver) /\ call' = Call("reg", r)
  /\ pc' = IF pc = "none" THEN "idle" ELSE pc
  /\ UNCHANGED <<items, m_lstReceiver, gate, pItem, pPos, m_lckRecv>>

CanRegister_NoLock == TRUE
CanRegister == m_lckRecv = Nil                                  \* 49, 56

RegAdds ==                                                      \* 49-51
  /\ call.op = "reg" /\ CanRegister
  /\ m_lstReceiver' = Append(m_lstReceiver, call.recv) /\ call' = Call("idle", Nil)
  /\ UNCHANGED <<items, gate, loop>>

RemNotify(r) ==                                                 \* 54-56
  /\ Idle /\ call' = Call("rem", r)
  /\ UNCHANGED <<items, m_lstReceiver, gate, loop>>

RemRemoves ==                                                   \* 56-68
  /\ call.op = "rem" /\ CanRegister
  /\ \/ \E k \in 1..Len(m_lstReceiver) :
          /\ m_lstReceiver[k] = call.recv
          /\ \A j \in 1..(k - 1) : m_lstReceiver[j] # call.recv
          /\ m_lstReceiver' = RemoveAt(m_lstReceiver, k)
     \/ call.recv \notin Range(m_lstReceiver) /\ UNCHANGED m_lstReceiver
  /\ call' = Call("idle", Nil) /\ UNCHANGED <<items, gate, loop>>

-----------------------------------------------------------------------------
(* A source is opened by the player engine: the gate of the dispatcher.    *)

OpenBegins ==                                         \* CBoxSource.cpp:59
  /\ Alive /\ opening # "yes" /\ opening' = "yes" /\ m_bHadOpened' = FALSE
  /\ UNCHANGED <<items, m_lstReceiver, loop, call>>

OpenEnds_KeepsGate ==
  /\ opening = "yes" /\ opening' = "no"
  /\ UNCHANGED <<m_bHadOpened, items, m_lstReceiver, loop, call>>
OpenEnds ==                                 \* CBoxSource.cpp:74, 81, 187, 206
  /\ opening = "yes" /\ opening' = "no" /\ m_bHadOpened' = TRUE
  /\ UNCHANGED <<items, m_lstReceiver, loop, call>>

(* RTSP is refused where it is not supported: the gate stays closed. *)
OpenRefused ==                                        \* CBoxSource.cpp:116
  /\ Refused /\ opening = "yes" /\ opening' = "refused"
  /\ UNCHANGED <<m_bHadOpened, items, m_lstReceiver, loop, call>>

-----------------------------------------------------------------------------
(* The dispatcher *)

HasWork_ToReceivers == m_lstItemFull # <<>> /\ m_bHadOpened /\ m_lstReceiver # <<>>
HasWork == m_lstItemFull # <<>> /\ m_bHadOpened                 \* 200

OnWorkItem ==                                                   \* 197-205
  /\ pc = "idle" /\ HasWork /\ pc' = "drain"
  /\ UNCHANGED <<items, m_lstReceiver, gate, pItem, pPos, m_lckRecv, call>>

Take ==                                                         \* 208-213
  /\ pc = "drain" /\ m_lstItemFull # <<>>
  /\ pItem' = Head(m_lstItemFull) /\ m_lstItemFull' = Tail(m_lstItemFull)
  /\ pc' = "lock"
  /\ UNCHANGED <<m_lstItemFree, m_nMsgID, m_pInfo, clones, m_lstReceiver, gate,
                 pPos, m_lckRecv, call>>

Drained ==                                                      \* 214-215
  /\ pc = "drain" /\ m_lstItemFull = <<>> /\ pc' = "idle"
  /\ UNCHANGED <<items, m_lstReceiver, gate, pItem, pPos, m_lckRecv, call>>

NotifyItem_FreesFirst ==
  /\ pc = "lock" /\ m_lckRecv' = "dispatcher" /\ pPos' = 1 /\ pc' = "next"
  /\ m_lstItemFree' = Append(m_lstItemFree, pItem)
  /\ UNCHANGED <<m_lstItemFull, m_nMsgID, m_pInfo, clones, m_lstReceiver, gate, pItem, call>>

NotifyItem ==                                                   \* 154-157
  /\ pc = "lock" /\ m_lckRecv' = "dispatcher" /\ pPos' = 1 /\ pc' = "next"
  /\ UNCHANGED <<items, m_lstReceiver, gate, pItem, call>>

(* Receivers post messages while they are called. *)
ReceiveMsg ==                                                   \* 158-166
  /\ pc = "next" /\ pPos <= Len(m_lstReceiver) /\ pc' = "callback"
  /\ UNCHANGED <<items, m_lstReceiver, gate, pItem, pPos, m_lckRecv, call>>

Received ==                                                     \* 166-167
  /\ pc = "callback" /\ pPos' = pPos + 1 /\ pc' = "next"
  /\ UNCHANGED <<items, m_lstReceiver, gate, pItem, m_lckRecv, call>>

InfoFreed_Always(i) ==
  m_pInfo' = [m_pInfo EXCEPT ![i] = FALSE] /\ clones' = clones - 1
InfoFreed_Kept(i) == UNCHANGED <<m_pInfo, clones>>
InfoFreed(i) ==                                                 \* 171-175
  /\ m_pInfo' = [m_pInfo EXCEPT ![i] = FALSE]
  /\ clones' = IF m_pInfo[i] THEN clones - 1 ELSE clones

Recycle ==                                                      \* 169-176
  /\ pc = "next" /\ pPos > Len(m_lstReceiver)
  /\ m_lstItemFree' = Append(m_lstItemFree, pItem) /\ InfoFreed(pItem)
  /\ pItem' = Nil /\ m_lckRecv' = Nil /\ pc' = "drain" /\ pPos' = 1
  /\ UNCHANGED <<m_lstItemFull, m_nMsgID, m_lstReceiver, gate, call>>

-----------------------------------------------------------------------------
(* The destructor, called once by the thread that deletes the instance; the *)
(* engine registered itself when it was constructed (COMBoxMng.cpp:99).     *)

Delete ==                                                       \* 26
  /\ Idle /\ pc # "none" /\ opening # "yes" /\ Post("exit") /\ call' = Call("del.wait", Nil)
  /\ UNCHANGED <<m_lstReceiver, gate, loop>>

DeleteWaits ==                                                  \* 27-32
  /\ call.op = "del.wait" /\ m_lstItemFull = <<>>
  /\ call' = Call("del.stop", Nil)
  /\ UNCHANGED <<items, m_lstReceiver, gate, loop>>

(* CThreadWork::Stop waits for the end of the pass. *)
DispatcherStops ==                                              \* 32
  /\ call.op = "del.stop" /\ pc = "idle" /\ pc' = "gone"
  /\ UNCHANGED <<items, m_lstReceiver, gate, pItem, pPos, m_lckRecv, call>>

ThreadEnded_Waiting == TRUE
ThreadEnded == pc \in {"none", "gone"}

DeleteReleases ==                                               \* 33-37
  /\ call.op = "del.stop" /\ ThreadEnded
  /\ DeleteAll /\ m_lstReceiver' = <<>> /\ call' = Call("deleted", Nil)
  /\ UNCHANGED <<gate, loop>>

Deleted == call.op = "deleted" /\ UNCHANGED vars

-----------------------------------------------------------------------------
Dispatcher == \/ OnWorkItem \/ Take \/ Drained \/ NotifyItem \/ ReceiveMsg
              \/ Received \/ Recycle \/ DispatcherStops
Locks == RegAdds \/ RemRemoves
Deleting == DeleteWaits \/ DeleteReleases

Next ==
  \/ \E m \in Msg : Notify(m)
  \/ ReleaseItem
  \/ \E r \in Receiver : RegNotify(r) \/ RemNotify(r)
  \/ Locks \/ OpenBegins \/ OpenEnds \/ OpenRefused
  \/ Dispatcher \/ Delete \/ Deleting \/ Deleted

Spec == Init /\ [][Next]_vars

(* The dispatcher runs, an open ends (IO has time limits), the destructor   *)
(* goes on, and a mutex that is free again and again is given to its waiter.*)
Fairness == /\ WF_vars(Dispatcher) /\ WF_vars(OpenEnds \/ OpenRefused)
            /\ WF_vars(Deleting) /\ SF_vars(Locks)
LiveSpec == Spec /\ Fairness

-----------------------------------------------------------------------------
(* Every variable has its type. *)
TypeOK ==
  /\ m_lstItemFull \in Seq(Item) /\ m_lstItemFree \in Seq(Item)
  /\ m_nMsgID \in [Item -> Posted] /\ m_pInfo \in [Item -> BOOLEAN]
  /\ clones \in Nat
  /\ m_lstReceiver \in Seq(Receiver) /\ m_lckRecv \in {Nil, "dispatcher"}
  /\ m_bHadOpened \in BOOLEAN /\ opening \in {"no", "yes", "refused"}
  /\ pc \in {"none", "idle", "drain", "lock", "next", "callback", "gone"}
  /\ pItem \in Item \cup {Nil} /\ pPos \in Nat \ {0}
  /\ call \in [op : {"idle", "reg", "rem", "del.wait", "del.stop", "deleted"},
               recv : Receiver \cup {Nil}]

(* An item is in one place only: it waits, or is free, or is in the         *)
(* dispatcher's hands, so that no Notify overwrites and no ReleaseItem      *)
(* deletes the message that receivers are looking at.                       *)
OnePlace ==
  /\ IsInjective(m_lstItemFull) /\ IsInjective(m_lstItemFree)
  /\ Range(m_lstItemFull) \cap Range(m_lstItemFree) = {}
  /\ InHand \cap (Range(m_lstItemFull) \cup Range(m_lstItemFree)) = {}

(* Every info clone belongs to one item that waits or is being delivered:   *)
(* SetValue with a text never forgets one (UMsgMng.h:144), and SetValue with *)
(* values only never keeps that of an earlier message (UMsgMng.h:123).      *)
InfoOwned ==
  /\ clones = Cardinality({i \in Item : m_pInfo[i]})
  /\ \A i \in Item : m_pInfo[i] =>
        i \in Range(m_lstItemFull) \cup InHand /\ m_nMsgID[i] \in Info

(* The destructor leaves no item and no info behind, not even the one the  *)
(* dispatcher had taken when the wait for an empty list (27) ended.         *)
NothingLeaks == call.op = "deleted" => Allocated = {} /\ clones = 0

(* A message is dispatched or dropped.  It waits for ever only before the   *)
(* dispatcher was started, while opens go on again and again, or behind the *)
(* gate of a refused open (CBoxSource.cpp:116) that no other open follows:  *)
(* every other return of OpenSource opens the gate again.                   *)
MessagesEnd ==
  \A i \in Item :
    \/ []<>(i \notin Range(m_lstItemFull))
    \/ <>[](pc = "none") \/ []<>(opening = "yes") \/ <>[](opening = "refused")

(* Registering and removing (under the receivers' lock) end, and deleting  *)
(* does but for the wait (27) behind the gate of a refused open.            *)
CallsReturn ==
  ~(call.op \in {"idle", "deleted"}) ~>
    \/ call.op \in {"idle", "deleted"}
    \/ call.op = "del.wait" /\ opening = "refused"

-----------------------------------------------------------------------------
(* The message manager implements the message bus. *)
Message(i) == m_nMsgID[i]
Waiting == [k \in 1..Len(m_lstItemFull) |-> Message(m_lstItemFull[k])]
Line == (IF pc = "lock" THEN <<Message(pItem)>> ELSE <<>>) \o Waiting
Current == IF m_lckRecv # Nil
           THEN [msg |-> Message(pItem),
                 todo |-> SubSeq(m_lstReceiver, pPos, Len(m_lstReceiver))]
           ELSE Nil
Bus == INSTANCE MsgBus WITH
         Msg <- Posted, waiting <- Line, receivers <- m_lstReceiver, current <- Current
ImplementsMsgBus == Bus!Spec
=============================================================================
