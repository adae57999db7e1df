----------------------------- MODULE HttpIOProof -----------------------------
(***************************************************************************)
(* Proof that the download stays in step with its connection, for every    *)
(* file, cache and number of calls: DownloadInStep is an invariant of Spec.*)
(*                                                                         *)
(* The argument is one of locks.  Whoever moves the connection or          *)
(* m_llDownPos holds m_mtLockHttp, or runs before there is a connection    *)
(* (the first OpenURL) or after its last user (Close).                     *)
(***************************************************************************)
EXTENDS HttpIO, SequenceLemmas, FiniteSetTheorems

Thread == {"none", "reader", "download", "engine"}

Shape ==
  /\ lock \in [Mutex -> [by : Thread, n : Int]]
  /\ DOMAIN dl = {"pc", "kind", "data"}
  /\ "pc" \in DOMAIN rd
  /\ DOMAIN eng = {"pc", "close"}
  /\ DOMAIN http = {"made", "at"}

(* What moves the connection is done with its lock. *)
HoldsHttp ==
  /\ dl.pc \in {"net", "fill", "again"} => lock["http"].by = "download"
  /\ rd.pc \in {"seekMem", "seekConnect"} => lock["http"].by = "reader"

(* Only a pass that fills has data in its hands. *)
DataIsFilled ==
  /\ dl.kind = "data" => dl.pc = "fill"
  /\ dl.pc = "net" => dl.kind = "none"

(* Without a connection there is no download, or the IO was closed. *)
NotYetMade ==
  /\ ~http.made => http.at = -1
  /\ ~http.made => dl.pc = "none" \/ (rd.pc = "idle" /\ eng.close)
  /\ rd.pc = "openURL" => dl.pc = "none"

(* Close begins when the reader is out. *)
CloseIsLast ==
  /\ eng.close => rd.pc = "idle"
  /\ eng.pc = "close" => eng.close

IInv == Shape /\ HoldsHttp /\ DataIsFilled /\ NotYetMade /\ CloseIsLast /\ DownloadInStep

-----------------------------------------------------------------------------

LEMMA InitIInv == Init => IInv
<1> SUFFICES ASSUME Init PROVE IInv
  OBVIOUS
<1>1. /\ \/ dl = [pc |-> "top", kind |-> "none", data |-> <<>>]
         \/ dl = [pc |-> "none", kind |-> "none", data |-> <<>>]
      /\ \/ http = [made |-> TRUE, at |-> 0] /\ m_llDownPos = 0
         \/ http = [made |-> FALSE, at |-> -1] /\ dl.pc = "none"
  BY DEF Init, OpenFresh, OpenCached
<1>2. rd.pc = "idle" /\ "pc" \in DOMAIN rd
  BY DEF Init, NoCall
<1>3. lock = [m \in Mutex |-> Open] /\ eng = [pc |-> "idle", close |-> FALSE]
  BY DEF Init
<1>5. Shape
  <2>1. lock \in [Mutex -> [by : Thread, n : Int]]
    BY <1>3 DEF Open, Thread
  <2>2. DOMAIN dl = {"pc", "kind", "data"}
    BY <1>1
  <2>3. DOMAIN eng = {"pc", "close"}
    BY <1>3
  <2>4. DOMAIN http = {"made", "at"}
    BY <1>1
  <2> QED BY <1>2, <2>1, <2>2, <2>3, <2>4 DEF Shape
<1>6. HoldsHttp /\ DataIsFilled /\ CloseIsLast
  BY <1>1, <1>2, <1>3 DEF HoldsHttp, DataIsFilled, CloseIsLast
<1>7. NotYetMade
  BY <1>1, <1>2 DEF NotYetMade
<1>8. DownloadInStep
  BY <1>1 DEF DownloadInStep
<1> QED BY <1>5, <1>6, <1>7, <1>8 DEF IInv

-----------------------------------------------------------------------------
(* The reader.  It moves the connection with its lock, or before there is  *)
(* a download thread.                                                      *)

LEMMA CallStep ==
  ASSUME IInv, Calls
  PROVE  IInv'
<1>1. ASSUME NEW op, NEW pos, NEW n, NEW flag, Call(op, pos, n, flag),
             op \in {"ReadAt", "Read", "SetPos"}
      PROVE  IInv'
  BY <1>1 DEF Call, NoCall, IInv, Shape, HoldsHttp, DataIsFilled, NotYetMade, CloseIsLast,
              DownloadInStep, file
<1> QED BY <1>1 DEF Calls

LEMMA UnlockKeeps ==
  ASSUME Shape, NEW ms \in SUBSET Mutex, Unlock(ms)
  PROVE  /\ lock' \in [Mutex -> [by : Thread, n : Int]]
         /\ "http" \notin ms => lock'["http"] = lock["http"]
  BY DEF Shape, Unlock, Open, Thread, Mutex

(* A step of a call that is not about the connection. *)
LEMMA QuietStep ==
  ASSUME IInv, rd.pc # "idle", "pc" \in DOMAIN rd',
         rd'.pc \notin {"seekMem", "seekConnect", "openURL"},
         lock' \in [Mutex -> [by : Thread, n : Int]],
         lock'["http"] = lock["http"] \/ rd.pc \in {"seekMem", "seekConnect"},
         UNCHANGED <<dl, eng, http, m_llDownPos>>
  PROVE  IInv'
  BY DEF IInv, Shape, HoldsHttp, DataIsFilled, NotYetMade, CloseIsLast, DownloadInStep

LEMMA ReaderStep ==
  ASSUME IInv, Reader
  PROVE  IInv'
<1> USE DEF IInv, Shape, HoldsHttp, DataIsFilled, NotYetMade, CloseIsLast, DownloadInStep, file,
            Go, Reply
<1>1. CASE ReadAt
  <2>1. CASE UNCHANGED <<m_llDownPos, http>> /\ rd'.pc \in {"done", "rangeMem"}
    BY <1>1, <2>1, QuietStep DEF ReadAt
  <2>2. CASE /\ ~http.made /\ rd' = [rd EXCEPT !.pc = "openURL"]
             /\ http' = [http EXCEPT !.made = TRUE]
    <3>1. dl.pc = "none" /\ http.at = -1 /\ ~eng.close
      BY <1>1, <2>2 DEF ReadAt
    <3>2. UNCHANGED <<dl, eng, lock>> /\ rd'.pc = "openURL" /\ "pc" \in DOMAIN rd'
          /\ http'.made = TRUE /\ http'.at = -1 /\ DOMAIN http' = {"made", "at"}
      BY <1>1, <2>2, <3>1 DEF ReadAt
    <3>3. DownloadInStep'
      BY <3>1, <3>2
    <3> QED BY <1>1, <3>1, <3>2, <3>3 DEF ReadAt
  <2> QED BY <1>1, <2>1, <2>2 DEF ReadAt
<1>2. CASE OpenURL
  BY <1>2 DEF OpenURL, Connects
<1>3. CASE ReadAtMem
  BY <1>3 DEF ReadAtMem, Lock, Thread, Mutex
<1>4. CASE SetPosBegin
  BY <1>4 DEF SetPosBegin
<1>5. CASE SetPosHttp
  BY <1>5 DEF SetPosHttp, Lock, Free, Thread, Mutex
<1>6. CASE SetPosMem
  <2>1. rd.pc = "seekMem" /\ lock["http"].by = "reader" /\ dl.kind # "data"
    BY <1>6 DEF SetPosMem
  <2>2. CASE /\ http' = [http EXCEPT !.at = -1] /\ Lock("mem", "reader")
             /\ rd' = [rd EXCEPT !.pc = "seekConnect"]
    BY <1>6, <2>1, <2>2 DEF SetPosMem, Lock, Thread, Mutex
  <2>3. CASE /\ UNCHANGED <<m_llDownPos, http>> /\ SetPosEnds
             /\ Unlock(IF rd.op = "SetPos" THEN {"http"} ELSE {"http", "mem"})
    <3>1. rd'.pc \in {"done", "Read"} /\ "pc" \in DOMAIN rd'
      BY <2>3 DEF SetPosEnds
    <3>2. lock' \in [Mutex -> [by : Thread, n : Int]]
      BY <2>3, UnlockKeeps, {"http"} \in SUBSET Mutex, {"http", "mem"} \in SUBSET Mutex DEF Mutex
    <3> QED BY <1>6, <2>1, <2>3, <3>1, <3>2, QuietStep DEF SetPosMem
  <2> QED BY <1>6, <2>2, <2>3 DEF SetPosMem
<1>7. CASE SetPosConnect
  <2>1. rd.pc = "seekConnect" /\ dl.kind # "data" /\ dl.pc \notin {"net", "fill", "again"}
    BY <1>7 DEF SetPosConnect
  <2>2. rd'.pc \in {"done", "Read"} /\ "pc" \in DOMAIN rd'
    BY <1>7 DEF SetPosConnect, SetPosEnds
  <2>3. lock' \in [Mutex -> [by : Thread, n : Int]]
    BY <1>7 DEF SetPosConnect, UnlockAll, Open, Thread, Mutex
  <2>4. http' = [made |-> TRUE, at |-> m_llDownPos] \/ http' = [made |-> TRUE, at |-> -1]
    BY <1>7 DEF SetPosConnect, Connects
  <2> QED BY <1>7, <2>1, <2>2, <2>3, <2>4 DEF SetPosConnect
<1>8. CASE Read
  <2>1. rd.pc = "Read" /\ rd'.pc \in {"done", "copy", "wait"} /\ "pc" \in DOMAIN rd'
    BY <1>8 DEF Read
  <2>2. lock' \in [Mutex -> [by : Thread, n : Int]] /\ lock'["http"] = lock["http"]
    BY <1>8 DEF Read, Lock, Thread, Mutex
  <2> QED BY <1>8, <2>1, <2>2, QuietStep DEF Read
<1>9. CASE ReadGivesUp
  <2>1. rd.pc = "wait" /\ rd'.pc = "done" /\ "pc" \in DOMAIN rd'
    BY <1>9 DEF ReadGivesUp
  <2>2. lock' \in [Mutex -> [by : Thread, n : Int]] /\ lock'["http"] = lock["http"]
    BY <1>9, UnlockKeeps, {"func"} \in SUBSET Mutex DEF ReadGivesUp, Mutex
  <2> QED BY <1>9, <2>1, <2>2, QuietStep DEF ReadGivesUp
<1>10. CASE ReadGoesOn
  BY <1>10 DEF ReadGoesOn
<1>11. CASE ReadCopy
  BY <1>11 DEF ReadCopy, Unlock, Open, Thread, Mutex
<1>12. CASE Return
  BY <1>12 DEF Return, NoCall
<1> QED BY <1>1, <1>2, <1>3, <1>4, <1>5, <1>6, <1>7, <1>8, <1>9, <1>10, <1>11, <1>12 DEF Reader

-----------------------------------------------------------------------------
(* The download thread has the lock from before it reads the network until *)
(* the data is in the memory.                                              *)

LEMMA DownloadStep ==
  ASSUME IInv, Download
  PROVE  IInv'
<1> USE DEF IInv, Shape, HoldsHttp, DataIsFilled, NotYetMade, CloseIsLast, DownloadInStep, file,
            Pass
<1>1. CASE BeginReconnect
  BY <1>1 DEF BeginReconnect, Wanted, Lock, Thread, Mutex
<1>2. CASE ReconnectHttp
  BY <1>2 DEF ReconnectHttp, Lock, Free, Thread, Mutex
<1>3. CASE ReconnectEnds
  BY <1>3 DEF ReconnectEnds, Connects, UnlockAll, Open, Thread, Mutex
<1>4. CASE BeginRead
  BY <1>4 DEF BeginRead, Wanted, Lock, Free, Thread, Mutex
<1>5. CASE NetData
  BY <1>5, FileAssumption, MemAssumption DEF NetData, Bytes, Min2
<1>6. CASE NetNothing
  <2>1. CASE dl' = [dl EXCEPT !.pc = "fill"] /\ UNCHANGED http
    BY <1>6, <2>1 DEF NetNothing
  <2>2. CASE /\ http' = [http EXCEPT !.at = -1]
             /\ dl' = [dl EXCEPT !.pc = "fill", !.kind = "lost"]
    BY <1>6, <2>2 DEF NetNothing
  <2> QED BY <1>6, <2>1, <2>2 DEF NetNothing
<1>7. CASE Fill
  BY <1>7 DEF Fill, Unlock, Open, Thread, Mutex
<1>8. CASE Lost
  BY <1>8 DEF Lost
<1>9. CASE ResetMem
  BY <1>9 DEF ResetMem
<1> QED BY <1>1, <1>2, <1>3, <1>4, <1>5, <1>6, <1>7, <1>8, <1>9 DEF Download

-----------------------------------------------------------------------------
(* The engine closes the connection when nobody has the lock. *)

LEMMA CloserStep ==
  ASSUME IInv, Closer
  PROVE  IInv'
<1> USE DEF IInv, Shape, HoldsHttp, DataIsFilled, NotYetMade, CloseIsLast, DownloadInStep, file,
            Engine
<1>1. CASE BeginStop
  BY <1>1 DEF BeginStop
<1>2. CASE Interrupt
  BY <1>2 DEF Interrupt
<1>3. CASE StopThread
  BY <1>3 DEF StopThread
<1>4. CASE Join
  BY <1>4 DEF Join, Pass
<1>5. CASE BeginClose
  BY <1>5 DEF BeginClose
<1>6. CASE CloseAll
  BY <1>6 DEF CloseAll, Free, Mutex
<1> QED BY <1>1, <1>2, <1>3, <1>4, <1>5, <1>6 DEF Closer, CloserGoesOn

LEMMA StutterStep ==
  ASSUME IInv, UNCHANGED vars
  PROVE  IInv'
  BY DEF vars, file, cache, IInv, Shape, HoldsHttp, DataIsFilled, NotYetMade, CloseIsLast,
         DownloadInStep

-----------------------------------------------------------------------------
(* No seek, reconnection, stop or close comes between a read of the        *)
(* network and the FillBuff of its data: what is downloaded belongs where  *)
(* it is put (CHTTPIO2.cpp:611-620), for every file and sequence of calls. *)
THEOREM DownloadStaysInStep == Spec => []DownloadInStep
<1>1. IInv /\ [Next]_vars => IInv'
  BY CallStep, ReaderStep, DownloadStep, CloserStep, StutterStep DEF Next
<1>2. IInv => DownloadInStep
  BY DEF IInv
<1> QED BY InitIInv, <1>1, <1>2, PTL DEF Spec
-----------------------------------------------------------------------------
(* The memory: what its operations keep.  A memory is sized if no block    *)
(* holds more than MEM_BUFF_SIZE bytes.                                    *)

AnyBlock == [m_llPos : Nat, data : Seq(Nat)]
SizedBlock == {b \in AnyBlock : Len(b.data) <= MEM_BUFF_SIZE}

LEMMA BlockTypes ==
  ASSUME NEW b \in AnyBlock
  PROVE  b.m_llPos \in Nat /\ b.data \in Seq(Nat) /\ Len(b.data) \in Nat /\ EndOf(b) \in Nat
<1>1. b.m_llPos \in Nat /\ b.data \in Seq(Nat)
  BY DEF AnyBlock
<1>2. Len(b.data) \in Nat
  BY <1>1, LenProperties
<1> QED BY <1>1, <1>2 DEF EndOf

LEMMA BlockOf ==
  ASSUME NEW p \in Nat, NEW data \in Seq(Nat)
  PROVE  /\ Block(p, data) \in AnyBlock /\ Block(p, data).m_llPos = p
         /\ Block(p, data).data = data /\ EndOf(Block(p, data)) = p + Len(data)
  BY DEF Block, AnyBlock, EndOf

LEMMA MemoryTypes ==
  ASSUME NEW m \in Memory
  PROVE  /\ m.m_lstFull \in Seq(AnyBlock) /\ m.m_lstFree \in Nat /\ m.m_llFillPos \in Nat
         /\ m.m_llPosAudio \in Nat /\ m.m_llPosVideo \in Nat
         /\ Len(m.m_lstFull) \in Nat /\ DOMAIN m.m_lstFull = 1..Len(m.m_lstFull)
         /\ \A k \in 1..Len(m.m_lstFull) : m.m_lstFull[k] \in AnyBlock
<1>1. /\ m.m_lstFull \in Seq(AnyBlock) /\ m.m_lstFree \in Nat /\ m.m_llFillPos \in Nat
      /\ m.m_llPosAudio \in Nat /\ m.m_llPosVideo \in Nat
  BY DEF Memory, AnyBlock
<1> QED BY <1>1, LenProperties, ElementOfSeq

(* A list put in place of the list of a memory, and a number in place of    *)
(* one of its numbers.                                                      *)
LEMMA MemoryWith ==
  ASSUME NEW m \in Memory, NEW l \in Seq(AnyBlock)
  PROVE  [m EXCEPT !.m_lstFull = l] \in Memory /\ [m EXCEPT !.m_lstFull = l].m_lstFull = l
  BY DEF Memory, AnyBlock

LEMMA MemoryWithNumber ==
  ASSUME NEW m \in Memory, NEW n \in Nat
  PROVE  /\ [m EXCEPT !.m_lstFree = n] \in Memory
         /\ [m EXCEPT !.m_lstFree = n].m_lstFull = m.m_lstFull
         /\ [m EXCEPT !.m_llFillPos = n] \in Memory
         /\ [m EXCEPT !.m_llFillPos = n].m_lstFull = m.m_lstFull
         /\ [m EXCEPT !.m_llFillPos = n].m_llFillPos = n
  BY DEF Memory, AnyBlock

LEMMA FirstOfNat ==
  ASSUME NEW s, s \subseteq Nat, s # {}
  PROVE  FirstOf(s) \in s /\ \A j \in s : FirstOf(s) <= j
<1>1. PICK x \in s : \A y \in s : x <= y
  BY LeastOfNat
<1> QED BY <1>1 DEF FirstOf

LEMMA ResetType ==
  ASSUME NEW m \in Memory
  PROVE  Reset(m) \in Memory /\ Reset(m).m_lstFull = <<>> /\ Reset(m).m_llFillPos = 0
<1>1. m.m_lstFree + Len(m.m_lstFull) \in Nat /\ <<>> \in Seq(AnyBlock)
  BY MemoryTypes
<1> QED BY <1>1 DEF Reset, Memory, AnyBlock

LEMMA AfterReadType ==
  ASSUME NEW m \in Memory, NEW pos \in Nat, NEW flag
  PROVE  /\ AfterRead(m, pos, flag) \in Memory
         /\ AfterRead(m, pos, flag).m_lstFull = m.m_lstFull
         /\ AfterRead(m, pos, flag).m_llFillPos = m.m_llFillPos
<1>1. CASE flag = "audio"
  BY <1>1 DEF AfterRead, Memory
<1>2. CASE flag = "video"
  BY <1>2 DEF AfterRead, Memory
<1>3. CASE flag # "audio" /\ flag # "video"
  BY <1>3 DEF AfterRead
<1> QED BY <1>1, <1>2, <1>3

(* A block may have been taken from the head of a list of more than two.    *)
LEMMA GetItemType ==
  ASSUME NEW m \in Memory
  PROVE  /\ GetItem(m) \in Memory
         /\ \/ GetItem(m).m_lstFull = m.m_lstFull
            \/ Len(m.m_lstFull) > 2 /\ GetItem(m).m_lstFull = Tail(m.m_lstFull)
<1>1. CASE m.m_lstFree > 0
  <2>1. m.m_lstFree - 1 \in Nat
    BY <1>1, MemoryTypes
  <2> QED BY <1>1, <2>1, MemoryWithNumber, MemoryTypes DEF GetItem
<1>2. CASE ~(m.m_lstFree > 0) /\ CheckFullList(m)
  <2>1. Len(m.m_lstFull) > 2 /\ m.m_lstFull \in Seq(AnyBlock)
    BY <1>2, MemoryTypes DEF CheckFullList
  <2>2. Tail(m.m_lstFull) \in Seq(AnyBlock)
    BY <2>1, HeadTailProperties, EmptySeq
  <2> DEFINE t == Tail(m.m_lstFull)
  <2>3. GetItem(m) = [m EXCEPT !.m_lstFull = t]
    BY <1>2 DEF GetItem
  <2>4. t \in Seq(AnyBlock)
    BY <2>2
  <2> HIDE DEF t
  <2>5. [m EXCEPT !.m_lstFull = t] \in Memory /\ [m EXCEPT !.m_lstFull = t].m_lstFull = t
    BY <2>4, MemoryWith
  <2> QED BY <2>1, <2>3, <2>5 DEF t
<1>3. CASE ~(m.m_lstFree > 0) /\ ~CheckFullList(m)
  BY <1>3 DEF GetItem
<1> QED BY <1>1, <1>2, <1>3

(* The new block comes behind the last one that does not begin later.       *)
Before(l, p) == Cardinality({j \in DOMAIN l : l[j].m_llPos <= p})

LEMMA BeforeType ==
  ASSUME NEW l \in Seq(AnyBlock), NEW p \in Nat
  PROVE  /\ Before(l, p) \in 0..Len(l)
         /\ (\A j \in 1..Len(l) : l[j].m_llPos <= p) => Before(l, p) = Len(l)
<1> DEFINE s == {j \in DOMAIN l : l[j].m_llPos <= p}
<1>1. Len(l) \in Nat /\ DOMAIN l = 1..Len(l)
  BY LenProperties
<1>2. IsFiniteSet(1..Len(l)) /\ Cardinality(1..Len(l)) = Len(l)
  BY <1>1, FS_Interval
<1>3. s \in SUBSET (1..Len(l))
  BY <1>1
<1>4. IsFiniteSet(s) /\ Cardinality(s) <= Len(l)
  BY <1>2, <1>3, FS_Subset
<1>5. Cardinality(s) \in Nat
  BY <1>4, FS_CardinalityType
<1>6. (\A j \in 1..Len(l) : l[j].m_llPos <= p) => s = 1..Len(l)
  BY <1>1
<1>7. Before(l, p) = Cardinality(s)
  BY DEF Before
<1> HIDE DEF s
<1> QED BY <1>1, <1>2, <1>4, <1>5, <1>6, <1>7

LEMMA AddItemIs ==
  ASSUME NEW m \in Memory, NEW p \in Nat, NEW data \in Seq(Nat)
  PROVE  LET g == GetItem(m).m_lstFull IN
         AddItem(m, p, data) =
           [GetItem(m) EXCEPT !.m_lstFull = InsertAt(g, Before(g, p) + 1, Block(p, data))]
  BY DEF AddItem, Before

LEMMA AddItemType ==
  ASSUME NEW m \in Memory, NEW p \in Nat, NEW data \in Seq(Nat)
  PROVE  LET g == GetItem(m).m_lstFull
             a == AddItem(m, p, data) IN
         /\ a \in Memory /\ g \in Seq(AnyBlock)
         /\ a.m_lstFull = InsertAt(g, Before(g, p) + 1, Block(p, data))
<1> DEFINE g == GetItem(m).m_lstFull
           l == InsertAt(g, Before(g, p) + 1, Block(p, data))
<1>1. GetItem(m) \in Memory /\ g \in Seq(AnyBlock)
  BY GetItemType, MemoryTypes
<1>2. Block(p, data) \in AnyBlock
  BY BlockOf
<1>3. Before(g, p) + 1 \in 1..(Len(g) + 1)
  <2> HIDE DEF g
  <2>1. Before(g, p) \in 0..Len(g) /\ Len(g) \in Nat
    BY <1>1, BeforeType, LenProperties
  <2> QED BY <2>1
<1>4. l \in Seq(AnyBlock)
  <2> HIDE DEF g
  <2> QED BY <1>1, <1>2, <1>3, InsertAtProperties
<1>5. AddItem(m, p, data) = [GetItem(m) EXCEPT !.m_lstFull = l]
  BY AddItemIs
<1> HIDE DEF l
<1>6. [GetItem(m) EXCEPT !.m_lstFull = l] \in Memory /\ [GetItem(m) EXCEPT !.m_lstFull = l].m_lstFull = l
  BY <1>1, <1>4, MemoryWith
<1> QED BY <1>1, <1>5, <1>6 DEF l

(* Every block of the list was there, or is the new one.                    *)
LEMMA AddItemBlocks ==
  ASSUME NEW m \in Memory, NEW p \in Nat, NEW data \in Seq(Nat), NEW T,
         m.m_lstFull \in Seq(T), Block(p, data) \in T
  PROVE  AddItem(m, p, data).m_lstFull \in Seq(T)
<1> DEFINE g == GetItem(m).m_lstFull
<1>1. g \in Seq(T) /\ g \in Seq(AnyBlock)
  <2>1. Len(m.m_lstFull) > 2 => Tail(m.m_lstFull) \in Seq(T)
    BY HeadTailProperties, EmptySeq
  <2> QED BY <2>1, GetItemType, MemoryTypes
<1>2. AddItem(m, p, data).m_lstFull = InsertAt(g, Before(g, p) + 1, Block(p, data))
  BY AddItemType
<1> HIDE DEF g
<1>3. Before(g, p) + 1 \in 1..(Len(g) + 1)
  <2>1. Before(g, p) \in 0..Len(g) /\ Len(g) \in Nat
    BY <1>1, BeforeType, LenProperties
  <2> QED BY <2>1
<1> QED BY <1>1, <1>2, <1>3, InsertAtProperties
(* Data behind the data of a block, and what is left of it. *)
Grown(b, data, r) == [b EXCEPT !.data = @ \o SubSeq(data, 1, r)]
Left(data, r) == SubSeq(data, r + 1, Len(data))
InRange(m, p) == {k \in DOMAIN m.m_lstFull :
                    m.m_lstFull[k].m_llPos <= p /\ p < m.m_lstFull[k].m_llPos + MEM_BUFF_SIZE}

LEMMA GrownIs ==
  ASSUME NEW b \in AnyBlock, NEW data \in Seq(Nat), NEW r \in 0..Len(data)
  PROVE  LET g == Grown(b, data, r) IN
         /\ g \in AnyBlock /\ g.m_llPos = b.m_llPos /\ Len(g.data) = Len(b.data) + r
         /\ EndOf(g) = EndOf(b) + r
         /\ \A j \in 1..(Len(b.data) + r) :
              g.data[j] = IF j <= Len(b.data) THEN b.data[j] ELSE data[j - Len(b.data)]
<1> DEFINE d == SubSeq(data, 1, r)
<1>1. d \in Seq(Nat) /\ Len(d) = r /\ \A j \in 1..r : d[j] = data[j]
  <2>1. Len(data) \in Nat /\ r \in Nat /\ \A j \in 1..r : 1 + j - 1 = j
    BY LenProperties
  <2> QED BY <2>1, PartOfSeq
<1> HIDE DEF d
<1>2. b.data \in Seq(Nat) /\ b.m_llPos \in Nat /\ Len(b.data) \in Nat
  BY BlockTypes
<1>3. /\ b.data \o d \in Seq(Nat) /\ Len(b.data \o d) = Len(b.data) + r
      /\ \A j \in 1..(Len(b.data) + r) :
           (b.data \o d)[j] = IF j <= Len(b.data) THEN b.data[j] ELSE d[j - Len(b.data)]
  BY <1>1, <1>2, ConcatProperties
<1>4. \A j \in 1..(Len(b.data) + r) : ~(j <= Len(b.data)) => j - Len(b.data) \in 1..r
  BY <1>2
<1>5. Grown(b, data, r) = [b EXCEPT !.data = b.data \o d]
  BY DEF Grown, d
<1>6. Grown(b, data, r) \in AnyBlock /\ Grown(b, data, r).m_llPos = b.m_llPos
      /\ Grown(b, data, r).data = b.data \o d
  BY <1>3, <1>5 DEF AnyBlock
<1>7. EndOf(Grown(b, data, r)) = EndOf(b) + r
  BY <1>2, <1>3, <1>6 DEF EndOf
<1> QED BY <1>1, <1>3, <1>4, <1>6, <1>7

LEMMA LeftIs ==
  ASSUME NEW data \in Seq(Nat), NEW r \in 0..Len(data)
  PROVE  /\ Left(data, r) \in Seq(Nat) /\ Len(Left(data, r)) = Len(data) - r
         /\ \A j \in 1..(Len(data) - r) : Left(data, r)[j] = data[r + j]
<1>1. Len(data) \in Nat /\ r + 1 \in Nat \ {0} /\ Len(data) \in 0..Len(data)
  BY LenProperties
<1> DEFINE d == SubSeq(data, r + 1, Len(data))
<1>2. /\ d \in Seq(Nat) /\ Len(d) = IF r + 1 <= Len(data) THEN Len(data) - (r + 1) + 1 ELSE 0
      /\ \A j \in 1..(Len(data) - (r + 1) + 1) : d[j] = data[(r + 1) + j - 1]
  BY <1>1, PartOfSeq
<1>3. /\ Len(data) - (r + 1) + 1 = Len(data) - r
      /\ \A j \in 1..(Len(data) - r) : (r + 1) + j - 1 = r + j
      /\ (r + 1 <= Len(data) \/ Len(data) - r = 0)
  BY <1>1
<1> HIDE DEF d
<1>4. Left(data, r) = d
  BY DEF Left, d
<1> QED BY <1>2, <1>3, <1>4

(* Where FillBuff puts the data. *)
LEMMA FillBuffIs ==
  ASSUME NEW m \in Memory, NEW p \in Nat, NEW data \in Seq(Nat)
  PROVE  LET k    == FirstOf(InRange(m, p))
             b    == m.m_lstFull[k]
             room == Min2(Len(data), MEM_BUFF_SIZE - Len(b.data))
             app  == [m EXCEPT !.m_lstFull = [m.m_lstFull EXCEPT ![k] = Grown(b, data, room)]]
             fill == IF InRange(m, p) = {} THEN AddItem(m, p, data)
                     ELSE IF room = Len(data) THEN app
                     ELSE AddItem(app, p + room, Left(data, room))
         IN  FillBuff(m, p, data) = [fill EXCEPT !.m_llFillPos = p + Len(data)]
  BY DEF FillBuff, InRange, Grown, Left

(* A block of T that takes some of the data, or a new block with what is    *)
(* left, is a block of U.                                                   *)
Takes(T, U, p, data) ==
  /\ T \subseteq SizedBlock /\ T \subseteq U /\ U \subseteq SizedBlock
  /\ \A b \in T : \A r \in 0..Len(data) :
       b.m_llPos <= p /\ Len(b.data) + r <= MEM_BUFF_SIZE => Grown(b, data, r) \in U
  /\ \A r \in 0..Len(data) : Block(p + r, Left(data, r)) \in U

LEMMA RoomType ==
  ASSUME NEW n \in Nat, NEW size \in Nat, NEW used \in Nat, used <= size
  PROVE  /\ Min2(n, size - used) \in 0..n
         /\ used + Min2(n, size - used) <= size
  BY DEF Min2

LEMMA FillBuffBlocks ==
  ASSUME NEW m \in Memory, NEW p \in Nat, NEW data \in Seq(Nat), NEW T, NEW U,
         m.m_lstFull \in Seq(T), Takes(T, U, p, data), Block(p, data) \in U
  PROVE  /\ FillBuff(m, p, data) \in Memory
         /\ FillBuff(m, p, data).m_lstFull \in Seq(U)
         /\ FillBuff(m, p, data).m_llFillPos = p + Len(data)
<1> DEFINE k    == FirstOf(InRange(m, p))
           b    == m.m_lstFull[k]
           room == Min2(Len(data), MEM_BUFF_SIZE - Len(b.data))
           list == [m.m_lstFull EXCEPT ![k] = Grown(b, data, room)]
           app  == [m EXCEPT !.m_lstFull = list]
           fill == IF InRange(m, p) = {} THEN AddItem(m, p, data)
                   ELSE IF room = Len(data) THEN app
                   ELSE AddItem(app, p + room, Left(data, room))
<1>1. T \subseteq U /\ U \subseteq SizedBlock /\ U \subseteq AnyBlock /\ m.m_lstFull \in Seq(U)
  BY SeqMonotonic DEF Takes, SizedBlock
<1>2. Len(data) \in Nat /\ p + Len(data) \in Nat
  BY LenProperties
<1>3. fill \in Memory /\ fill.m_lstFull \in Seq(U)
  <2>1. CASE InRange(m, p) = {}
    BY <1>1, <2>1, AddItemType, AddItemBlocks
  <2>2. CASE InRange(m, p) # {}
    <3>1. k \in 1..Len(m.m_lstFull) /\ b.m_llPos <= p
      <4>1. InRange(m, p) \subseteq 1..Len(m.m_lstFull) /\ InRange(m, p) \subseteq Nat
        BY MemoryTypes DEF InRange
      <4>2. k \in InRange(m, p)
        BY <2>2, <4>1, FirstOfNat
      <4> QED BY <4>1, <4>2 DEF InRange
    <3>2. b \in T /\ b \in SizedBlock /\ Len(b.data) \in Nat
      <4>1. b \in T
        BY <3>1, ElementOfSeq
      <4> QED BY <4>1, BlockTypes DEF Takes, SizedBlock
    <3>3. room \in 0..Len(data) /\ Len(b.data) + room <= MEM_BUFF_SIZE
      <4>1. Len(b.data) <= MEM_BUFF_SIZE /\ MEM_BUFF_SIZE \in Nat
        BY <3>2, MemAssumption DEF SizedBlock
      <4> QED BY <1>2, <3>2, <4>1, RoomType
    <3>4. Grown(b, data, room) \in U
      <4> HIDE DEF b, room
      <4> QED BY <3>1, <3>2, <3>3 DEF Takes
    <3>5. list \in Seq(U)
      <4> HIDE DEF b, room, k
      <4> QED BY <1>1, <3>1, <3>4, ExceptSeq
    <3>6. app \in Memory /\ app.m_lstFull \in Seq(U)
      <4> HIDE DEF list
      <4>1. list \in Seq(AnyBlock)
        BY <1>1, <3>5, SeqMonotonic
      <4> QED BY <3>5, <4>1, MemoryWith
    <3>7. AddItem(app, p + room, Left(data, room)) \in Memory
          /\ AddItem(app, p + room, Left(data, room)).m_lstFull \in Seq(U)
      <4>1. Block(p + room, Left(data, room)) \in U
        <5> HIDE DEF room
        <5> QED BY <3>3 DEF Takes
      <4>2. p + room \in Nat /\ Left(data, room) \in Seq(Nat)
        <5> HIDE DEF room, k, b, list, app, fill
        <5>1. room \in 0..Len(data) /\ room \in Nat
          BY <1>2, <3>3
        <5>2. Left(data, room) \in Seq(Nat)
          BY <5>1, LeftIs
        <5> QED BY <5>1, <5>2
      <4> HIDE DEF app, room
      <4> QED BY <3>6, <4>1, <4>2, AddItemType, AddItemBlocks
    <3> QED BY <2>2, <3>6, <3>7
  <2> QED BY <2>1, <2>2
<1> DEFINE end == p + Len(data)
<1>4. FillBuff(m, p, data) = [fill EXCEPT !.m_llFillPos = end]
  BY FillBuffIs
<1> HIDE DEF fill, end
<1>5. end \in Nat
  BY <1>2 DEF end
<1>6. /\ [fill EXCEPT !.m_llFillPos = end] \in Memory
      /\ [fill EXCEPT !.m_llFillPos = end].m_lstFull = fill.m_lstFull
      /\ [fill EXCEPT !.m_llFillPos = end].m_llFillPos = end
  BY <1>3, <1>5, MemoryWithNumber
<1> QED BY <1>3, <1>4, <1>6 DEF end

LEMMA TakesSized ==
  ASSUME NEW p \in Nat, NEW data \in Seq(Nat), Len(data) <= MEM_BUFF_SIZE
  PROVE  Takes(SizedBlock, SizedBlock, p, data) /\ Block(p, data) \in SizedBlock
<1>1. ASSUME NEW b \in SizedBlock, NEW r \in 0..Len(data), Len(b.data) + r <= MEM_BUFF_SIZE
      PROVE  Grown(b, data, r) \in SizedBlock
  BY <1>1, GrownIs DEF SizedBlock
<1>2. ASSUME NEW r \in 0..Len(data)
      PROVE  Block(p + r, Left(data, r)) \in SizedBlock
  <2>1. Left(data, r) \in Seq(Nat) /\ Len(Left(data, r)) = Len(data) - r /\ p + r \in Nat
    BY LeftIs
  <2>2. Len(data) \in Nat /\ MEM_BUFF_SIZE \in Nat
    BY LenProperties, MemAssumption
  <2>3. Len(data) - r <= MEM_BUFF_SIZE
    BY <2>2
  <2>4. /\ Block(p + r, Left(data, r)) \in AnyBlock
        /\ Block(p + r, Left(data, r)).data = Left(data, r)
    BY <2>1, BlockOf
  <2> QED BY <2>1, <2>3, <2>4 DEF SizedBlock
<1>3. Block(p, data) \in SizedBlock
  BY BlockOf DEF SizedBlock
<1> QED BY <1>1, <1>2, <1>3 DEF Takes

LEMMA FillBuffType ==
  ASSUME NEW m \in Memory, NEW p \in Nat, NEW data \in Seq(Nat), Len(data) <= MEM_BUFF_SIZE,
         m.m_lstFull \in Seq(SizedBlock)
  PROVE  /\ FillBuff(m, p, data) \in Memory
         /\ FillBuff(m, p, data).m_lstFull \in Seq(SizedBlock)
         /\ FillBuff(m, p, data).m_llFillPos = p + Len(data)
  BY TakesSized, FillBuffBlocks

(* No block ends behind e. *)
EndsBy(e) == {b \in SizedBlock : EndOf(b) <= e}

(* Data behind the ends of all blocks moves no end behind its own. *)
LEMMA FillBuffEnds ==
  ASSUME NEW m \in Memory, NEW p \in Nat, NEW data \in Seq(Nat), Len(data) <= MEM_BUFF_SIZE,
         m.m_lstFull \in Seq(EndsBy(p))
  PROVE  /\ FillBuff(m, p, data) \in Memory
         /\ FillBuff(m, p, data).m_lstFull \in Seq(EndsBy(p + Len(data)))
<1> DEFINE e == p + Len(data)
<1>0. Len(data) \in Nat /\ e \in Nat /\ p <= e
  BY LenProperties
<1>1. EndsBy(p) \subseteq SizedBlock /\ EndsBy(e) \subseteq SizedBlock /\ EndsBy(p) \subseteq EndsBy(e)
  <2>1. \A b \in SizedBlock : EndOf(b) \in Nat
    BY BlockTypes DEF SizedBlock
  <2> HIDE DEF e
  <2> QED BY <1>0, <2>1 DEF EndsBy
<1>2. Takes(SizedBlock, SizedBlock, p, data) /\ Block(p, data) \in SizedBlock
  BY TakesSized
<1>3. ASSUME NEW b \in EndsBy(p), NEW r \in 0..Len(data), b.m_llPos <= p,
             Len(b.data) + r <= MEM_BUFF_SIZE
      PROVE  Grown(b, data, r) \in EndsBy(e)
  <2>1. b \in SizedBlock /\ b \in AnyBlock /\ EndOf(b) <= p
    BY DEF EndsBy, SizedBlock
  <2>2. Grown(b, data, r) \in SizedBlock
    BY <1>2, <1>3, <2>1 DEF Takes
  <2>3. EndOf(Grown(b, data, r)) = EndOf(b) + r /\ EndOf(b) \in Nat
    BY <2>1, GrownIs, BlockTypes
  <2>4. EndOf(b) + r <= e
    BY <1>0, <2>1, <2>3
  <2> HIDE DEF e
  <2> QED BY <2>2, <2>3, <2>4 DEF EndsBy
<1>4. ASSUME NEW r \in 0..Len(data)
      PROVE  Block(p + r, Left(data, r)) \in EndsBy(e)
  <2>1. Left(data, r) \in Seq(Nat) /\ Len(Left(data, r)) = Len(data) - r /\ p + r \in Nat
    BY LeftIs
  <2>2. EndOf(Block(p + r, Left(data, r))) = (p + r) + (Len(data) - r)
    BY <2>1, BlockOf
  <2>3. (p + r) + (Len(data) - r) = e
    BY <1>0
  <2>4. Block(p + r, Left(data, r)) \in SizedBlock
    BY <1>2 DEF Takes
  <2> HIDE DEF e
  <2> QED BY <1>0, <2>2, <2>3, <2>4 DEF EndsBy
<1>5. Block(p, data) \in EndsBy(e)
  <2>1. EndOf(Block(p, data)) = e
    BY BlockOf
  <2> HIDE DEF e
  <2> QED BY <1>0, <1>2, <2>1 DEF EndsBy
<1> HIDE DEF e
<1>6. Takes(EndsBy(p), EndsBy(e), p, data)
  BY <1>1, <1>3, <1>4 DEF Takes
<1>7. FillBuff(m, p, data) \in Memory /\ FillBuff(m, p, data).m_lstFull \in Seq(EndsBy(e))
  BY <1>5, <1>6, FillBuffBlocks
<1> QED BY <1>7 DEF e
(* What SetPos keeps when a block holds the position: everything from a     *)
(* block on that does not come behind it, up to the first gap.              *)
Joined(l, h) == {k \in 1..h : \A j \in k..(h - 1) : EndOf(l[j]) = l[j + 1].m_llPos}
Kept(l, h) == IF FirstOf(Joined(l, h)) <= 2 THEN l ELSE SubSeq(l, FirstOf(Joined(l, h)), Len(l))
Gaps(l, p) == {k \in 2..Len(l) : EndOf(l[k - 1]) \notin {p, l[k].m_llPos}}

LEMMA SetPosIs ==
  ASSUME NEW m, NEW p
  PROVE  LET full == m.m_lstFull
             kept == Kept(full, FirstOf(Holders(m, p)))
             gaps == Gaps(kept, p)
             list == IF gaps = {} THEN kept ELSE SubSeq(kept, 1, FirstOf(gaps))
             fill == IF gaps = {} THEN EndOf(Last(kept)) ELSE EndOf(kept[FirstOf(gaps) - 1])
         IN  SetPos(m, p) =
               [IF Holders(m, p) = {} THEN [Reset(m) EXCEPT !.m_llFillPos = p]
                ELSE [m EXCEPT !.m_lstFull = list, !.m_llFillPos = fill,
                               !.m_lstFree = @ + Len(full) - Len(list)]
                EXCEPT !.m_llPosAudio = p, !.m_llPosVideo = p]
  BY DEF SetPos, Kept, Gaps, Joined

LEMMA HoldersType ==
  ASSUME NEW m \in Memory, NEW p
  PROVE  /\ Holders(m, p) \subseteq 1..Len(m.m_lstFull) /\ Holders(m, p) \subseteq Nat
         /\ Holders(m, p) # {} =>
              LET k == FirstOf(Holders(m, p)) IN
              /\ k \in 1..Len(m.m_lstFull) /\ Holds(m.m_lstFull[k], p)
              /\ \A j \in Holders(m, p) : k <= j
<1>1. Holders(m, p) \subseteq 1..Len(m.m_lstFull) /\ Holders(m, p) \subseteq Nat
  BY MemoryTypes DEF Holders
<1>2. ASSUME Holders(m, p) # {}
      PROVE  LET k == FirstOf(Holders(m, p)) IN
              /\ k \in 1..Len(m.m_lstFull) /\ Holds(m.m_lstFull[k], p)
              /\ \A j \in Holders(m, p) : k <= j
  <2>1. FirstOf(Holders(m, p)) \in Holders(m, p) /\ \A j \in Holders(m, p) : FirstOf(Holders(m, p)) <= j
    BY <1>1, <1>2, FirstOfNat
  <2>2. Holds(m.m_lstFull[FirstOf(Holders(m, p))], p)
    BY <2>1 DEF Holders
  <2> QED BY <1>1, <2>1, <2>2
<1> QED BY <1>1, <1>2

LEMMA KeptType ==
  ASSUME NEW S, NEW l \in Seq(S), NEW h \in 1..Len(l)
  PROVE  /\ Kept(l, h) \in Seq(S)
         /\ \E d \in 0..(h - 1) :
              /\ Len(Kept(l, h)) = Len(l) - d
              /\ \A i \in 1..(Len(l) - d) : Kept(l, h)[i] = l[i + d]
<1> DEFINE first == FirstOf(Joined(l, h))
<1>0. Len(l) \in Nat /\ h \in Nat
  BY LenProperties
<1>1. first \in 1..h
  <2>1. h \in Joined(l, h) /\ Joined(l, h) \subseteq 1..h /\ Joined(l, h) \subseteq Nat
    BY <1>0 DEF Joined
  <2>2. first \in Joined(l, h)
    BY <2>1, FirstOfNat
  <2> QED BY <2>1, <2>2
<1>2. CASE first <= 2
  <2>1. Kept(l, h) = l /\ 0 \in 0..(h - 1) /\ Len(l) - 0 = Len(l) /\ \A i \in 1..Len(l) : i + 0 = i
    BY <1>0, <1>2 DEF Kept
  <2> QED BY <1>0, <2>1
<1>3. CASE ~(first <= 2)
  <2>1. Kept(l, h) = SubSeq(l, first, Len(l))
    BY <1>3 DEF Kept
  <2> HIDE DEF first
  <2>2. first \in Nat \ {0} /\ first - 1 \in 0..(h - 1) /\ Len(l) \in 0..Len(l) /\ first <= Len(l)
    BY <1>0, <1>1
  <2>3. /\ SubSeq(l, first, Len(l)) \in Seq(S)
        /\ Len(SubSeq(l, first, Len(l))) = Len(l) - first + 1
        /\ \A k \in 1..(Len(l) - first + 1) : SubSeq(l, first, Len(l))[k] = l[first + k - 1]
    BY <2>2, PartOfSeq
  <2>4. /\ Len(l) - first + 1 = Len(l) - (first - 1)
        /\ \A k \in 1..(Len(l) - (first - 1)) : first + k - 1 = k + (first - 1)
    BY <1>0, <2>2
  <2> QED BY <2>1, <2>2, <2>3, <2>4
<1> QED BY <1>2, <1>3

LEMMA SetPosType ==
  ASSUME NEW m \in Memory, NEW p \in Nat, NEW T, T \subseteq AnyBlock, m.m_lstFull \in Seq(T)
  PROVE  SetPos(m, p) \in Memory /\ SetPos(m, p).m_lstFull \in Seq(T)
<1> DEFINE full == m.m_lstFull
           kept == Kept(full, FirstOf(Holders(m, p)))
           gaps == Gaps(kept, p)
           list == IF gaps = {} THEN kept ELSE SubSeq(kept, 1, FirstOf(gaps))
           fill == IF gaps = {} THEN EndOf(Last(kept)) ELSE EndOf(kept[FirstOf(gaps) - 1])
<1>1. CASE Holders(m, p) = {}
  <2>1. SetPos(m, p) = [[Reset(m) EXCEPT !.m_llFillPos = p]
                          EXCEPT !.m_llPosAudio = p, !.m_llPosVideo = p]
    BY <1>1, SetPosIs
  <2>2. Reset(m) \in Memory /\ Reset(m).m_lstFull = <<>> /\ <<>> \in Seq(T)
    BY ResetType
  <2> HIDE DEF list, fill, kept, gaps
  <2> QED BY <2>1, <2>2 DEF Memory
<1>2. CASE Holders(m, p) # {}
  <2>0. Len(full) \in Nat /\ m.m_lstFree \in Nat
    BY MemoryTypes
  <2>1. FirstOf(Holders(m, p)) \in 1..Len(full)
    BY <1>2, HoldersType
  <2>2. kept \in Seq(T) /\ Len(kept) \in 1..Len(full)
    <3>1. /\ kept \in Seq(T)
          /\ \E d \in 0..(FirstOf(Holders(m, p)) - 1) : Len(kept) = Len(full) - d
      BY <2>1, KeptType
    <3>2. PICK d \in 0..(FirstOf(Holders(m, p)) - 1) : Len(kept) = Len(full) - d
      BY <3>1
    <3> HIDE DEF kept
    <3> QED BY <2>0, <2>1, <3>1, <3>2
  <2>3. gaps # {} => FirstOf(gaps) \in 2..Len(kept)
    <3> HIDE DEF kept
    <3>1. gaps \subseteq 2..Len(kept) /\ gaps \subseteq Nat
      BY DEF Gaps
    <3> QED BY <3>1, FirstOfNat
  <2>4. list \in Seq(T) /\ Len(list) \in 1..Len(full)
    <3>1. CASE gaps = {}
      BY <2>2, <3>1
    <3>2. CASE gaps # {}
      <4> DEFINE g == FirstOf(gaps)
      <4>1. g \in 2..Len(kept) /\ g \in 0..Len(kept) /\ list = SubSeq(kept, 1, g)
        BY <2>3, <3>2
      <4> HIDE DEF kept, g, list
      <4>2. SubSeq(kept, 1, g) \in Seq(T) /\ Len(SubSeq(kept, 1, g)) = g
        <5>1. Len(SubSeq(kept, 1, g)) = IF 1 <= g THEN g - 1 + 1 ELSE 0
          BY <2>2, <4>1, PartOfSeq
        <5>2. SubSeq(kept, 1, g) \in Seq(T)
          BY <2>2, <4>1, PartOfSeq
        <5> QED BY <4>1, <5>1, <5>2
      <4> QED BY <2>2, <4>1, <4>2
    <3> QED BY <3>1, <3>2
  <2>5. fill \in Nat
    <3>1. \A i \in 1..Len(kept) : EndOf(kept[i]) \in Nat
      <4> HIDE DEF kept
      <4> QED BY <2>2, ElementOfSeq, BlockTypes
    <3>2. gaps # {} => FirstOf(gaps) - 1 \in 1..Len(kept)
      <4> HIDE DEF kept, gaps
      <4> QED BY <2>2, <2>3
    <3>3. Len(kept) \in 1..Len(kept)
      BY <2>2
    <3> HIDE DEF kept, gaps
    <3> QED BY <3>1, <3>2, <3>3 DEF Last
  <2> DEFINE n == m.m_lstFree + Len(full) - Len(list)
  <2>6. n \in Nat
    <3> HIDE DEF list, full
    <3> QED BY <2>0, <2>4
  <2>7. SetPos(m, p) = [[m EXCEPT !.m_lstFull = list, !.m_llFillPos = fill, !.m_lstFree = n]
                          EXCEPT !.m_llPosAudio = p, !.m_llPosVideo = p]
    BY <1>2, SetPosIs
  <2>8. list \in Seq(AnyBlock)
    <3> HIDE DEF list
    <3> QED BY <2>4, SeqMonotonic
  <2> HIDE DEF list, fill, n, kept, gaps, full
  <2> QED BY <2>4, <2>5, <2>6, <2>7, <2>8 DEF Memory, AnyBlock
<1> QED BY <1>1, <1>2
-----------------------------------------------------------------------------
(* How many bytes follow a position.                                       *)

(* From block first on, the end reached after each block. *)
Reached(l, first) ==
  LET prev[k \in first..Len(l)] ==
        IF k = first \/ l[k].m_llPos = prev[k - 1] THEN EndOf(l[k]) ELSE prev[k - 1]
  IN  prev

LEMMA GetBuffSizeIs ==
  ASSUME NEW m, NEW p
  PROVE  GetBuffSize(m, p) =
           IF m.m_llFillPos = p \/ Holders(m, p) = {} THEN 0
           ELSE Reached(m.m_lstFull, FirstOf(Holders(m, p)))[Len(m.m_lstFull)] - p
  BY DEF GetBuffSize, Reached

LEMMA ReachedIs ==
  ASSUME NEW l \in Seq(AnyBlock), NEW first \in 1..Len(l)
  PROVE  \A k \in first..Len(l) :
           Reached(l, first)[k] = IF k = first \/ l[k].m_llPos = Reached(l, first)[k - 1]
                                  THEN EndOf(l[k]) ELSE Reached(l, first)[k - 1]
<1> DEFINE n == Len(l) - first
           step == [i \in 1..n |-> [e \in Nat |->
                      IF l[first + i].m_llPos = e THEN EndOf(l[first + i]) ELSE e]]
           a == EndOf(l[first])
<1>0. Len(l) \in Nat /\ first \in Nat /\ n \in Nat
  BY LenProperties
<1>1. \A k \in 1..Len(l) : EndOf(l[k]) \in Nat
  BY ElementOfSeq, BlockTypes
<1>2. step \in [1..n -> [Nat -> Nat]]
  <2>1. \A i \in 1..n : first + i \in 1..Len(l)
    BY <1>0
  <2> QED BY <1>1, <2>1
<1>3. \E f \in [0..n -> Nat] : IsLoop(f, a, n, step)
  <2>1. a \in Nat /\ n \in Nat
    BY <1>0, <1>1
  <2> HIDE DEF step, n, a
  <2> QED BY <1>2, <2>1, LoopExists
<1>4. PICK f \in [0..n -> Nat] : f[0] = a /\ \A i \in 1..n : f[i] = step[i][f[i - 1]]
  <2> HIDE DEF step, n, a
  <2> QED BY <1>3 DEF IsLoop
<1> DEFINE prev == [k \in first..Len(l) |-> f[k - first]]
<1>5. ASSUME NEW k \in first..Len(l)
      PROVE  prev[k] = IF k = first \/ l[k].m_llPos = prev[k - 1] THEN EndOf(l[k]) ELSE prev[k - 1]
  <2>1. CASE k = first
    <3>1. k - first = 0
      BY <1>0, <2>1
    <3> QED BY <1>4, <2>1, <3>1
  <2>2. CASE k # first
    <3>1. /\ k - first \in 1..n /\ k - 1 \in first..Len(l) /\ (k - first) - 1 = (k - 1) - first
          /\ first + (k - first) = k /\ (k - first) - 1 \in 0..n
      BY <1>0, <2>2
    <3>2. prev[k] = f[k - first] /\ prev[k - 1] = f[(k - first) - 1] /\ f[(k - first) - 1] \in Nat
      BY <1>4, <3>1
    <3> DEFINE i == k - first
    <3>3. step[i] = [e \in Nat |-> IF l[first + i].m_llPos = e THEN EndOf(l[first + i]) ELSE e]
      BY <3>1
    <3>4. f[i] = step[i][f[i - 1]]
      BY <1>4, <3>1
    <3> HIDE DEF step, prev
    <3>5. f[i] = IF l[first + i].m_llPos = f[i - 1] THEN EndOf(l[first + i]) ELSE f[i - 1]
      BY <3>2, <3>3, <3>4
    <3> QED BY <2>2, <3>1, <3>2, <3>5
  <2> QED BY <2>1, <2>2
<1>6. prev = [k \in first..Len(l) |->
                IF k = first \/ l[k].m_llPos = prev[k - 1] THEN EndOf(l[k]) ELSE prev[k - 1]]
  BY <1>5
<1> DEFINE r == Reached(l, first)
<1>7. r = [k \in first..Len(l) |->
             IF k = first \/ l[k].m_llPos = r[k - 1] THEN EndOf(l[k]) ELSE r[k - 1]]
  <2> HIDE DEF prev
  <2> QED BY <1>6 DEF Reached
<1> HIDE DEF r
<1>8. \A k \in first..Len(l) : r[k] = IF k = first \/ l[k].m_llPos = r[k - 1] THEN EndOf(l[k]) ELSE r[k - 1]
  BY <1>7
<1> QED BY <1>8 DEF r

(* It is the end of a block. *)
LEMMA ReachedEnd ==
  ASSUME NEW l \in Seq(AnyBlock), NEW first \in 1..Len(l)
  PROVE  \E j \in first..Len(l) : Reached(l, first)[Len(l)] = EndOf(l[j])
<1> DEFINE n == Len(l) - first
           r == Reached(l, first)
           f == [i \in 0..n |-> r[first + i]]
           P == [i \in 0..n |-> {EndOf(l[j]) : j \in first..(first + i)}]
<1>0. Len(l) \in Nat /\ first \in Nat /\ n \in Nat /\ first + n = Len(l)
  BY LenProperties
<1>1. \A k \in first..Len(l) : r[k] = IF k = first \/ l[k].m_llPos = r[k - 1] THEN EndOf(l[k]) ELSE r[k - 1]
  BY ReachedIs
<1> HIDE DEF r
<1>2. f[0] \in P[0]
  <2>1. first \in first..Len(l) /\ first + 0 = first /\ 0 \in 0..n /\ first \in first..(first + 0)
    BY <1>0
  <2>2. f[0] = EndOf(l[first])
    BY <1>1, <2>1
  <2> QED BY <2>1, <2>2
<1>3. ASSUME NEW i \in 1..n, f[i - 1] \in P[i - 1] PROVE f[i] \in P[i]
  <2>1. /\ i \in 0..n /\ i - 1 \in 0..n /\ first + i \in first..Len(l) /\ first + i # first
        /\ (first + i) - 1 = first + (i - 1) /\ first + i \in first..(first + i)
        /\ first..(first + (i - 1)) \subseteq first..(first + i)
    BY <1>0
  <2>2. f[i] = r[first + i] /\ f[i - 1] = r[(first + i) - 1]
    BY <2>1
  <2>3. f[i] \in {EndOf(l[first + i]), f[i - 1]}
    BY <1>1, <2>1, <2>2
  <2>4. PICK j \in first..(first + (i - 1)) : f[i - 1] = EndOf(l[j])
    BY <1>3, <2>1
  <2>5. \E j2 \in first..(first + i) : f[i] = EndOf(l[j2])
    <3> HIDE DEF f, P
    <3> QED BY <2>1, <2>3, <2>4
  <2> QED BY <2>1, <2>5
<1>4. \A i \in 0..n : f[i] \in P[i]
  <2> HIDE DEF f, P, n
  <2> QED BY <1>0, <1>2, <1>3, LoopStays
<1>5. n \in 0..n /\ f[n] = r[Len(l)] /\ P[n] = {EndOf(l[j]) : j \in first..Len(l)}
  BY <1>0
<1>6. r[Len(l)] \in {EndOf(l[j]) : j \in first..Len(l)}
  BY <1>4, <1>5
<1> QED BY <1>6 DEF r

LEMMA BuffSizeType ==
  ASSUME NEW m \in Memory, NEW p \in Nat
  PROVE  /\ \/ GetBuffSize(m, p) = 0
            \/ \E j \in 1..Len(m.m_lstFull) : GetBuffSize(m, p) = EndOf(m.m_lstFull[j]) - p
         /\ p + GetBuffSize(m, p) \in Nat
<1> DEFINE l == m.m_lstFull
           first == FirstOf(Holders(m, p))
<1>0. /\ l \in Seq(AnyBlock) /\ Len(l) \in Nat /\ \A j \in 1..Len(l) : EndOf(l[j]) \in Nat
  BY MemoryTypes, BlockTypes
<1>1. CASE m.m_llFillPos = p \/ Holders(m, p) = {}
  BY <1>1, GetBuffSizeIs
<1>2. CASE ~(m.m_llFillPos = p \/ Holders(m, p) = {})
  <2>1. first \in 1..Len(l)
    BY <1>2, HoldersType
  <2>2. GetBuffSize(m, p) = Reached(l, first)[Len(l)] - p
    BY <1>2, GetBuffSizeIs
  <2> HIDE DEF l, first
  <2>3. PICK j \in first..Len(l) : Reached(l, first)[Len(l)] = EndOf(l[j])
    BY <1>0, <2>1, ReachedEnd
  <2>4. j \in 1..Len(l) /\ GetBuffSize(m, p) = EndOf(l[j]) - p /\ EndOf(l[j]) \in Nat
    BY <1>0, <2>1, <2>2, <2>3
  <2>5. p + GetBuffSize(m, p) = EndOf(l[j])
    BY <2>4
  <2> QED BY <2>4, <2>5 DEF l
<1> QED BY <1>1, <1>2
-----------------------------------------------------------------------------
(* The copy of a cache. *)

LEMMA CacheTypes ==
  ASSUME NEW c \in Cache
  PROVE  /\ c \in Seq(SizedBlock) /\ c \in Seq(AnyBlock) /\ Len(c) \in Nat
         /\ \A k \in 1..Len(c) :
              /\ c[k] \in AnyBlock /\ c[k].m_llPos \in Nat /\ c[k].data \in Seq(Nat)
              /\ Len(c[k].data) <= MEM_BUFF_SIZE /\ EndOf(c[k]) \in 0..FileSize
              /\ k > 1 => EndOf(c[k - 1]) <= c[k].m_llPos
<1>1. c \in Seq(AnyBlock) /\ Len(c) \in Nat /\ DOMAIN c = 1..Len(c)
  BY CacheAssumption, LenProperties DEF AnyBlock
<1>2. ASSUME NEW k \in 1..Len(c)
      PROVE  /\ c[k] \in AnyBlock /\ c[k].m_llPos \in Nat /\ c[k].data \in Seq(Nat)
             /\ Len(c[k].data) <= MEM_BUFF_SIZE /\ EndOf(c[k]) \in 0..FileSize
             /\ k > 1 => EndOf(c[k - 1]) <= c[k].m_llPos
             /\ c[k] \in SizedBlock
  <2>1. c[k] \in AnyBlock /\ c[k].m_llPos \in Nat /\ c[k].data \in Seq(Nat) /\ EndOf(c[k]) \in Nat
    BY <1>1, ElementOfSeq, BlockTypes
  <2>2. /\ Len(c[k].data) \in 1..MEM_BUFF_SIZE /\ EndOf(c[k]) <= FileSize
        /\ k > 1 => EndOf(c[k - 1]) <= c[k].m_llPos
    <3>1. k \in DOMAIN c
      BY <1>1
    <3>2. \A i \in DOMAIN c :
            /\ Len(c[i].data) \in 1..MEM_BUFF_SIZE
            /\ EndOf(c[i]) <= FileSize
            /\ i > 1 => EndOf(c[i - 1]) <= c[i].m_llPos
      BY CacheAssumption, Zenon
    <3> QED BY <3>1, <3>2
  <2>3. Len(c[k].data) <= MEM_BUFF_SIZE /\ FileSize \in Nat
    BY <2>2, MemAssumption, FileAssumption
  <2> QED BY <2>1, <2>2, <2>3 DEF SizedBlock
<1>3. c \in Seq(SizedBlock)
  <2>1. c \in [1..Len(c) -> SizedBlock]
    BY <1>1, <1>2, LenProperties
  <2> QED BY <1>1, <2>1, SeqDef
<1> QED BY <1>1, <1>2, <1>3

LEMMA HeadSizeType ==
  ASSUME NEW c \in Cache
  PROVE  HeadSize(c) \in 0..FileSize
<1> DEFINE gaps == {k \in 2..Len(c) : c[k].m_llPos # EndOf(c[k - 1])}
<1>1. CASE c = <<>>
  BY <1>1, FileAssumption DEF HeadSize
<1>2. CASE c # <<>> /\ gaps = {}
  <2>1. Len(c) \in 1..Len(c)
    BY <1>2, CacheTypes, EmptySeq
  <2> QED BY <1>2, <2>1, CacheTypes DEF HeadSize, Last
<1>3. CASE c # <<>> /\ gaps # {}
  <2>1. FirstOf(gaps) \in gaps
    <3>1. gaps \subseteq Nat
      OBVIOUS
    <3> HIDE DEF gaps
    <3> QED BY <1>3, <3>1, FirstOfNat
  <2>2. FirstOf(gaps) - 1 \in 1..Len(c)
    BY <2>1, CacheTypes
  <2>3. HeadSize(c) = EndOf(c[FirstOf(gaps) - 1])
    BY <1>3 DEF HeadSize
  <2> HIDE DEF gaps
  <2> QED BY <2>2, <2>3, CacheTypes
<1> QED BY <1>1, <1>2, <1>3

(* The memory after each block of the cache. *)
Copies(c) ==
  LET mem[k \in 0..Len(c)] ==
        IF k = 0 THEN EmptyMem ELSE FillBuff(mem[k - 1], c[k].m_llPos, c[k].data)
  IN  mem

SizedMemory == {m \in Memory : m.m_lstFull \in Seq(SizedBlock)}

LEMMA EmptyMemType == EmptyMem \in SizedMemory /\ EmptyMem.m_lstFull = <<>>
<1>1. <<>> \in Seq(AnyBlock) /\ <<>> \in Seq(SizedBlock)
  OBVIOUS
<1>2. EmptyMem \in Memory
  BY <1>1 DEF EmptyMem, Memory, AnyBlock
<1> QED BY <1>1, <1>2 DEF EmptyMem, SizedMemory

LEMMA CopiesIs ==
  ASSUME NEW c \in Cache
  PROVE  /\ Copies(c)[0] = EmptyMem
         /\ \A k \in 1..Len(c) : Copies(c)[k] = FillBuff(Copies(c)[k - 1], c[k].m_llPos, c[k].data)
<1> DEFINE n == Len(c)
           step == [k \in 1..n |-> [m \in SizedMemory |-> FillBuff(m, c[k].m_llPos, c[k].data)]]
<1>0. n \in Nat
  BY CacheTypes
<1>1. step \in [1..n -> [SizedMemory -> SizedMemory]]
  <2>1. ASSUME NEW k \in 1..n, NEW m \in SizedMemory
        PROVE  FillBuff(m, c[k].m_llPos, c[k].data) \in SizedMemory
    BY CacheTypes, FillBuffType DEF SizedMemory
  <2> QED BY <2>1
<1>2. \E f \in [0..n -> SizedMemory] : IsLoop(f, EmptyMem, n, step)
  <2> HIDE DEF step, n
  <2> QED BY <1>0, <1>1, EmptyMemType, LoopExists
<1>3. PICK f \in [0..n -> SizedMemory] : f[0] = EmptyMem /\ \A k \in 1..n : f[k] = step[k][f[k - 1]]
  <2> HIDE DEF step, n
  <2> QED BY <1>2 DEF IsLoop
<1>4. ASSUME NEW k \in 1..n PROVE f[k] = FillBuff(f[k - 1], c[k].m_llPos, c[k].data)
  <2>1. k - 1 \in 0..n
    BY <1>0
  <2>2. f[k - 1] \in SizedMemory
    BY <1>3, <2>1
  <2>3. step[k] = [m \in SizedMemory |-> FillBuff(m, c[k].m_llPos, c[k].data)]
    OBVIOUS
  <2>4. f[k] = step[k][f[k - 1]]
    BY <1>3
  <2> HIDE DEF step
  <2> QED BY <2>2, <2>3, <2>4
<1>5. f = [k \in 0..n |-> IF k = 0 THEN EmptyMem ELSE FillBuff(f[k - 1], c[k].m_llPos, c[k].data)]
  <2>1. ASSUME NEW k \in 0..n
        PROVE  f[k] = IF k = 0 THEN EmptyMem ELSE FillBuff(f[k - 1], c[k].m_llPos, c[k].data)
    <3>1. k = 0 \/ k \in 1..n
      BY <1>0
    <3>2. k \in 1..n => k # 0
      BY <1>0
    <3> HIDE DEF n, step
    <3> QED BY <1>3, <1>4, <3>1, <3>2
  <2> HIDE DEF step
  <2> QED BY <1>3, <2>1
<1> DEFINE r == Copies(c)
<1>6. r = [k \in 0..n |-> IF k = 0 THEN EmptyMem ELSE FillBuff(r[k - 1], c[k].m_llPos, c[k].data)]
  BY <1>5 DEF Copies
<1> HIDE DEF r
<1>7. r[0] = EmptyMem
  <2>1. 0 \in 0..n
    BY <1>0
  <2> QED BY <1>6, <2>1
<1>8. \A k \in 1..n : r[k] = FillBuff(r[k - 1], c[k].m_llPos, c[k].data)
  <2> TAKE k \in 1..n
  <2>1. k \in 0..n /\ k # 0
    BY <1>0
  <2> QED BY <1>6, <2>1
<1> QED BY <1>7, <1>8 DEF r

LEMMA EndsByMore ==
  ASSUME NEW d \in Nat, NEW e \in Nat, d <= e
  PROVE  EndsBy(d) \subseteq EndsBy(e) /\ EndsBy(e) \subseteq SizedBlock /\ SizedBlock \subseteq AnyBlock
<1>1. \A b \in SizedBlock : EndOf(b) \in Nat
  BY BlockTypes DEF SizedBlock
<1> QED BY <1>1 DEF EndsBy, SizedBlock

(* It holds nothing behind the end of the file. *)
LEMMA CopyMemType ==
  ASSUME NEW c \in Cache
  PROVE  /\ CopyMem(c) \in Memory /\ CopyMem(c).m_lstFull \in Seq(EndsBy(FileSize))
         /\ c = <<>> => CopyMem(c) = EmptyMem
<1> DEFINE n == Len(c)
           e(k) == IF k = 0 THEN 0 ELSE EndOf(c[k])
           P == [k \in 0..n |-> {m \in Memory : m.m_lstFull \in Seq(EndsBy(e(k)))}]
           f == Copies(c)
<1>0. n \in Nat /\ FileSize \in Nat /\ \A k \in 0..n : e(k) \in Nat /\ e(k) <= FileSize
  BY CacheTypes, FileAssumption
<1>1. f[0] \in P[0]
  <2>1. <<>> \in Seq(EndsBy(0)) /\ 0 \in 0..n
    BY <1>0
  <2> QED BY <2>1, CopiesIs, EmptyMemType DEF SizedMemory
<1>2. ASSUME NEW k \in 1..n, f[k - 1] \in P[k - 1] PROVE f[k] \in P[k]
  <2> DEFINE m == f[k - 1]
             p == c[k].m_llPos
             d == c[k].data
  <2>0. k - 1 \in 0..n /\ k \in 0..n /\ k # 0
    BY <1>0
  <2>1. m \in Memory /\ m.m_lstFull \in Seq(EndsBy(e(k - 1)))
    BY <1>2, <2>0
  <2>2. p \in Nat /\ d \in Seq(Nat) /\ Len(d) <= MEM_BUFF_SIZE /\ e(k) = p + Len(d)
    BY <2>0, CacheTypes DEF EndOf
  <2>3. e(k - 1) <= p /\ e(k - 1) \in Nat
    <3>1. CASE k = 1
      BY <2>2, <3>1
    <3>2. CASE k # 1
      BY <1>0, <2>0, <3>2, CacheTypes
    <3> QED BY <3>1, <3>2
  <2>4. f[k] = FillBuff(m, p, d)
    BY CopiesIs
  <2> HIDE DEF m, p, d, f, e
  <2>5. EndsBy(e(k - 1)) \subseteq EndsBy(p)
    BY <2>2, <2>3, EndsByMore
  <2>6. m.m_lstFull \in Seq(EndsBy(p))
    BY <2>1, <2>5, SeqMonotonic
  <2>7. FillBuff(m, p, d) \in Memory /\ FillBuff(m, p, d).m_lstFull \in Seq(EndsBy(e(k)))
    BY <2>1, <2>2, <2>6, FillBuffEnds
  <2> QED BY <2>0, <2>4, <2>7
<1>3. \A k \in 0..n : f[k] \in P[k]
  <2> HIDE DEF f, P, n
  <2> QED BY <1>0, <1>1, <1>2, LoopStays
<1>4. f[n] \in Memory /\ f[n].m_lstFull \in Seq(EndsBy(e(n))) /\ e(n) \in Nat /\ e(n) <= FileSize
  <2>1. n \in 0..n
    BY <1>0
  <2> HIDE DEF e, f
  <2> QED BY <1>0, <1>3, <2>1
<1>5. CopyMem(c) = f[n]
  BY DEF CopyMem, Copies
<1>6. f[n].m_lstFull \in Seq(EndsBy(FileSize))
  <2> HIDE DEF e, f, n
  <2> QED BY <1>0, <1>4, EndsByMore, SeqMonotonic
<1>7. c = <<>> => n = 0
  BY EmptySeq
<1> HIDE DEF n, e
<1> QED BY <1>4, <1>5, <1>6, <1>7, CopiesIs
(* The elements of a list of sequences, one behind the other. *)
Flat(seqs) ==
  LET flatten[i \in 1..Len(seqs)] ==
        IF i = 1 THEN seqs[i] ELSE flatten[i - 1] \o seqs[i]
  IN  flatten

LEMMA FlatIs ==
  ASSUME NEW S, NEW seqs \in Seq(Seq(S))
  PROVE  \A k \in 1..Len(seqs) :
           Flat(seqs)[k] = IF k = 1 THEN seqs[k] ELSE Flat(seqs)[k - 1] \o seqs[k]
<1> DEFINE n == Len(seqs)
           step == [k \in 1..n |-> [t \in Seq(S) |-> IF k = 1 THEN seqs[k] ELSE t \o seqs[k]]]
<1>0. n \in Nat /\ <<>> \in Seq(S) /\ \A k \in 1..n : seqs[k] \in Seq(S)
  BY LenProperties, ElementOfSeq
<1>1. step \in [1..n -> [Seq(S) -> Seq(S)]]
  <2>1. ASSUME NEW k \in 1..n, NEW t \in Seq(S)
        PROVE  (IF k = 1 THEN seqs[k] ELSE t \o seqs[k]) \in Seq(S)
    BY <1>0, ConcatProperties
  <2> QED BY <2>1
<1>2. \E f \in [0..n -> Seq(S)] : IsLoop(f, <<>>, n, step)
  <2> HIDE DEF step, n
  <2> QED BY <1>0, <1>1, LoopExists
<1>3. PICK f \in [0..n -> Seq(S)] : \A k \in 1..n : f[k] = step[k][f[k - 1]]
  <2> HIDE DEF step, n
  <2> QED BY <1>2 DEF IsLoop
<1>4. ASSUME NEW k \in 1..n PROVE f[k] = IF k = 1 THEN seqs[k] ELSE f[k - 1] \o seqs[k]
  <2>1. k - 1 \in 0..n
    BY <1>0
  <2>2. f[k - 1] \in Seq(S)
    BY <1>3, <2>1
  <2>3. step[k] = [t \in Seq(S) |-> IF k = 1 THEN seqs[k] ELSE t \o seqs[k]]
    OBVIOUS
  <2>4. f[k] = step[k][f[k - 1]]
    BY <1>3
  <2> HIDE DEF step
  <2> QED BY <2>2, <2>3, <2>4
<1> DEFINE g == [k \in 1..n |-> f[k]]
<1>5. g = [k \in 1..n |-> IF k = 1 THEN seqs[k] ELSE g[k - 1] \o seqs[k]]
  <2>1. ASSUME NEW k \in 1..n PROVE g[k] = IF k = 1 THEN seqs[k] ELSE g[k - 1] \o seqs[k]
    <3>1. CASE k = 1
      BY <1>4, <3>1
    <3>2. CASE k # 1
      <4>1. k - 1 \in 1..n
        BY <1>0, <3>2
      <4>2. g[k - 1] = f[k - 1] /\ g[k] = f[k]
        BY <4>1
      <4> HIDE DEF g
      <4> QED BY <1>4, <3>2, <4>2
    <3> QED BY <3>1, <3>2
  <2>2. g = [k \in 1..n |-> g[k]]
    OBVIOUS
  <2> HIDE DEF g, n
  <2> QED BY <2>1, <2>2
<1> DEFINE r == Flat(seqs)
<1>6. r = [k \in 1..n |-> IF k = 1 THEN seqs[k] ELSE r[k - 1] \o seqs[k]]
  <2> HIDE DEF g
  <2> QED BY <1>5 DEF Flat
<1> HIDE DEF r
<1> QED BY <1>6 DEF r

LEMMA FlattenType ==
  ASSUME NEW S, NEW seqs \in Seq(Seq(S))
  PROVE  FlattenSeq(seqs) \in Seq(S) /\ (seqs = <<>> => FlattenSeq(seqs) = <<>>)
<1> DEFINE n == Len(seqs)
           f == [k \in 0..n |-> IF k = 0 THEN <<>> ELSE Flat(seqs)[k]]
           P == [k \in 0..n |-> Seq(S)]
<1>0. n \in Nat /\ <<>> \in Seq(S) /\ \A k \in 1..n : seqs[k] \in Seq(S)
  BY LenProperties, ElementOfSeq
<1>1. CASE n = 0
  <2>1. seqs = <<>>
    BY <1>1, EmptySeq
  <2>2. FlattenSeq(seqs) = seqs
    BY <1>1 DEF FlattenSeq
  <2> QED BY <1>0, <2>1, <2>2
<1>2. CASE n # 0
  <2>1. f[0] \in P[0]
    BY <1>0
  <2>2. ASSUME NEW k \in 1..n, f[k - 1] \in P[k - 1] PROVE f[k] \in P[k]
    <3>1. k \in 0..n /\ k - 1 \in 0..n /\ k # 0
      BY <1>0
    <3>2. f[k] = IF k = 1 THEN seqs[k] ELSE Flat(seqs)[k - 1] \o seqs[k]
      BY <3>1, FlatIs
    <3>3. k # 1 => f[k - 1] = Flat(seqs)[k - 1]
      BY <3>1
    <3>4. f[k - 1] \in Seq(S) /\ P[k] = Seq(S)
      BY <2>2, <3>1
    <3> HIDE DEF f, P
    <3> QED BY <1>0, <3>2, <3>3, <3>4, ConcatProperties
  <2>3. \A k \in 0..n : f[k] \in P[k]
    <3> HIDE DEF f, P, n
    <3> QED BY <1>0, <2>1, <2>2, LoopStays
  <2>4. n \in 0..n /\ f[n] = Flat(seqs)[n]
    BY <1>0, <1>2
  <2>5. FlattenSeq(seqs) = Flat(seqs)[n]
    BY <1>2 DEF FlattenSeq, Flat
  <2>6. seqs # <<>>
    BY <1>2, EmptySeq
  <2> HIDE DEF f
  <2> QED BY <1>0, <2>3, <2>4, <2>5, <2>6
<1> QED BY <1>1, <1>2

(* The download goes on in the file. *)
LEMMA CopiedToType ==
  ASSUME NEW c \in Cache
  PROVE  CopiedTo(c) \in 0..FileSize
<1> DEFINE Part1(k) == IF k \notin MoovBlocks(c) THEN <<>>
                       ELSE IF k = FirstOf(MoovBlocks(c))
                       THEN [j \in 1..(EndOf(c[k]) - Moov.pos) |->
                               LET p == Moov.pos + j - 1
                               IN  IF Holds(c[k], p) THEN c[k].data[p - c[k].m_llPos + 1] ELSE Unset]
                       ELSE c[k].data
           seqs == [k \in DOMAIN c |-> Part1(k)]
<1>0. /\ FileSize \in Nat /\ Moov.pos \in Nat /\ Moov.size \in Nat
      /\ Moov.pos + Moov.size <= FileSize
  BY FileAssumption, CacheAssumption
<1>1. Len(c) \in Nat /\ DOMAIN c = 1..Len(c)
  BY CacheTypes, LenProperties
<1>2. \A k \in 1..Len(c) : Part1(k) \in Seq(Int)
  <2> TAKE k \in 1..Len(c)
  <2>1. /\ c[k].m_llPos \in Nat /\ c[k].data \in Seq(Nat) /\ EndOf(c[k]) \in Nat
        /\ DOMAIN c[k].data = 1..Len(c[k].data) /\ Len(c[k].data) \in Nat
    BY CacheTypes, LenProperties
  <2>2. <<>> \in Seq(Int) /\ c[k].data \in Seq(Int)
    BY <2>1, SeqMonotonic
  <2>3. CASE k \in MoovBlocks(c) /\ k = FirstOf(MoovBlocks(c))
    <3> DEFINE d == EndOf(c[k]) - Moov.pos
               v(j) == LET p == Moov.pos + j - 1
                       IN  IF Holds(c[k], p) THEN c[k].data[p - c[k].m_llPos + 1] ELSE Unset
    <3>1. EndOf(c[k]) > Moov.pos
      BY <2>3 DEF MoovBlocks
    <3>2. d \in Nat
      BY <1>0, <2>1, <3>1
    <3>3. ASSUME NEW j \in 1..d PROVE v(j) \in Int
      <4> DEFINE p == Moov.pos + j - 1
      <4>1. CASE Holds(c[k], p)
        <5>1. p - c[k].m_llPos + 1 \in 1..Len(c[k].data)
          <6>1. \A a, q, n \in Nat : a <= q /\ q < a + n => q - a + 1 \in 1..n
            OBVIOUS
          <6>2. p \in Nat
            BY <1>0, <3>2
          <6>3. c[k].m_llPos <= p /\ p < c[k].m_llPos + Len(c[k].data)
            BY <4>1 DEF Holds, EndOf
          <6> HIDE DEF p
          <6> QED BY <2>1, <6>1, <6>2, <6>3
        <5>2. c[k].data[p - c[k].m_llPos + 1] \in Nat
          BY <2>1, <5>1, ElementOfSeq
        <5> QED BY <4>1, <5>2
      <4>2. CASE ~Holds(c[k], p)
        BY <4>2 DEF Unset
      <4> QED BY <4>1, <4>2
    <3> HIDE DEF v, d
    <3>4. [j \in 1..d |-> v(j)] \in [1..d -> Int]
      BY <3>3
    <3>5. [j \in 1..d |-> v(j)] \in Seq(Int)
      BY <3>2, <3>4, SeqDef
    <3> QED BY <2>3, <3>5 DEF v, d
  <2> QED BY <2>2, <2>3
<1> HIDE DEF Part1
<1>3. seqs \in [1..Len(c) -> Seq(Int)]
  BY <1>1, <1>2
<1>4. seqs \in Seq(Seq(Int))
  <2> HIDE DEF seqs
  <2> QED BY <1>1, <1>3, SeqDef
<1>5. MoovData(c) = FlattenSeq(seqs)
  BY DEF MoovData, Part1
<1>6. Len(MoovData(c)) \in Nat
  <2> HIDE DEF seqs
  <2> QED BY <1>4, <1>5, FlattenType, LenProperties
<1>7. Moov.pos + Min2(Moov.size, Len(MoovData(c))) \in 0..FileSize
  BY <1>0, <1>6 DEF Min2
<1> QED BY <1>7, HeadSizeType DEF CopiedTo

(* Nothing is copied of an empty cache. *)
LEMMA NothingCopied ==
  ASSUME <<>> \in Cache
  PROVE  HeadBuff(<<>>) = <<>> /\ MoovBuff(<<>>) = <<>>
<1>1. HeadSize(<<>>) = 0 /\ ~HasMoov(<<>>)
  BY DEF HeadSize, HasMoov
<1>2. \A data : NewBuff(0, data) = <<>>
  BY DEF NewBuff
<1> QED BY <1>1, <1>2 DEF HeadBuff, MoovBuff

-----------------------------------------------------------------------------
(* Types, and who holds which mutex how often. *)

By(t, n) == [by |-> t, n |-> n]

MemReads == IF rd.pc = "seekConnect" THEN IF rd.op = "ReadAt" THEN 2 ELSE 1
            ELSE IF rd.op = "ReadAt" /\ rd.pc \in {"seekHttp", "seekMem"} THEN 1 ELSE 0

FuncInv == lock["func"] = IF rd.pc \in {"wait", "copy"} THEN By("reader", 1) ELSE Open
HttpInv ==
  /\ lock["http"] = IF rd.pc \in {"seekMem", "seekConnect"} THEN By("reader", 1)
                    ELSE IF dl.pc \in {"net", "fill", "again"} THEN By("download", 1) ELSE Open
  /\ rd.pc \in {"seekMem", "seekConnect"} => dl.pc \notin {"net", "fill", "again"}
MemInv ==
  /\ lock["mem"] = IF MemReads > 0 THEN By("reader", MemReads)
                   ELSE IF dl.pc \in {"againHttp", "again"} THEN By("download", 1) ELSE Open
  /\ MemReads > 0 => dl.pc \notin {"againHttp", "again"}
LockInv == FuncInv /\ HttpInv /\ MemInv

ReaderTypes ==
  /\ DOMAIN rd = {"pc", "op", "pos", "n", "flag", "rc", "out"}
  /\ rd.pc \in Pcs /\ rd.op \in {"none", "ReadAt", "Read", "SetPos"}
  /\ rd.pos \in 0..(FileSize - 1) /\ rd.n \in Nat
  /\ rd.pc \in {"ReadAt", "openURL", "rangeMem"} => rd.op = "ReadAt"
  /\ rd.pc = "SetPos" => rd.op = "SetPos"
  /\ rd.pc \in {"seekHttp", "seekMem", "seekConnect"} => rd.op \in {"ReadAt", "SetPos"}
  /\ rd.pc \in {"Read", "wait", "copy"} => rd.op \in {"ReadAt", "Read"}
  /\ rd.pc \in {"wait", "copy"} => m_llReadPos + rd.n <= FileSize

(* The data is what the connection gave. *)
DownloadTypes ==
  /\ dl.pc \in {"none", "top", "againHttp", "again", "net", "fill", "lost", "reset"}
  /\ dl.kind = "data" => \E p \in Nat, n \in 1..MEM_BUFF_SIZE : dl.data = Bytes(p, n)
  /\ dl.pc \in {"net", "fill"} => http.made

FlagTypes ==
  /\ m_sStatus \in {"init", "run", "stop"}
  /\ m_bConnected \in BOOLEAN /\ m_bReconnect \in BOOLEAN /\ m_bForceClose \in BOOLEAN
  /\ http.made \in BOOLEAN
  /\ eng.pc \in {"idle", "stop", "flag", "join", "wait", "close", "closed"}

PositionTypes ==
  /\ m_llReadPos \in 0..FileSize /\ m_llDownPos \in 0..FileSize /\ m_llHeadSize \in 0..FileSize
  /\ http.at \in -1..FileSize

(* Before there is a connection the memory is a part of the file. *)
MemoryTypeInv ==
  /\ m_pMemData \in SizedMemory
  /\ ~http.made => m_pMemData.m_lstFull \in Seq(EndsBy(FileSize))

TypeInv == /\ LockInv /\ ReaderTypes /\ DownloadTypes /\ FlagTypes /\ PositionTypes
           /\ MemoryTypeInv

LEMMA BytesType ==
  ASSUME NEW p \in Nat, NEW n \in Nat
  PROVE  /\ Bytes(p, n) \in Seq(Nat) /\ Len(Bytes(p, n)) = n
         /\ \A j \in 1..n : Bytes(p, n)[j] = p + j - 1
         /\ n = 0 => Bytes(p, n) = <<>>
<1>1. Bytes(p, n) \in [1..n -> Nat]
  BY DEF Bytes
<1>2. Bytes(p, n) \in Seq(Nat)
  BY <1>1, SeqDef
<1>3. Len(Bytes(p, n)) = n
  BY <1>1, <1>2, LenProperties
<1> QED BY <1>2, <1>3, EmptySeq DEF Bytes

LEMMA InitTypeInv ==
  ASSUME Init
  PROVE  TypeInv
<1>0. FileSize \in Nat \ {0}
  BY FileAssumption
<1>1. rd = NoCall /\ lock = [m \in Mutex |-> Open] /\ eng = [pc |-> "idle", close |-> FALSE]
      /\ m_bReconnect = FALSE /\ m_llReadPos = 0 /\ m_bForceClose = FALSE
  BY DEF Init
<1>2. dl.pc \in {"top", "none"} /\ dl.kind = "none"
  BY DEF Init, OpenFresh, OpenCached
<1>3. LockInv
  BY <1>1, <1>2 DEF NoCall, LockInv, FuncInv, HttpInv, MemInv, MemReads, Mutex
<1>4. ReaderTypes
  BY <1>0, <1>1 DEF NoCall, ReaderTypes, Pcs
<1>5. DownloadTypes
  BY <1>2 DEF DownloadTypes
<1>6. CASE OpenFresh
  <2>1. /\ m_sStatus = "run" /\ m_bConnected = TRUE /\ http.made = TRUE /\ http.at = 0
        /\ m_llDownPos = 0 /\ m_llHeadSize = 0
    BY <1>6 DEF OpenFresh
  <2>3. FlagTypes
    BY <1>1, <2>1 DEF FlagTypes
  <2>4. PositionTypes
    BY <1>0, <1>1, <2>1 DEF PositionTypes
  <2>2. MemoryTypeInv
    BY <1>6, EmptyMemType DEF OpenFresh, MemoryTypeInv
  <2> QED BY <1>3, <1>4, <1>5, <2>2, <2>3, <2>4 DEF TypeInv
<1>7. ASSUME NEW c \in Cache, OpenCached(c) PROVE TypeInv
  <2>1. HeadSize(c) \in 0..FileSize
    BY HeadSizeType
  <2>2. CopiedTo(c) \in 0..FileSize
    BY CopiedToType
  <2>3. FlagTypes
    BY <1>1, <1>7 DEF FlagTypes, OpenCached
  <2>4. PositionTypes
    BY <1>0, <1>1, <1>7, <2>1, <2>2 DEF PositionTypes, OpenCached
  <2>5. MemoryTypeInv
    <3>1. CopyMem(c) \in Memory /\ CopyMem(c).m_lstFull \in Seq(EndsBy(FileSize))
      BY CopyMemType
    <3>2. CopyMem(c).m_lstFull \in Seq(SizedBlock)
      BY <1>0, <3>1, EndsByMore, SeqMonotonic
    <3> QED BY <1>7, <3>1, <3>2 DEF OpenCached, MemoryTypeInv, SizedMemory
  <2> QED BY <1>3, <1>4, <1>5, <2>3, <2>4, <2>5 DEF TypeInv
<1> QED BY <1>6, <1>7 DEF Init

-----------------------------------------------------------------------------
(* The mutexes. *)

LEMMA FuncStep ==
  ASSUME IInv, ReaderTypes, FuncInv, Next
  PROVE  FuncInv'
<1> USE DEF FuncInv, By, Open, file, Go, Reply
<1>0. lock \in [Mutex -> [by : Thread, n : Int]] /\ "func" \in Mutex
      /\ DOMAIN rd = {"pc", "op", "pos", "n", "flag", "rc", "out"}
  BY DEF IInv, Shape, Mutex, ReaderTypes
<1>1. CASE Calls
  <2>1. lock' = lock /\ rd.pc = "idle" /\ rd'.pc \in {"ReadAt", "Read", "SetPos"}
    BY <1>1 DEF Calls, Call, NoCall
  <2> QED BY <2>1
<1>2. CASE ReadAt
  BY <1>0, <1>2 DEF ReadAt
<1>3. CASE OpenURL
  BY <1>0, <1>3 DEF OpenURL
<1>4. CASE ReadAtMem
  BY <1>0, <1>4 DEF ReadAtMem, Lock, Mutex
<1>5. CASE SetPosBegin
  BY <1>0, <1>5 DEF SetPosBegin
<1>6. CASE SetPosHttp
  BY <1>0, <1>6 DEF SetPosHttp, Lock, Mutex
<1>7. CASE SetPosMem
  <2>1. rd.pc = "seekMem" /\ rd'.pc \in {"seekConnect", "done", "Read"} /\ lock'["func"] = lock["func"]
    BY <1>0, <1>7 DEF SetPosMem, SetPosEnds, Lock, Unlock, Mutex
  <2> QED BY <2>1
<1>8. CASE SetPosConnect
  BY <1>0, <1>8 DEF SetPosConnect, SetPosEnds, UnlockAll, Mutex
<1>9. CASE Read
  <2>1. rd.pc = "Read" /\ lock["func"] = Open
    BY <1>9 DEF Read
  <2>2. CASE Reply("finish", <<>>) /\ UNCHANGED lock
    BY <1>0, <2>1, <2>2
  <2>3. CASE /\ Lock("func", "reader")
             /\ rd' = [rd EXCEPT !.n = Rest, !.pos = m_llReadPos,
                       !.pc = IF rd.op = "Read" \/ Enough(Rest) THEN "copy" ELSE "wait"]
    <3>1. rd'.pc \in {"copy", "wait"}
      BY <1>0, <2>3
    <3>2. lock'["func"] = [by |-> "reader", n |-> 0 + 1]
      BY <1>0, <2>1, <2>3 DEF Lock
    <3> QED BY <3>1, <3>2
  <2> QED BY <1>9, <2>2, <2>3 DEF Read
<1>10. CASE ReadGivesUp
  <2>1. rd.pc = "wait" /\ rd'.pc = "done" /\ Unlock({"func"})
    BY <1>0, <1>10 DEF ReadGivesUp
  <2> QED BY <1>0, <2>1 DEF Unlock
<1>11. CASE ReadGoesOn
  BY <1>0, <1>11 DEF ReadGoesOn
<1>12. CASE ReadCopy
  <2>1. rd.pc = "copy" /\ rd'.pc = "done" /\ Unlock({"func"})
    BY <1>0, <1>12 DEF ReadCopy
  <2> QED BY <1>0, <2>1 DEF Unlock
<1>13. CASE Return
  BY <1>0, <1>13 DEF Return, NoCall
<1>14. CASE Download
  <2>1. rd' = rd
    BY <1>14 DEF Download, BeginReconnect, ReconnectHttp, ReconnectEnds, BeginRead, NetData, NetNothing,
                 Fill, Lost, ResetMem
  <2>2. lock'["func"] = lock["func"]
    BY <1>0, <1>14 DEF Download, BeginReconnect, ReconnectHttp, ReconnectEnds, BeginRead, NetData,
                 NetNothing, Fill, Lost, ResetMem, Lock, Unlock, UnlockAll, Mutex
  <2> QED BY <2>1, <2>2
<1>15. CASE Closer
  BY <1>15 DEF Closer, CloserGoesOn, BeginStop, Interrupt, StopThread, Join, BeginClose, CloseAll
<1> QED BY <1>1, <1>2, <1>3, <1>4, <1>5, <1>6, <1>7, <1>8, <1>9, <1>10, <1>11, <1>12, <1>13,
           <1>14, <1>15 DEF Next, Reader
LEMMA HttpStep ==
  ASSUME IInv, ReaderTypes, HttpInv, Next
  PROVE  HttpInv'
<1> USE DEF HttpInv, By, Open, file, Go, Reply, Pass
<1>0. lock \in [Mutex -> [by : Thread, n : Int]] /\ "http" \in Mutex /\ DOMAIN dl = {"pc", "kind", "data"}
      /\ DOMAIN rd = {"pc", "op", "pos", "n", "flag", "rc", "out"}
  BY DEF IInv, Shape, Mutex, ReaderTypes
<1>a. ASSUME lock'["http"] = lock["http"],
             rd.pc \notin {"seekMem", "seekConnect"}, rd'.pc \notin {"seekMem", "seekConnect"},
             dl.pc \in {"net", "fill", "again"} <=> dl'.pc \in {"net", "fill", "again"}
      PROVE  HttpInv'
  BY <1>a
<1>1. CASE Calls
  <2>1. lock' = lock /\ rd.pc = "idle" /\ rd'.pc \in {"ReadAt", "Read", "SetPos"} /\ dl' = dl
    BY <1>1 DEF Calls, Call, NoCall
  <2> QED BY <2>1
<1>2. CASE ReadAt
  BY <1>0, <1>2 DEF ReadAt
<1>3. CASE OpenURL
  <2>1. /\ rd.pc = "openURL" /\ rd'.pc = "rangeMem" /\ lock' = lock
        /\ dl' = dl \/ (dl.pc = "none" /\ dl'.pc = "top")
    BY <1>0, <1>3 DEF OpenURL
  <2> QED BY <2>1
<1>4. CASE ReadAtMem
  BY <1>0, <1>4 DEF ReadAtMem, Lock, Mutex
<1>5. CASE SetPosBegin
  BY <1>0, <1>5 DEF SetPosBegin
<1>6. CASE SetPosHttp
  <2>1. /\ rd.pc = "seekHttp" /\ rd'.pc = "seekMem" /\ dl' = dl
        /\ lock["http"].by \in {"none", "reader"}
        /\ lock'["http"] = [by |-> "reader", n |-> lock["http"].n + 1]
    BY <1>0, <1>6 DEF SetPosHttp, Lock, Free
  <2> QED BY <2>1
<1>7. CASE SetPosMem
  <2>1. rd.pc = "seekMem" /\ dl' = dl /\ lock["http"] = By("reader", 1)
    BY <1>7 DEF SetPosMem
  <2>2. CASE Lock("mem", "reader") /\ rd'.pc = "seekConnect"
    BY <1>0, <2>1, <2>2 DEF Lock
  <2>3. CASE rd'.pc \in {"done", "Read"} /\ Unlock(IF rd.op = "SetPos" THEN {"http"} ELSE {"http", "mem"})
    <3>1. lock'["http"] = Open
      BY <1>0, <2>1, <2>3 DEF Unlock
    <3> QED BY <2>1, <2>3, <3>1
  <2> QED BY <1>0, <1>7, <2>2, <2>3 DEF SetPosMem, SetPosEnds
<1>8. CASE SetPosConnect
  <2>1. rd.pc = "seekConnect" /\ dl' = dl /\ rd'.pc \in {"done", "Read"} /\ lock'["http"] = Open
    BY <1>0, <1>8 DEF SetPosConnect, SetPosEnds, UnlockAll
  <2> QED BY <2>1
<1>9. CASE Read
  <2>1. rd.pc = "Read" /\ rd'.pc \in {"done", "copy", "wait"} /\ dl' = dl
    BY <1>0, <1>9 DEF Read
  <2>2. lock'["http"] = lock["http"]
    BY <1>0, <1>9 DEF Read, Lock, Mutex
  <2> QED BY <2>1, <2>2
<1>10. CASE ReadGivesUp
  <2>1. rd.pc = "wait" /\ rd'.pc = "done" /\ Unlock({"func"}) /\ dl' = dl
    BY <1>0, <1>10 DEF ReadGivesUp
  <2> QED BY <1>0, <2>1 DEF Unlock
<1>11. CASE ReadGoesOn
  BY <1>0, <1>11 DEF ReadGoesOn
<1>12. CASE ReadCopy
  <2>1. rd.pc = "copy" /\ rd'.pc = "done" /\ Unlock({"func"}) /\ dl' = dl
    BY <1>0, <1>12 DEF ReadCopy
  <2> QED BY <1>0, <2>1 DEF Unlock
<1>13. CASE Return
  BY <1>0, <1>13 DEF Return, NoCall
<1>14. CASE BeginReconnect \/ NetData \/ NetNothing \/ Lost \/ ResetMem
  <2>1. rd' = rd
    BY <1>14 DEF BeginReconnect, NetData, NetNothing, Lost, ResetMem
  <2>3. \/ dl.pc \in {"top", "lost", "reset"} /\ dl'.pc \in {"againHttp", "reset", "top"}
        \/ dl.pc = "net" /\ dl'.pc = "fill"
    <3>1. CASE BeginReconnect \/ Lost \/ ResetMem
      BY <1>0, <3>1 DEF BeginReconnect, Lost, ResetMem, Wanted
    <3>2. CASE NetData
      <4>1. dl.pc = "net" /\ \E n : dl' = [pc |-> "fill", kind |-> "data", data |-> Bytes(http.at, n)]
        BY <3>2, Zenon DEF NetData
      <4> QED BY <4>1
    <3>3. CASE NetNothing
      BY <1>0, <3>3 DEF NetNothing
    <3> QED BY <1>14, <3>1, <3>2, <3>3
  <2>2. lock'["http"] = lock["http"]
    BY <1>0, <1>14 DEF BeginReconnect, NetData, NetNothing, Lost, ResetMem, Lock, Mutex
  <2> QED BY <2>1, <2>2, <2>3
<1>15. CASE ReconnectHttp \/ BeginRead
  <2>1. rd' = rd /\ dl.pc \in {"againHttp", "top"} /\ dl'.pc \in {"again", "net"}
    BY <1>0, <1>15 DEF ReconnectHttp, BeginRead, Wanted
  <2>2. /\ lock["http"].by \in {"none", "download"}
        /\ lock'["http"] = [by |-> "download", n |-> lock["http"].n + 1]
    BY <1>0, <1>15 DEF ReconnectHttp, BeginRead, Lock, Free
  <2> QED BY <2>1, <2>2
<1>16. CASE ReconnectEnds \/ Fill
  <2>1. rd' = rd /\ dl.pc \in {"again", "fill"} /\ dl'.pc \in {"top", "lost"}
    BY <1>0, <1>16 DEF ReconnectEnds, Fill
  <2>2. UnlockAll({"http", "mem"}) \/ Unlock({"http"})
    BY <1>16 DEF ReconnectEnds, Fill
  <2>3. lock["http"] = By("download", 1)
    BY <2>1
  <2>4. lock'["http"] = Open
    BY <1>0, <2>2, <2>3 DEF UnlockAll, Unlock
  <2> QED BY <2>1, <2>4
<1>17. CASE Closer
  <2>1. lock' = lock /\ rd' = rd
    BY <1>17 DEF Closer, CloserGoesOn, BeginStop, Interrupt, StopThread, Join, BeginClose, CloseAll
  <2>2. dl' = dl \/ (dl.pc = "top" /\ dl'.pc = "none")
    BY <1>0, <1>17 DEF Closer, CloserGoesOn, BeginStop, Interrupt, StopThread, Join, BeginClose, CloseAll
  <2> QED BY <2>1, <2>2
<1> QED BY <1>1, <1>2, <1>3, <1>4, <1>5, <1>6, <1>7, <1>8, <1>9, <1>10, <1>11, <1>12, <1>13,
           <1>14, <1>15, <1>16, <1>17 DEF Next, Reader, Download

LEMMA MemStep ==
  ASSUME IInv, ReaderTypes, MemInv, Next
  PROVE  MemInv'
<1> USE DEF MemInv, MemReads, By, Open, file, Go, Reply, Pass
<1>0. lock \in [Mutex -> [by : Thread, n : Int]] /\ "mem" \in Mutex /\ DOMAIN dl = {"pc", "kind", "data"}
      /\ DOMAIN rd = {"pc", "op", "pos", "n", "flag", "rc", "out"}
  BY DEF IInv, Shape, Mutex, ReaderTypes
<1> DEFINE seeks == {"seekHttp", "seekMem", "seekConnect"}
<1>a. ASSUME lock'["mem"] = lock["mem"], rd.pc \notin seeks, rd'.pc \notin seeks,
             dl.pc \in {"againHttp", "again"} <=> dl'.pc \in {"againHttp", "again"}
      PROVE  MemInv'
  BY <1>a
<1>1. CASE Calls
  <2>1. lock' = lock /\ rd.pc = "idle" /\ rd'.pc \in {"ReadAt", "Read", "SetPos"} /\ dl' = dl
    BY <1>1 DEF Calls, Call, NoCall
  <2> QED BY <1>a, <2>1
<1>2. CASE ReadAt
  <2>1. lock' = lock /\ rd.pc = "ReadAt" /\ rd'.pc \in {"done", "rangeMem", "openURL"} /\ dl' = dl
    BY <1>0, <1>2 DEF ReadAt
  <2> QED BY <1>a, <2>1
<1>3. CASE OpenURL
  <2>1. /\ rd.pc = "openURL" /\ rd'.pc = "rangeMem" /\ lock' = lock
        /\ dl' = dl \/ (dl.pc = "none" /\ dl'.pc = "top")
    BY <1>0, <1>3 DEF OpenURL
  <2> QED BY <1>a, <2>1
<1>4. CASE ReadAtMem
  <2>1. rd.pc = "rangeMem" /\ rd.op = "ReadAt" /\ rd'.op = rd.op /\ dl' = dl
        /\ lock["mem"].by \in {"none", "reader"}
    BY <1>0, <1>4 DEF ReadAtMem, Free, ReaderTypes
  <2>2. CASE Lock("mem", "reader") /\ rd'.pc = "seekHttp"
    <3>1. lock'["mem"] = [by |-> "reader", n |-> lock["mem"].n + 1]
      BY <1>0, <2>2 DEF Lock
    <3> QED BY <2>1, <2>2, <3>1
  <2>3. CASE lock' = lock /\ rd'.pc = "Read"
    BY <1>a, <2>1, <2>3
  <2> QED BY <1>0, <1>4, <2>2, <2>3 DEF ReadAtMem
<1>5. CASE SetPosBegin
  <2>1. /\ rd.pc = "SetPos" /\ rd.op = "SetPos" /\ rd'.pc = "seekHttp" /\ rd'.op = rd.op
        /\ lock' = lock /\ dl' = dl
    BY <1>0, <1>5 DEF SetPosBegin, ReaderTypes
  <2> QED BY <2>1
<1>6. CASE SetPosHttp
  <2>1. rd.pc = "seekHttp" /\ rd'.pc = "seekMem" /\ rd'.op = rd.op /\ dl' = dl /\ lock'["mem"] = lock["mem"]
    BY <1>0, <1>6 DEF SetPosHttp, Lock, Mutex
  <2> QED BY <2>1
<1>7. CASE SetPosMem
  <2>1. rd.pc = "seekMem" /\ dl' = dl /\ lock["mem"].by \in {"none", "reader"}
    BY <1>7 DEF SetPosMem, Free
  <2>2. rd'.op = rd.op /\ rd.op \in {"ReadAt", "SetPos"}
    BY <1>0, <1>7 DEF SetPosMem, SetPosEnds, ReaderTypes
  <2>3. CASE Lock("mem", "reader") /\ rd'.pc = "seekConnect"
    <3>1. lock'["mem"] = [by |-> "reader", n |-> lock["mem"].n + 1]
      BY <1>0, <2>3 DEF Lock
    <3> QED BY <2>1, <2>2, <2>3, <3>1
  <2>4. CASE rd'.pc \in {"done", "Read"} /\ Unlock(IF rd.op = "SetPos" THEN {"http"} ELSE {"http", "mem"})
    <3>1. CASE rd.op = "SetPos"
      <4>1. lock'["mem"] = lock["mem"]
        BY <1>0, <2>4, <3>1 DEF Unlock
      <4> QED BY <2>1, <2>4, <3>1, <4>1
    <3>2. CASE rd.op = "ReadAt"
      <4>1. lock["mem"] = By("reader", 1) /\ dl.pc \notin {"againHttp", "again"}
        BY <2>1, <3>2
      <4>2. lock'["mem"] = Open
        BY <1>0, <2>4, <3>2, <4>1 DEF Unlock
      <4> QED BY <2>1, <2>4, <4>1, <4>2
    <3> QED BY <2>2, <3>1, <3>2
  <2> QED BY <1>0, <1>7, <2>3, <2>4 DEF SetPosMem, SetPosEnds
<1>8. CASE SetPosConnect
  <2>1. rd.pc = "seekConnect" /\ dl' = dl /\ rd'.pc \in {"done", "Read"} /\ lock'["mem"] = Open
    BY <1>0, <1>8 DEF SetPosConnect, SetPosEnds, UnlockAll
  <2> QED BY <2>1
<1>9. CASE Read
  <2>1. rd.pc = "Read" /\ rd'.pc \in {"done", "copy", "wait"} /\ dl' = dl
    BY <1>0, <1>9 DEF Read
  <2>2. lock'["mem"] = lock["mem"]
    BY <1>0, <1>9 DEF Read, Lock, Mutex
  <2> QED BY <1>a, <2>1, <2>2
<1>10. CASE ReadGivesUp
  <2>1. rd.pc = "wait" /\ rd'.pc = "done" /\ Unlock({"func"}) /\ dl' = dl
    BY <1>0, <1>10 DEF ReadGivesUp
  <2> QED BY <1>0, <1>a, <2>1 DEF Unlock
<1>11. CASE ReadGoesOn
  <2>1. lock' = lock /\ rd.pc = "wait" /\ rd'.pc = "copy" /\ dl' = dl
    BY <1>0, <1>11 DEF ReadGoesOn
  <2> QED BY <1>a, <2>1
<1>12. CASE ReadCopy
  <2>1. rd.pc = "copy" /\ rd'.pc = "done" /\ Unlock({"func"}) /\ dl' = dl
    BY <1>0, <1>12 DEF ReadCopy
  <2> QED BY <1>0, <1>a, <2>1 DEF Unlock
<1>13. CASE Return
  <2>1. lock' = lock /\ rd.pc = "done" /\ rd'.pc = "idle" /\ dl' = dl
    BY <1>13 DEF Return, NoCall
  <2> QED BY <1>a, <2>1
<1>14. CASE ReconnectHttp \/ BeginRead \/ NetData \/ NetNothing \/ Fill \/ Lost \/ ResetMem
  <2>1. rd' = rd
    BY <1>14 DEF ReconnectHttp, BeginRead, NetData, NetNothing, Fill, Lost, ResetMem
  <2>3. \/ dl.pc = "againHttp" /\ dl'.pc = "again"
        \/ dl.pc \notin {"againHttp", "again"} /\ dl'.pc \notin {"againHttp", "again"}
    <3>1. CASE ReconnectHttp
      BY <1>0, <3>1 DEF ReconnectHttp
    <3>4. CASE BeginRead
      BY <1>0, <3>4 DEF BeginRead, Wanted
    <3>6. CASE Lost \/ ResetMem
      BY <1>0, <3>6 DEF Lost, ResetMem
    <3>5. CASE Fill
      <4>1. dl.pc = "fill" /\ dl'.pc \in {"top", "lost"}
        BY <1>0, <3>5 DEF Fill
      <4> QED BY <4>1
    <3>2. CASE NetData
      <4>1. dl.pc = "net" /\ \E n : dl' = [pc |-> "fill", kind |-> "data", data |-> Bytes(http.at, n)]
        BY <3>2, Zenon DEF NetData
      <4> QED BY <4>1
    <3>3. CASE NetNothing
      BY <1>0, <3>3 DEF NetNothing
    <3> QED BY <1>14, <3>1, <3>2, <3>3, <3>4, <3>5, <3>6
  <2>2. lock'["mem"] = lock["mem"]
    BY <1>0, <1>14 DEF ReconnectHttp, BeginRead, NetData, NetNothing, Fill, Lost, ResetMem, Lock, Unlock, Mutex
  <2> QED BY <2>1, <2>2, <2>3
<1>15. CASE BeginReconnect
  <2>1. rd' = rd /\ dl.pc = "top" /\ dl'.pc = "againHttp"
    BY <1>0, <1>15 DEF BeginReconnect, Wanted
  <2>2. /\ lock["mem"].by \in {"none", "download"}
        /\ lock'["mem"] = [by |-> "download", n |-> lock["mem"].n + 1]
    BY <1>0, <1>15 DEF BeginReconnect, Lock, Free
  <2> QED BY <2>1, <2>2
<1>16. CASE ReconnectEnds
  <2>1. rd' = rd /\ dl.pc = "again" /\ dl'.pc = "top" /\ lock'["mem"] = Open
    BY <1>0, <1>16 DEF ReconnectEnds, UnlockAll
  <2> QED BY <2>1
<1>17. CASE Closer
  <2>1. lock' = lock /\ rd' = rd
    BY <1>17 DEF Closer, CloserGoesOn, BeginStop, Interrupt, StopThread, Join, BeginClose, CloseAll
  <2>2. dl' = dl \/ (dl.pc = "top" /\ dl'.pc = "none")
    BY <1>0, <1>17 DEF Closer, CloserGoesOn, BeginStop, Interrupt, StopThread, Join, BeginClose, CloseAll
  <2> QED BY <2>1, <2>2
<1> QED BY <1>1, <1>2, <1>3, <1>4, <1>5, <1>6, <1>7, <1>8, <1>9, <1>10, <1>11, <1>12, <1>13,
           <1>14, <1>15, <1>16, <1>17 DEF Next, Reader, Download
-----------------------------------------------------------------------------
(* What a read gives. *)

LEMMA ListLength ==
  ASSUME NEW c \in Int, NEW S, NEW f \in [1..c -> S]
  PROVE  Len(f) = IF c >= 0 THEN c ELSE 0
<1> DEFINE n == IF c >= 0 THEN c ELSE 0
<1>1. n \in Nat /\ 1..c = 1..n
  OBVIOUS
<1> HIDE DEF n
<1>2. f \in Seq(S)
  BY <1>1, SeqDef
<1>3. 1..Len(f) = 1..n /\ Len(f) \in Nat
  BY <1>1, <1>2, LenProperties
<1>4. Len(f) = n
  BY <1>1, <1>3
<1> QED BY <1>4 DEF n

LEMMA CopiedLength ==
  ASSUME NEW m \in Memory, NEW p \in Nat, NEW n \in Nat
  PROVE  Len(Copied(m, p, n)) \in 0..n
<1> DEFINE l     == m.m_lstFull
           first == FirstOf(Holders(m, p))
           run   == {k \in first..Len(l) : \A j \in (first + 1)..k : l[j].m_llPos = EndOf(l[j - 1])}
           e     == EndOf(l[first + Cardinality(run) - 1])
           c     == Min2(n, e - p)
           Byte(q) == LET b == l[FirstOf({k \in run : Holds(l[k], q)})] IN b.data[q - b.m_llPos + 1]
           f     == [j \in 1..c |-> Byte(p + j - 1)]
<1>1. CASE Holders(m, p) = {}
  <2>1. Copied(m, p, n) = <<>>
    BY <1>1 DEF Copied
  <2> QED BY <2>1
<1>2. CASE Holders(m, p) # {}
  <2>1. first \in 1..Len(l) /\ Len(l) \in Nat /\ \A k \in 1..Len(l) : l[k] \in AnyBlock
    BY <1>2, HoldersType, MemoryTypes
  <2>2. run \subseteq first..Len(l) /\ first \in run
    BY <2>1
  <2> HIDE DEF l, first, run
  <2>3. IsFiniteSet(first..Len(l)) /\ Cardinality(first..Len(l)) = Len(l) - first + 1
    BY <2>1, FS_Interval
  <2>4. IsFiniteSet(run) /\ Cardinality(run) <= Len(l) - first + 1
    BY <2>2, <2>3, FS_Subset
  <2>5. Cardinality(run) \in Nat /\ Cardinality(run) # 0
    BY <2>2, <2>4, FS_CardinalityType, FS_EmptySet
  <2>6. first + Cardinality(run) - 1 \in 1..Len(l)
    BY <2>1, <2>4, <2>5
  <2>7. e \in Nat
    BY <2>1, <2>6, BlockTypes
  <2>8. c \in Int /\ c <= n
    <3> HIDE DEF e
    <3> QED BY <2>7 DEF Min2
  <2>9. Copied(m, p, n) = f
    BY <1>2, Zenon DEF Copied, l, first, run
  <2> HIDE DEF c, Byte
  <2>10. f \in [1..c -> {Byte(p + j - 1) : j \in 1..c}]
    OBVIOUS
  <2> HIDE DEF f
  <2>11. Len(Copied(m, p, n)) = IF c >= 0 THEN c ELSE 0
    BY <2>8, <2>9, <2>10, ListLength
  <2> QED BY <2>8, <2>11
<1> QED BY <1>1, <1>2

LEMMA ReadBuffLength ==
  ASSUME NEW m \in Memory, NEW p \in Nat, NEW n \in Nat, NEW full
  PROVE  Len(ReadBuff(m, p, n, full)) \in 0..n
<1>1. Len(Copied(m, p, n)) \in 0..n /\ Len(<<>>) = 0
  BY CopiedLength
<1>2. ReadBuff(m, p, n, full) = <<>> \/ ReadBuff(m, p, n, full) = Copied(m, p, n)
  BY DEF ReadBuff
<1> QED BY <1>1, <1>2

-----------------------------------------------------------------------------
(* The types of the reader's call. *)

LEMMA ReaderTypesKept ==
  ASSUME ReaderTypes, DOMAIN rd' = DOMAIN rd, rd'.pc \in Pcs,
         rd'.op = rd.op, rd'.pos = rd.pos, rd'.n = rd.n,
         rd'.pc \in {"ReadAt", "openURL", "rangeMem"} => rd.op = "ReadAt",
         rd'.pc = "SetPos" => rd.op = "SetPos",
         rd'.pc \in {"seekHttp", "seekMem", "seekConnect"} => rd.op \in {"ReadAt", "SetPos"},
         rd'.pc \in {"Read", "wait", "copy"} => rd.op \in {"ReadAt", "Read"},
         rd'.pc \in {"wait", "copy"} => m_llReadPos' + rd.n <= FileSize
  PROVE  ReaderTypes'
  BY DEF ReaderTypes

LEMMA ReaderTypesCalls ==
  ASSUME ReaderTypes, Calls
  PROVE  ReaderTypes'
<1>0. FileSize \in Nat \ {0} /\ ReadPos \subseteq 0..(FileSize - 1) /\ Size \subseteq Nat
  BY FileAssumption, SizeAssumption
<1>1. ASSUME NEW p, NEW n, NEW f, NEW op, Call(op, p, n, f)
      PROVE  rd' = [pc |-> op, op |-> op, pos |-> p, n |-> n, flag |-> f, rc |-> "none", out |-> <<>>]
  BY <1>1 DEF Call, NoCall
<1>2. CASE \E p \in ReadPos, n \in Size, f \in Flag : Call("ReadAt", p, n, f)
  BY <1>0, <1>1, <1>2 DEF ReaderTypes, Pcs
<1>3. CASE \E n \in Size, f \in Flag : Call("Read", 0, n, f)
  BY <1>0, <1>1, <1>3 DEF ReaderTypes, Pcs
<1>4. CASE \E p \in ReadPos : Call("SetPos", p, 0, "data")
  BY <1>0, <1>1, <1>4 DEF ReaderTypes, Pcs
<1> QED BY <1>2, <1>3, <1>4, Zenon DEF Calls

LEMMA ReaderTypesStep ==
  ASSUME ReaderTypes, PositionTypes, Next
  PROVE  ReaderTypes'
<1> USE DEF Go, Reply, file
<1>0. /\ DOMAIN rd = {"pc", "op", "pos", "n", "flag", "rc", "out"}
      /\ rd.pos \in 0..(FileSize - 1) /\ rd.n \in Nat
      /\ m_llReadPos \in 0..FileSize
  BY DEF ReaderTypes, PositionTypes
<1>1. FileSize \in Nat \ {0}
  BY FileAssumption
<1> DEFINE Stays(from, to) ==
             /\ rd.pc \in from /\ rd'.pc \in to
             /\ DOMAIN rd' = DOMAIN rd /\ rd'.op = rd.op /\ rd'.pos = rd.pos /\ rd'.n = rd.n
<1>2. CASE Calls
  BY <1>2, ReaderTypesCalls
<1>3. CASE ReadAt
  <2>1. Stays({"ReadAt"}, {"done", "rangeMem", "openURL"})
    BY <1>0, <1>3 DEF ReadAt
  <2> QED BY <1>0, <2>1, ReaderTypesKept DEF ReaderTypes, Pcs
<1>4. CASE OpenURL
  <2>1. Stays({"openURL"}, {"rangeMem"})
    BY <1>0, <1>4 DEF OpenURL
  <2> QED BY <1>0, <2>1, ReaderTypesKept DEF ReaderTypes, Pcs
<1>5. CASE ReadAtMem
  <2>1. Stays({"rangeMem"}, {"seekHttp", "Read"})
    BY <1>0, <1>5 DEF ReadAtMem
  <2> QED BY <1>0, <2>1, ReaderTypesKept DEF ReaderTypes, Pcs
<1>6. CASE SetPosBegin
  <2>1. Stays({"SetPos"}, {"seekHttp"})
    BY <1>0, <1>6 DEF SetPosBegin
  <2> QED BY <1>0, <2>1, ReaderTypesKept DEF ReaderTypes, Pcs
<1>7. CASE SetPosHttp
  <2>1. Stays({"seekHttp"}, {"seekMem"})
    BY <1>0, <1>7 DEF SetPosHttp
  <2> QED BY <1>0, <2>1, ReaderTypesKept DEF ReaderTypes, Pcs
<1>8. CASE SetPosMem \/ SetPosConnect
  <2>1. Stays({"seekMem", "seekConnect"}, {"done", "seekConnect"}) \/
        (Stays({"seekMem", "seekConnect"}, {"Read"}) /\ rd.op # "SetPos")
    <3>1. CASE SetPosEnds
      BY <1>0, <1>8, <3>1 DEF SetPosEnds, SetPosMem, SetPosConnect
    <3>2. CASE rd.pc = "seekMem" /\ Go("seekConnect")
      BY <1>0, <3>2
    <3> QED BY <1>8, <3>1, <3>2 DEF SetPosMem, SetPosConnect
  <2> QED BY <1>0, <2>1, ReaderTypesKept DEF ReaderTypes, Pcs
<1>9. CASE Read
  <2>1. CASE Reply("finish", <<>>)
    <3>1. Stays({"Read"}, {"done"})
      BY <1>0, <1>9, <2>1 DEF Read
    <3> QED BY <1>0, <3>1, ReaderTypesKept DEF ReaderTypes, Pcs
  <2>2. CASE /\ m_llReadPos < FileSize
             /\ rd' = [rd EXCEPT !.n = Rest, !.pos = m_llReadPos,
                       !.pc = IF rd.op = "Read" \/ Enough(Rest) THEN "copy" ELSE "wait"]
    <3>1. Rest \in Nat /\ m_llReadPos + Rest <= FileSize
      BY <1>0, <1>1, <2>2 DEF Rest, Min2
    <3>2. /\ rd'.pc \in {"wait", "copy"} /\ rd'.op = rd.op /\ rd'.n = Rest /\ rd'.pos = m_llReadPos
          /\ DOMAIN rd' = DOMAIN rd
      BY <1>0, <2>2
    <3>3. rd.pc = "Read" /\ m_llReadPos' = m_llReadPos
      BY <1>9 DEF Read
    <3> QED BY <1>0, <1>1, <2>2, <3>1, <3>2, <3>3 DEF ReaderTypes, Pcs
  <2>3. m_llReadPos < FileSize \/ m_llReadPos >= FileSize
    BY <1>0, <1>1
  <2> QED BY <1>9, <2>1, <2>2, <2>3 DEF Read
<1>10. CASE ReadGivesUp
  <2>1. Stays({"wait"}, {"done"})
    BY <1>0, <1>10 DEF ReadGivesUp
  <2> QED BY <1>0, <2>1, ReaderTypesKept DEF ReaderTypes, Pcs
<1>11. CASE ReadGoesOn
  <2>1. Stays({"wait"}, {"copy"}) /\ m_llReadPos' = m_llReadPos
    BY <1>0, <1>11 DEF ReadGoesOn
  <2> QED BY <1>0, <2>1, ReaderTypesKept DEF ReaderTypes, Pcs
<1>12. CASE ReadCopy
  <2>1. Stays({"copy"}, {"done"})
    BY <1>0, <1>12 DEF ReadCopy
  <2> QED BY <1>0, <2>1, ReaderTypesKept DEF ReaderTypes, Pcs
<1>13. CASE Return
  BY <1>1, <1>13 DEF Return, NoCall, ReaderTypes, Pcs
<1>14. CASE Download \/ Closer
  <2>1. rd' = rd /\ m_llReadPos' = m_llReadPos
    BY <1>14 DEF Download, BeginReconnect, ReconnectHttp, ReconnectEnds, BeginRead, NetData, NetNothing,
                 Fill, Lost, ResetMem, Closer, CloserGoesOn, BeginStop, Interrupt, StopThread, Join,
                 BeginClose, CloseAll
  <2> QED BY <2>1 DEF ReaderTypes
<1> QED BY <1>2, <1>3, <1>4, <1>5, <1>6, <1>7, <1>8, <1>9, <1>10, <1>11, <1>12, <1>13, <1>14
        DEF Next, Reader

-----------------------------------------------------------------------------
(* The types of the download thread and of the flags. *)

LEMMA HttpMade ==
  ASSUME Shape, Next
  PROVE  \/ http' = http
         \/ http'.made = http.made \/ http'.made = TRUE
         \/ CloseAll /\ http'.made = FALSE
<1> USE DEF Shape
<1>1. CASE Calls
  BY <1>1 DEF Calls, Call, file
<1>2. CASE Reader
  <2>1. CASE ReadAt
    BY <2>1 DEF ReadAt
  <2>2. CASE OpenURL \/ SetPosConnect
    BY <2>2 DEF OpenURL, SetPosConnect, Connects
  <2>3. CASE SetPosMem
    BY <2>3 DEF SetPosMem
  <2>4. CASE ReadAtMem \/ SetPosBegin \/ SetPosHttp \/ Read \/ ReadGivesUp \/ ReadGoesOn \/ ReadCopy \/ Return
    BY <2>4 DEF ReadAtMem, SetPosBegin, SetPosHttp, Read, ReadGivesUp, ReadGoesOn, ReadCopy, Return, file
  <2> QED BY <1>2, <2>1, <2>2, <2>3, <2>4 DEF Reader
<1>3. CASE Download
  <2>1. CASE ReconnectHttp
    BY <2>1 DEF ReconnectHttp
  <2>2. CASE ReconnectEnds
    BY <2>2 DEF ReconnectEnds, Connects
  <2>3. CASE NetData
    BY <2>3 DEF NetData
  <2>4. CASE NetNothing
    BY <2>4 DEF NetNothing
  <2>5. CASE BeginReconnect \/ BeginRead \/ Fill \/ Lost \/ ResetMem
    BY <2>5 DEF BeginReconnect, BeginRead, Fill, Lost, ResetMem, file
  <2> QED BY <1>3, <2>1, <2>2, <2>3, <2>4, <2>5 DEF Download
<1>4. CASE Closer
  <2>1. CASE CloseAll
    BY <2>1 DEF CloseAll
  <2>2. CASE BeginStop \/ Interrupt \/ StopThread \/ Join \/ BeginClose
    BY <2>2 DEF BeginStop, Interrupt, StopThread, Join, BeginClose, file
  <2> QED BY <1>4, <2>1, <2>2 DEF Closer, CloserGoesOn
<1> QED BY <1>1, <1>2, <1>3, <1>4 DEF Next

LEMMA DownloadTypesStep ==
  ASSUME IInv, HttpInv, DownloadTypes, FlagTypes, Next
  PROVE  DownloadTypes'
<1>0. Shape /\ (dl.kind = "data" => dl.pc = "fill")
  BY DEF IInv, DataIsFilled
<1>a. DOMAIN dl = {"pc", "kind", "data"} /\ DOMAIN http = {"made", "at"}
  BY <1>0 DEF Shape
<1>1. ASSUME dl.pc \in {"net", "fill"}, http.made PROVE http'.made
  <2>1. ~CloseAll
    BY <1>1 DEF HttpInv, CloseAll, Free, Mutex, By
  <2> QED BY <1>0, <1>1, <2>1, HttpMade
<1>2. ASSUME dl' = dl PROVE DownloadTypes'
  BY <1>1, <1>2 DEF DownloadTypes
<1>3. ASSUME dl'.pc \in {"none", "top", "againHttp", "again", "lost", "reset"}, dl'.kind # "data"
      PROVE  DownloadTypes'
  BY <1>3 DEF DownloadTypes
<1>4. CASE Calls
  BY <1>2, <1>4 DEF Calls, Call
<1>5. CASE Reader
  <2>1. CASE OpenURL
    <3>1. dl' = dl \/ (dl.pc = "none" /\ dl' = [dl EXCEPT !.pc = "top"])
      BY <2>1 DEF OpenURL
    <3> QED BY <1>0, <1>a, <1>2, <1>3, <3>1
  <2>2. CASE ReadAt \/ ReadAtMem \/ SetPosBegin \/ SetPosHttp \/ SetPosMem \/ SetPosConnect \/ Read
             \/ ReadGivesUp \/ ReadGoesOn \/ ReadCopy \/ Return
    BY <1>2, <2>2 DEF ReadAt, ReadAtMem, SetPosBegin, SetPosHttp, SetPosMem, SetPosConnect, Read,
                      ReadGivesUp, ReadGoesOn, ReadCopy, Return
  <2> QED BY <1>5, <2>1, <2>2 DEF Reader
<1>6. CASE Download
  <2>1. CASE \E pc \in {"top", "againHttp", "again", "lost", "reset"} : Pass(pc)
    BY <1>a, <1>3, <2>1 DEF Pass
  <2>2. CASE BeginRead
    <3>1. dl'.pc = "net" /\ dl'.kind = "none" /\ http' = http /\ http.made
      BY <1>a, <2>2 DEF BeginRead, Pass, Wanted, file
    <3> QED BY <3>1 DEF DownloadTypes
  <2>3. CASE NetData
    <3>1. PICK n \in 1..Min2(MEM_BUFF_SIZE, FileSize - http.at) :
                 /\ dl' = [pc |-> "fill", kind |-> "data", data |-> Bytes(http.at, n)]
                 /\ http' = [http EXCEPT !.at = @ + n]
      BY <2>3, Zenon DEF NetData
    <3>2. http.at \in Nat /\ dl.pc = "net" /\ http.at < FileSize /\ FileSize \in Nat /\ MEM_BUFF_SIZE \in Nat
      BY <2>3, FileAssumption, MemAssumption DEF NetData
    <3>3. n \in 1..MEM_BUFF_SIZE
      BY <3>2 DEF Min2
    <3>4. http.made
      BY <3>2 DEF DownloadTypes
    <3>5. http'.made
      BY <1>1, <3>2, <3>4
    <3>6. dl'.pc = "fill" /\ dl'.data = Bytes(http.at, n)
      BY <3>1
    <3> QED BY <3>2, <3>3, <3>5, <3>6 DEF DownloadTypes
  <2>4. CASE NetNothing
    <3>1. dl.pc = "net" /\ dl'.pc = "fill" /\ (dl'.kind = dl.kind \/ dl'.kind = "lost") /\ dl.kind # "data"
      BY <1>0, <1>a, <2>4 DEF NetNothing
    <3>2. http.made
      BY <3>1 DEF DownloadTypes
    <3>3. http'.made
      BY <1>1, <3>1, <3>2
    <3> QED BY <3>1, <3>3 DEF DownloadTypes
  <2> QED BY <1>6, <2>1, <2>2, <2>3, <2>4
          DEF Download, BeginReconnect, ReconnectHttp, ReconnectEnds, Fill, Lost, ResetMem
<1>7. CASE Closer
  <2>1. CASE Join
    BY <1>a, <1>3, <2>1 DEF Join, Pass
  <2>2. CASE BeginStop \/ Interrupt \/ StopThread \/ BeginClose \/ CloseAll
    BY <1>2, <2>2 DEF BeginStop, Interrupt, StopThread, BeginClose, CloseAll
  <2> QED BY <1>7, <2>1, <2>2 DEF Closer, CloserGoesOn
<1> QED BY <1>4, <1>5, <1>6, <1>7 DEF Next

LEMMA FlagTypesStep ==
  ASSUME Shape, FlagTypes, Next
  PROVE  FlagTypes'
<1>1. m_sStatus' = m_sStatus \/ m_sStatus' \in {"run", "stop"}
  BY DEF Next, Calls, Call, Reader, ReadAt, OpenURL, ReadAtMem, SetPosBegin, SetPosHttp, SetPosMem,
         SetPosConnect, Read, ReadGivesUp, ReadGoesOn, ReadCopy, Return, Download, BeginReconnect,
         ReconnectHttp, ReconnectEnds, BeginRead, NetData, NetNothing, Fill, Lost, ResetMem, Closer,
         CloserGoesOn, BeginStop, Interrupt, StopThread, Join, BeginClose, CloseAll
<1>2. m_bReconnect' = m_bReconnect \/ m_bReconnect' = TRUE \/ m_bReconnect' = FALSE
  BY DEF Next, Calls, Call, Reader, ReadAt, OpenURL, ReadAtMem, SetPosBegin, SetPosHttp, SetPosMem,
         SetPosConnect, SetPosEnds, Read, ReadGivesUp, ReadGoesOn, ReadCopy, Return, Download,
         BeginReconnect, ReconnectHttp, ReconnectEnds, BeginRead, NetData, NetNothing, Fill, Lost,
         ResetMem, Closer, CloserGoesOn, BeginStop, Interrupt, StopThread, Join, BeginClose, CloseAll
<1>3. m_bConnected' \in BOOLEAN
  <2>0. m_bConnected \in BOOLEAN
    BY DEF FlagTypes
  <2>1. CASE \E ok \in BOOLEAN : Connects(ok, TRUE)
    BY <2>0, <2>1, Zenon DEF Connects
  <2>2. \/ m_bConnected' = m_bConnected \/ m_bConnected' = FALSE
        \/ \E ok \in BOOLEAN : Connects(ok, TRUE)
    BY DEF Next, Calls, Call, Reader, ReadAt, OpenURL, ReadAtMem, SetPosBegin, SetPosHttp, SetPosMem,
           SetPosConnect, Read, ReadGivesUp, ReadGoesOn, ReadCopy, Return, Download,
           BeginReconnect, ReconnectHttp, ReconnectEnds, BeginRead, NetData, NetNothing, Fill, Lost,
           ResetMem, Closer, CloserGoesOn, BeginStop, Interrupt, StopThread, Join, BeginClose, CloseAll
  <2> QED BY <2>0, <2>1, <2>2, Zenon
<1>4. m_bForceClose' = m_bForceClose \/ m_bForceClose' \in BOOLEAN
  BY DEF Next, Calls, Call, Reader, ReadAt, OpenURL, ReadAtMem, SetPosBegin, SetPosHttp, SetPosMem,
         SetPosConnect, Read, ReadGivesUp, ReadGoesOn, ReadCopy, Return, Download, BeginReconnect,
         ReconnectHttp, ReconnectEnds, BeginRead, NetData, NetNothing, Fill, Lost, ResetMem, Closer,
         CloserGoesOn, BeginStop, Interrupt, StopThread, Join, BeginClose, CloseAll
<1>6. http'.made \in BOOLEAN
  BY HttpMade, Zenon DEF FlagTypes
<1>7. eng'.pc \in {"idle", "stop", "flag", "join", "wait", "close", "closed"}
  <2>0. DOMAIN eng = {"pc", "close"} /\ eng.pc \in {"idle", "stop", "flag", "join", "wait", "close", "closed"}
    BY DEF Shape, FlagTypes
  <2>1. CASE Closer
    BY <2>0, <2>1 DEF Closer, CloserGoesOn, BeginStop, Interrupt, StopThread, Join, BeginClose, CloseAll,
                      Engine, Mutex
  <2>2. CASE Calls \/ Reader \/ Download
    <3>1. eng' = eng
      BY <2>2 DEF Calls, Call, Reader, ReadAt, OpenURL, ReadAtMem, SetPosBegin, SetPosHttp, SetPosMem,
         SetPosConnect, Read, ReadGivesUp, ReadGoesOn, ReadCopy, Return, Download, BeginReconnect,
         ReconnectHttp, ReconnectEnds, BeginRead, NetData, NetNothing, Fill, Lost, ResetMem
    <3> QED BY <2>0, <3>1
  <2> QED BY <2>1, <2>2 DEF Next
<1> QED BY <1>1, <1>2, <1>3, <1>4, <1>6, <1>7, Zenon DEF FlagTypes

-----------------------------------------------------------------------------
(* The positions are in the file. *)

LEMMA SizedMemoryIs ==
  ASSUME MemoryTypeInv
  PROVE  /\ m_pMemData \in Memory /\ m_pMemData.m_lstFull \in Seq(SizedBlock)
         /\ ~http.made => m_pMemData.m_lstFull \in Seq(EndsBy(FileSize))
  BY DEF MemoryTypeInv, SizedMemory

LEMMA FirstSize ==
  ASSUME MemoryTypeInv, ~http.made
  PROVE  GetBuffSize(m_pMemData, 0) \in 0..FileSize
<1> DEFINE m == m_pMemData
           l == m.m_lstFull
<1>1. m \in Memory /\ l \in Seq(EndsBy(FileSize)) /\ FileSize \in Nat
  BY SizedMemoryIs, FileAssumption
<1> HIDE DEF m
<1>2. \/ GetBuffSize(m, 0) = 0
      \/ \E j \in 1..Len(l) : GetBuffSize(m, 0) = EndOf(l[j]) - 0
  BY <1>1, BuffSizeType
<1>3. \A j \in 1..Len(l) : l[j] \in EndsBy(FileSize)
  BY <1>1, ElementOfSeq
<1>4. \A j \in 1..Len(l) : EndOf(l[j]) \in Nat /\ EndOf(l[j]) <= FileSize
  <2> TAKE j \in 1..Len(l)
  <2> HIDE DEF l
  <2>1. l[j] \in AnyBlock /\ EndOf(l[j]) <= FileSize
    BY <1>3 DEF EndsBy, SizedBlock
  <2> QED BY <2>1, BlockTypes
<1> HIDE DEF l
<1>5. GetBuffSize(m, 0) \in 0..FileSize
  BY <1>1, <1>2, <1>4
<1> QED BY <1>5 DEF m

LEMMA ReadPosStep ==
  ASSUME ReaderTypes, PositionTypes, MemoryTypeInv, Next
  PROVE  m_llReadPos' \in 0..FileSize
<1>0. rd.pos \in 0..(FileSize - 1) /\ rd.n \in Nat /\ m_llReadPos \in 0..FileSize /\ FileSize \in Nat
  BY FileAssumption DEF ReaderTypes, PositionTypes
<1>1. CASE m_llReadPos' = m_llReadPos \/ m_llReadPos' = rd.pos
  BY <1>0, <1>1
<1>2. CASE ReadCopy
  <2> DEFINE out == ReadBuff(m_pMemData, m_llReadPos, rd.n, rd.op # "Read")
  <2>1. m_llReadPos' = m_llReadPos + Len(out) /\ rd.pc = "copy"
    BY <1>2 DEF ReadCopy
  <2>2. m_llReadPos + rd.n <= FileSize
    BY <2>1 DEF ReaderTypes
  <2>3. Len(out) \in 0..rd.n
    BY <1>0, SizedMemoryIs, ReadBuffLength
  <2> HIDE DEF out
  <2> QED BY <1>0, <2>1, <2>2, <2>3
<1>3. m_llReadPos' = m_llReadPos \/ m_llReadPos' = rd.pos \/ ReadCopy
  BY DEF file, Next, Calls, Call, Reader, ReadAt, OpenURL, ReadAtMem, SetPosBegin, SetPosHttp, SetPosMem,
         SetPosConnect, SetPosEnds, Read, ReadGivesUp, ReadGoesOn, Return, Download, BeginReconnect,
         ReconnectHttp, ReconnectEnds, BeginRead, NetData, NetNothing, Fill, Lost, ResetMem, Closer,
         CloserGoesOn, BeginStop, Interrupt, StopThread, Join, BeginClose, CloseAll
<1> QED BY <1>1, <1>2, <1>3

(* A step that moves m_llDownPos. *)
LEMMA DownPosMoves ==
  ASSUME Next
  PROVE  \/ m_llDownPos' = m_llDownPos
         \/ ReadAt /\ ~http.made /\ m_llDownPos' = GetBuffSize(m_pMemData, 0)
         \/ SetPosMem /\ m_llDownPos' < FileSize
              /\ m_llDownPos' = rd.pos + GetBuffSize(SetPos(m_pMemData, rd.pos), rd.pos)
         \/ ReconnectHttp /\ m_llDownPos' = m_llReadPos
         \/ Fill /\ dl.kind = "data" /\ m_llDownPos' = m_llDownPos + Len(dl.data)
<1>1. CASE ReadAt
  BY <1>1 DEF ReadAt
<1>2. CASE SetPosMem
  <2>1. CASE /\ m_llReadPos # rd.pos
             /\ rd.pos + GetBuffSize(SetPos(m_pMemData, rd.pos), rd.pos) < FileSize
             /\ m_llDownPos' = rd.pos + GetBuffSize(SetPos(m_pMemData, rd.pos), rd.pos)
    BY <1>2, <2>1
  <2>2. CASE m_llDownPos' = m_llDownPos
    BY <2>2
  <2>3. \/ m_llDownPos' = m_llDownPos
        \/ /\ m_llReadPos # rd.pos
           /\ rd.pos + GetBuffSize(SetPos(m_pMemData, rd.pos), rd.pos) < FileSize
           /\ m_llDownPos' = rd.pos + GetBuffSize(SetPos(m_pMemData, rd.pos), rd.pos)
    BY <1>2, Zenon DEF SetPosMem
  <2> QED BY <2>1, <2>2, <2>3
<1>3. CASE ReconnectHttp
  BY <1>3 DEF ReconnectHttp
<1>4. CASE Fill
  BY <1>4 DEF Fill
<1>5. m_llDownPos' = m_llDownPos \/ ReadAt \/ SetPosMem \/ ReconnectHttp \/ Fill
  BY DEF file, Next, Calls, Call, Reader, OpenURL, ReadAtMem, SetPosBegin, SetPosHttp, SetPosConnect,
         Read, ReadGivesUp, ReadGoesOn, ReadCopy, Return, Download, BeginReconnect,
         ReconnectEnds, BeginRead, NetData, NetNothing, Lost, ResetMem, Closer,
         CloserGoesOn, BeginStop, Interrupt, StopThread, Join, BeginClose, CloseAll
<1> QED BY <1>1, <1>2, <1>3, <1>4, <1>5

LEMMA DownPosStep ==
  ASSUME IInv, ReaderTypes, DownloadTypes, PositionTypes, MemoryTypeInv, Next
  PROVE  m_llDownPos' \in 0..FileSize
<1>0. /\ rd.pos \in Nat /\ m_llReadPos \in 0..FileSize /\ m_llDownPos \in 0..FileSize
      /\ http.at \in -1..FileSize /\ FileSize \in Nat
  BY FileAssumption DEF ReaderTypes, PositionTypes
<1>1. CASE ~http.made /\ m_llDownPos' = GetBuffSize(m_pMemData, 0)
  BY <1>1, FirstSize
<1>2. CASE m_llDownPos' < FileSize /\ m_llDownPos' = rd.pos + GetBuffSize(SetPos(m_pMemData, rd.pos), rd.pos)
  <2>1. SetPos(m_pMemData, rd.pos) \in Memory
    BY <1>0, SizedMemoryIs, SetPosType DEF SizedBlock
  <2>2. m_llDownPos' \in Nat
    BY <1>0, <1>2, <2>1, BuffSizeType
  <2> QED BY <1>0, <1>2, <2>2
<1>3. CASE dl.kind = "data" /\ m_llDownPos' = m_llDownPos + Len(dl.data)
  <2>1. http.at = m_llDownPos + Len(dl.data)
    BY <1>3 DEF IInv, DownloadInStep
  <2>2. PICK p \in Nat, n \in 1..MEM_BUFF_SIZE : dl.data = Bytes(p, n)
    BY <1>3 DEF DownloadTypes
  <2>3. Len(dl.data) \in Nat
    BY <2>2, MemAssumption, BytesType
  <2> QED BY <1>0, <1>3, <2>1, <2>3
<1> QED BY <1>0, <1>1, <1>2, <1>3, DownPosMoves

LEMMA HttpAtMoves ==
  ASSUME Shape, Next
  PROVE  \/ http'.at = http.at \/ http'.at = -1 \/ http'.at = m_llDownPos
         \/ /\ http.at \in 0..(FileSize - 1)
            /\ \E n \in 1..Min2(MEM_BUFF_SIZE, FileSize - http.at) : http'.at = http.at + n
<1> USE DEF Shape
<1>1. CASE Calls
  BY <1>1 DEF Calls, Call, file
<1>2. CASE Reader
  <2>1. CASE ReadAt
    BY <2>1 DEF ReadAt
  <2>2. CASE OpenURL \/ SetPosConnect
    BY <2>2 DEF OpenURL, SetPosConnect, Connects
  <2>3. CASE SetPosMem
    BY <2>3 DEF SetPosMem
  <2>4. CASE ReadAtMem \/ SetPosBegin \/ SetPosHttp \/ Read \/ ReadGivesUp \/ ReadGoesOn \/ ReadCopy \/ Return
    BY <2>4 DEF ReadAtMem, SetPosBegin, SetPosHttp, Read, ReadGivesUp, ReadGoesOn, ReadCopy, Return, file
  <2> QED BY <1>2, <2>1, <2>2, <2>3, <2>4 DEF Reader
<1>3. CASE Download
  <2>1. CASE ReconnectHttp
    BY <2>1 DEF ReconnectHttp
  <2>2. CASE ReconnectEnds
    BY <2>2 DEF ReconnectEnds, Connects
  <2>3. CASE NetData
    BY <2>3 DEF NetData
  <2>4. CASE NetNothing
    BY <2>4 DEF NetNothing
  <2>5. CASE BeginReconnect \/ BeginRead \/ Fill \/ Lost \/ ResetMem
    BY <2>5 DEF BeginReconnect, BeginRead, Fill, Lost, ResetMem, file
  <2> QED BY <1>3, <2>1, <2>2, <2>3, <2>4, <2>5 DEF Download
<1>4. CASE Closer
  <2>1. CASE CloseAll
    BY <2>1 DEF CloseAll
  <2>2. CASE BeginStop \/ Interrupt \/ StopThread \/ Join \/ BeginClose
    BY <2>2 DEF BeginStop, Interrupt, StopThread, Join, BeginClose, file
  <2> QED BY <1>4, <2>1, <2>2 DEF Closer, CloserGoesOn
<1> QED BY <1>1, <1>2, <1>3, <1>4 DEF Next

LEMMA PositionTypesStep ==
  ASSUME IInv, ReaderTypes, DownloadTypes, PositionTypes, MemoryTypeInv, Next
  PROVE  PositionTypes'
<1>1. m_llReadPos' \in 0..FileSize /\ m_llDownPos' \in 0..FileSize
  BY ReadPosStep, DownPosStep
<1>2. m_llHeadSize' = m_llHeadSize
  BY DEF cache, Next, Calls, Call, Reader, ReadAt, OpenURL, ReadAtMem, SetPosBegin, SetPosHttp, SetPosMem,
         SetPosConnect, Read, ReadGivesUp, ReadGoesOn, ReadCopy, Return, Download, BeginReconnect,
         ReconnectHttp, ReconnectEnds, BeginRead, NetData, NetNothing, Fill, Lost, ResetMem, Closer,
         CloserGoesOn, BeginStop, Interrupt, StopThread, Join, BeginClose, CloseAll
<1>3. http'.at \in -1..FileSize
  <2>1. /\ m_llDownPos \in 0..FileSize /\ http.at \in -1..FileSize /\ FileSize \in Nat /\ Shape
        /\ MEM_BUFF_SIZE \in Nat
    BY FileAssumption, MemAssumption DEF PositionTypes, IInv
  <2>2. ASSUME http.at \in 0..(FileSize - 1), NEW n \in 1..Min2(MEM_BUFF_SIZE, FileSize - http.at)
        PROVE  http.at + n \in -1..FileSize
    BY <2>1, <2>2 DEF Min2
  <2> QED BY <2>1, <2>2, HttpAtMoves
<1> QED BY <1>1, <1>2, <1>3 DEF PositionTypes

-----------------------------------------------------------------------------
(* The memory. *)

(* What a step does to the memory. *)
LEMMA MemoryMoves ==
  ASSUME Next
  PROVE  \/ m_pMemData' = m_pMemData
         \/ m_pMemData' = Reset(m_pMemData)
         \/ SetPosMem /\ m_pMemData' = SetPos(m_pMemData, rd.pos)
         \/ ReadCopy /\ \E pos \in {m_llReadPos'} : m_pMemData' = AfterRead(m_pMemData, pos, rd.flag)
         \/ Fill /\ dl.kind = "data" /\ m_pMemData' = FillBuff(m_pMemData, m_llDownPos, dl.data)
<1>1. CASE SetPosMem
  BY <1>1 DEF SetPosMem
<1>2. CASE ReadCopy
  BY <1>2 DEF ReadCopy
<1>3. CASE Fill
  BY <1>3 DEF Fill
<1>4. m_pMemData' = m_pMemData \/ m_pMemData' = Reset(m_pMemData) \/ SetPosMem \/ ReadCopy \/ Fill
  BY DEF file, Next, Calls, Call, Reader, ReadAt, OpenURL, ReadAtMem, SetPosBegin, SetPosHttp,
         SetPosConnect, Read, ReadGivesUp, ReadGoesOn, Return, Download, BeginReconnect, ReconnectHttp,
         ReconnectEnds, BeginRead, NetData, NetNothing, Lost, ResetMem, Closer,
         CloserGoesOn, BeginStop, Interrupt, StopThread, Join, BeginClose, CloseAll
<1> QED BY <1>1, <1>2, <1>3, <1>4

LEMMA MemoryTypeStep ==
  ASSUME IInv, ReaderTypes, DownloadTypes, FlagTypes, PositionTypes, MemoryTypeInv, Next
  PROVE  MemoryTypeInv'
<1> DEFINE m == m_pMemData
<1>0. /\ m \in Memory /\ m.m_lstFull \in Seq(SizedBlock)
      /\ ~http.made => m.m_lstFull \in Seq(EndsBy(FileSize))
      /\ rd.pos \in Nat /\ m_llDownPos \in Nat /\ FileSize \in Nat
      /\ SizedBlock \subseteq AnyBlock /\ EndsBy(FileSize) \subseteq AnyBlock
  BY SizedMemoryIs, FileAssumption DEF ReaderTypes, PositionTypes, SizedBlock, EndsBy
<1>1. ~http'.made => ~http.made \/ CloseAll
  BY HttpMade DEF IInv
<1>2. ASSUME m_pMemData' \in Memory, m_pMemData'.m_lstFull \in Seq(SizedBlock),
             ~http.made => m_pMemData'.m_lstFull \in Seq(EndsBy(FileSize)), ~CloseAll
      PROVE  MemoryTypeInv'
  BY <1>1, <1>2 DEF MemoryTypeInv, SizedMemory
<1>3. CASE m_pMemData' = Reset(m)
  <2>1. m_pMemData' \in Memory /\ m_pMemData'.m_lstFull = <<>>
    BY <1>0, <1>3, ResetType
  <2>2. <<>> \in Seq(SizedBlock) /\ <<>> \in Seq(EndsBy(FileSize))
    OBVIOUS
  <2> QED BY <2>1, <2>2 DEF MemoryTypeInv, SizedMemory
<1>4. CASE CloseAll
  BY <1>3, <1>4 DEF CloseAll
<1>5. CASE m_pMemData' = m /\ ~CloseAll
  BY <1>0, <1>2, <1>5
<1>6. CASE m_pMemData' = SetPos(m, rd.pos) /\ ~CloseAll
  <2> HIDE DEF m
  <2>1. SetPos(m, rd.pos) \in Memory /\ SetPos(m, rd.pos).m_lstFull \in Seq(SizedBlock)
    BY <1>0, SetPosType
  <2>2. ~http.made => SetPos(m, rd.pos).m_lstFull \in Seq(EndsBy(FileSize))
    BY <1>0, SetPosType
  <2> QED BY <1>2, <1>6, <2>1, <2>2
<1>7. CASE ~CloseAll /\ \E pos \in {m_llReadPos'} : m_pMemData' = AfterRead(m, pos, rd.flag)
  <2>1. m_llReadPos' \in Nat
    BY <1>0, ReadPosStep
  <2> HIDE DEF m
  <2>2. m_pMemData' \in Memory /\ m_pMemData'.m_lstFull = m.m_lstFull
    BY <1>0, <1>7, <2>1, AfterReadType
  <2> QED BY <1>0, <1>2, <1>7, <2>2
<1>8. CASE Fill /\ dl.kind = "data" /\ m_pMemData' = FillBuff(m, m_llDownPos, dl.data)
  <2>1. PICK p \in Nat, n \in 1..MEM_BUFF_SIZE : dl.data = Bytes(p, n)
    BY <1>8 DEF DownloadTypes
  <2>2. dl.data \in Seq(Nat) /\ Len(dl.data) <= MEM_BUFF_SIZE
    <3>1. n \in Nat /\ n <= MEM_BUFF_SIZE
      BY MemAssumption
    <3> QED BY <2>1, <3>1, BytesType
  <2>3. dl.pc = "fill" /\ http' = http
    BY <1>8 DEF Fill
  <2>4. http.made
    BY <2>3 DEF DownloadTypes
  <2> HIDE DEF m
  <2>5. m_pMemData' \in Memory /\ m_pMemData'.m_lstFull \in Seq(SizedBlock)
    BY <1>0, <1>8, <2>2, FillBuffType
  <2> QED BY <2>3, <2>4, <2>5 DEF MemoryTypeInv, SizedMemory
<1>9. CASE ~CloseAll
  BY <1>3, <1>5, <1>6, <1>7, <1>8, <1>9, MemoryMoves
<1> QED BY <1>4, <1>9

-----------------------------------------------------------------------------

LEMMA TypeInvStep ==
  ASSUME IInv, TypeInv, [Next]_vars
  PROVE  TypeInv'
<1>1. CASE Next
  <2>1. FuncInv /\ HttpInv /\ MemInv
    BY DEF TypeInv, LockInv
  <2>2. Shape
    BY DEF IInv
  <2>3. LockInv'
    BY <1>1, <2>1, FuncStep, HttpStep, MemStep DEF LockInv, TypeInv
  <2>4. ReaderTypes' /\ PositionTypes' /\ MemoryTypeInv'
    BY <1>1, ReaderTypesStep, PositionTypesStep, MemoryTypeStep DEF TypeInv
  <2>5. DownloadTypes' /\ FlagTypes'
    BY <1>1, <2>1, <2>2, DownloadTypesStep, FlagTypesStep DEF TypeInv
  <2> QED BY <2>3, <2>4, <2>5 DEF TypeInv
<1>2. CASE UNCHANGED vars
  <2> USE DEF vars, file, cache
  <2>1. LockInv'
    BY <1>2 DEF TypeInv, LockInv, FuncInv, HttpInv, MemInv, MemReads
  <2>2. ReaderTypes'
    BY <1>2 DEF TypeInv, ReaderTypes
  <2>5. DownloadTypes'
    BY <1>2, Zenon DEF TypeInv, DownloadTypes
  <2>3. FlagTypes'
    BY <1>2, Zenon DEF TypeInv, FlagTypes
  <2>4. PositionTypes' /\ MemoryTypeInv'
    BY <1>2 DEF TypeInv, PositionTypes, MemoryTypeInv
  <2> QED BY <2>1, <2>2, <2>3, <2>4, <2>5 DEF TypeInv
<1> QED BY <1>1, <1>2

LEMMA TypeInvGivesTypeOK == TypeInv => TypeOK
<1> SUFFICES ASSUME TypeInv PROVE TypeOK
  OBVIOUS
<1>1. m_sStatus \in {"init", "run", "stop"} /\ eng.pc \in {"idle", "stop", "flag", "join", "wait", "close", "closed"}
  BY DEF TypeInv, FlagTypes
<1>2. {m_bConnected, m_bReconnect, m_bForceClose} \subseteq BOOLEAN /\ http.made \in BOOLEAN
  BY Zenon DEF TypeInv, FlagTypes
<1>3. {m_llReadPos, m_llDownPos, m_llHeadSize} \subseteq 0..FileSize /\ http.at \in -1..FileSize
  BY DEF TypeInv, PositionTypes
<1>4. m_pMemData \in Memory
  BY DEF TypeInv, MemoryTypeInv, SizedMemory
<1>5. \A m \in Mutex : lock[m].n \in 0..2 /\ (lock[m].n = 0 <=> lock[m] = Open)
  BY DEF TypeInv, LockInv, FuncInv, HttpInv, MemInv, MemReads, By, Open, Mutex
<1>6. rd.pc \in Pcs
  BY DEF TypeInv, ReaderTypes
<1>7. dl.pc \in {"none", "top", "againHttp", "again", "net", "fill", "lost", "reset"}
  BY DEF TypeInv, DownloadTypes
<1> QED BY <1>1, <1>2, <1>3, <1>4, <1>5, <1>6, <1>7, Zenon DEF TypeOK

(* Positions stay in the file, a free mutex counts 0 and no thread takes   *)
(* one more than twice: TypeOK holds of every file, cache, size of blocks  *)
(* and number of calls (CHTTPIO2.cpp:253-410, 558-636).                    *)
THEOREM TypeCorrect == Spec => []TypeOK
<1>1. Init => IInv /\ TypeInv
  BY InitIInv, InitTypeInv
<1>2. IInv /\ TypeInv /\ [Next]_vars => IInv' /\ TypeInv'
  BY TypeInvStep, CallStep, ReaderStep, DownloadStep, CloserStep, StutterStep DEF Next
<1>3. IInv /\ TypeInv => TypeOK
  BY TypeInvGivesTypeOK
<1> QED BY <1>1, <1>2, <1>3, PTL DEF Spec

-----------------------------------------------------------------------------
(* One piece of the file.  Every block but the last is full, blocks follow *)
(* one another, and a byte is where it is in the file.                     *)

Exact(b) == \A j \in 1..Len(b.data) : b.data[j] = b.m_llPos + j - 1

OnePieceList ==
  {l \in Seq(AnyBlock) : \A k \in 1..Len(l) :
     /\ Len(l[k].data) \in 1..MEM_BUFF_SIZE
     /\ k > 1 => l[k].m_llPos = EndOf(l[k - 1])
     /\ k < Len(l) => Len(l[k].data) = MEM_BUFF_SIZE
     /\ Exact(l[k])}

EndsAt(l, p) == l # <<>> => EndOf(l[Len(l)]) = p
LastIsFull(l) == l # <<>> => Len(l[Len(l)].data) = MEM_BUFF_SIZE

LEMMA PieceTypes ==
  ASSUME NEW l \in OnePieceList
  PROVE  /\ l \in Seq(AnyBlock) /\ Len(l) \in Nat /\ (l # <<>> => Len(l) \in 1..Len(l))
         /\ \A k \in 1..Len(l) :
              /\ l[k] \in AnyBlock /\ l[k].m_llPos \in Nat /\ EndOf(l[k]) \in Nat
              /\ Len(l[k].data) \in 1..MEM_BUFF_SIZE
              /\ EndOf(l[k]) = l[k].m_llPos + Len(l[k].data)
<1>1. l \in Seq(AnyBlock) /\ \A k \in 1..Len(l) : Len(l[k].data) \in 1..MEM_BUFF_SIZE
  BY DEF OnePieceList
<1>2. Len(l) \in Nat /\ (l # <<>> => Len(l) \in 1..Len(l))
  BY <1>1, LenProperties, EmptySeq
<1>3. \A k \in 1..Len(l) : l[k] \in AnyBlock
  BY <1>1, ElementOfSeq
<1> QED BY <1>1, <1>2, <1>3, BlockTypes DEF EndOf

(* No block ends behind the last one. *)
LEMMA PieceOrder ==
  ASSUME NEW l \in OnePieceList
  PROVE  \A k \in 1..Len(l) : EndOf(l[k]) <= EndOf(l[Len(l)])
<1> DEFINE S == {k \in 0..Len(l) : k # 0 /\ EndOf(l[k]) > EndOf(l[Len(l)])}
<1>0. /\ Len(l) \in Nat /\ MEM_BUFF_SIZE \in Nat
      /\ \A k \in 1..Len(l) :
           /\ l[k].m_llPos \in Nat /\ EndOf(l[k]) \in Nat /\ Len(l[k].data) \in 1..MEM_BUFF_SIZE
           /\ EndOf(l[k]) = l[k].m_llPos + Len(l[k].data)
  BY PieceTypes, MemAssumption
<1>1. ASSUME S # {} PROVE FALSE
  <2>1. S \subseteq 0..Len(l)
    BY Zenon
  <2>2. PICK x \in S : \A y \in S : x >= y
    BY <1>0, <1>1, <2>1, GreatestPosition
  <2>3. x \in 1..Len(l) /\ EndOf(l[x]) > EndOf(l[Len(l)])
    BY <2>2
  <2>4. x # Len(l)
    BY <1>0, <2>3
  <2>5. x + 1 \in 1..Len(l) /\ x + 1 > 1 /\ (x + 1) - 1 = x
    BY <1>0, <2>3, <2>4
  <2>6. l[x + 1].m_llPos = EndOf(l[x])
    BY <2>5 DEF OnePieceList
  <2>7. EndOf(l[x + 1]) > EndOf(l[x])
    <3>1. /\ EndOf(l[x]) \in Nat /\ Len(l[x + 1].data) \in Nat \ {0}
          /\ EndOf(l[x + 1]) = EndOf(l[x]) + Len(l[x + 1].data)
      BY <1>0, <2>3, <2>5, <2>6
    <3> QED BY <3>1
  <2>8. EndOf(l[Len(l)]) \in Nat /\ EndOf(l[x]) \in Nat /\ EndOf(l[x + 1]) \in Nat
    BY <1>0, <2>3, <2>5
  <2>10. EndOf(l[x + 1]) > EndOf(l[Len(l)]) /\ x + 1 # 0 /\ x + 1 \in 0..Len(l)
    BY <1>0, <2>3, <2>5, <2>7, <2>8
  <2>9. x + 1 \in S
    BY <2>10, Zenon
  <2> HIDE DEF S
  <2> QED BY <2>2, <2>3, <2>9
<1>2. \A k \in 1..Len(l) : ~(EndOf(l[k]) > EndOf(l[Len(l)]))
  <2> SUFFICES ASSUME NEW k \in 1..Len(l), EndOf(l[k]) > EndOf(l[Len(l)]) PROVE FALSE
    OBVIOUS
  <2>1. k \in 0..Len(l) /\ k # 0
    BY <1>0
  <2>2. k \in S
    BY <2>1, Zenon
  <2> HIDE DEF S
  <2> QED BY <1>1, <2>2
<1>3. \A k \in 1..Len(l) : EndOf(l[k]) \in Nat /\ EndOf(l[Len(l)]) \in Nat
  BY <1>0
<1> QED BY <1>2, <1>3

(* Without its first block. *)
LEMMA PieceTail ==
  ASSUME NEW l \in OnePieceList, Len(l) > 2
  PROVE  /\ Tail(l) \in OnePieceList /\ Tail(l) # <<>>
         /\ Tail(l)[Len(Tail(l))] = l[Len(l)]
<1> DEFINE t == Tail(l)
<1>0. l \in Seq(AnyBlock) /\ Len(l) \in Nat /\ l # <<>>
  BY PieceTypes
<1>1. t \in Seq(AnyBlock) /\ Len(t) = Len(l) - 1 /\ \A i \in 1..Len(t) : t[i] = l[i + 1]
  BY <1>0, HeadTailProperties
<1> HIDE DEF t
<1>2. t # <<>>
  <2>1. Len(t) # 0 /\ Len(<<>>) = 0
    BY <1>0, <1>1
  <2> QED BY <2>1, Zenon
<1>3. ASSUME NEW k \in 1..Len(t)
      PROVE  /\ Len(t[k].data) \in 1..MEM_BUFF_SIZE
             /\ k > 1 => t[k].m_llPos = EndOf(t[k - 1])
             /\ k < Len(t) => Len(t[k].data) = MEM_BUFF_SIZE
             /\ Exact(t[k])
  <2>1. /\ k + 1 \in 1..Len(l) /\ k + 1 > 1 /\ (k + 1) - 1 = k /\ t[k] = l[k + 1]
        /\ k > 1 => k - 1 \in 1..Len(t) /\ (k - 1) + 1 = k
        /\ k < Len(t) => k + 1 < Len(l)
    BY <1>0, <1>1
  <2>2. k > 1 => t[k - 1] = l[k]
    BY <1>1, <2>1
  <2>3. /\ Len(l[k + 1].data) \in 1..MEM_BUFF_SIZE
        /\ l[k + 1].m_llPos = EndOf(l[(k + 1) - 1])
        /\ k + 1 < Len(l) => Len(l[k + 1].data) = MEM_BUFF_SIZE
        /\ Exact(l[k + 1])
    BY <2>1 DEF OnePieceList
  <2> QED BY <2>1, <2>2, <2>3
<1>4. t \in OnePieceList
  BY <1>1, <1>3 DEF OnePieceList
<1>5. t[Len(t)] = l[Len(l)]
  <2>1. Len(t) \in 1..Len(t) /\ Len(t) + 1 = Len(l)
    BY <1>0, <1>1
  <2> QED BY <1>1, <2>1
<1> QED BY <1>2, <1>4, <1>5 DEF t
(* The bytes of the file from a position on. *)
LEMMA LeftBytes ==
  ASSUME NEW p \in Nat, NEW n \in Nat, NEW r \in 0..n
  PROVE  Left(Bytes(p, n), r) = Bytes(p + r, n - r)
<1> DEFINE a == Left(Bytes(p, n), r)
           c == Bytes(p + r, n - r)
<1>0. p + r \in Nat /\ n - r \in Nat
  OBVIOUS
<1>1. /\ Bytes(p, n) \in Seq(Nat) /\ Len(Bytes(p, n)) = n
      /\ \A j \in 1..n : Bytes(p, n)[j] = p + j - 1
  BY BytesType
<1>2. a \in Seq(Nat) /\ Len(a) = n - r /\ \A j \in 1..(n - r) : a[j] = Bytes(p, n)[r + j]
  <2> DEFINE w == Bytes(p, n)
  <2>0. w \in Seq(Nat) /\ Len(w) = n
    BY <1>1
  <2> HIDE DEF w
  <2>1. r \in 0..Len(w)
    BY <2>0
  <2>2. /\ Left(w, r) \in Seq(Nat) /\ Len(Left(w, r)) = Len(w) - r
        /\ \A j \in 1..(Len(w) - r) : Left(w, r)[j] = w[r + j]
    BY <2>0, <2>1, LeftIs
  <2> QED BY <2>0, <2>2 DEF w
<1>3. c \in Seq(Nat) /\ Len(c) = n - r /\ \A j \in 1..(n - r) : c[j] = (p + r) + j - 1
  BY <1>0, BytesType
<1> HIDE DEF a, c
<1>4. \A j \in 1..(n - r) : a[j] = c[j]
  <2> TAKE j \in 1..(n - r)
  <2>1. r + j \in 1..n /\ p + (r + j) - 1 = (p + r) + j - 1
    OBVIOUS
  <2> QED BY <1>1, <1>2, <1>3, <2>1
<1>5. a = c
  BY <1>2, <1>3, <1>4, SeqEqual
<1> QED BY <1>5 DEF a, c

LEMMA BlockExact ==
  ASSUME NEW p \in Nat, NEW n \in Nat
  PROVE  LET b == Block(p, Bytes(p, n)) IN
         /\ b \in AnyBlock /\ b.m_llPos = p /\ EndOf(b) = p + n /\ Len(b.data) = n /\ Exact(b)
<1>1. /\ Bytes(p, n) \in Seq(Nat) /\ Len(Bytes(p, n)) = n
      /\ \A j \in 1..n : Bytes(p, n)[j] = p + j - 1
  BY BytesType
<1> QED BY <1>1, BlockOf DEF Exact

LEMMA GrownExact ==
  ASSUME NEW b \in AnyBlock, Exact(b), NEW n \in Nat, NEW r \in 0..n
  PROVE  LET g == Grown(b, Bytes(EndOf(b), n), r) IN
         /\ g \in AnyBlock /\ g.m_llPos = b.m_llPos /\ EndOf(g) = EndOf(b) + r
         /\ Len(g.data) = Len(b.data) + r /\ Exact(g)
<1> DEFINE p == EndOf(b)
           g == Grown(b, Bytes(p, n), r)
<1>0. b.m_llPos \in Nat /\ Len(b.data) \in Nat /\ p \in Nat /\ p = b.m_llPos + Len(b.data)
  BY BlockTypes DEF EndOf
<1> HIDE DEF p
<1>1. /\ Bytes(p, n) \in Seq(Nat) /\ Len(Bytes(p, n)) = n
      /\ \A j \in 1..n : Bytes(p, n)[j] = p + j - 1
  BY <1>0, BytesType
<1>2. /\ g \in AnyBlock /\ g.m_llPos = b.m_llPos /\ Len(g.data) = Len(b.data) + r
      /\ EndOf(g) = EndOf(b) + r
      /\ \A j \in 1..(Len(b.data) + r) :
           g.data[j] = IF j <= Len(b.data) THEN b.data[j] ELSE Bytes(p, n)[j - Len(b.data)]
  <2> DEFINE w == Bytes(p, n)
  <2>0. w \in Seq(Nat) /\ Len(w) = n
    BY <1>1
  <2> HIDE DEF w
  <2>1. r \in 0..Len(w)
    BY <2>0
  <2>2. LET h == Grown(b, w, r) IN
        /\ h \in AnyBlock /\ h.m_llPos = b.m_llPos /\ Len(h.data) = Len(b.data) + r
        /\ EndOf(h) = EndOf(b) + r
        /\ \A j \in 1..(Len(b.data) + r) :
             h.data[j] = IF j <= Len(b.data) THEN b.data[j] ELSE w[j - Len(b.data)]
    BY <2>0, <2>1, GrownIs
  <2> QED BY <2>2 DEF w
<1> HIDE DEF g
<1>3. \A j \in 1..Len(g.data) : g.data[j] = g.m_llPos + j - 1
  <2> TAKE j \in 1..Len(g.data)
  <2>1. CASE j <= Len(b.data)
    <3>1. j \in 1..Len(b.data) /\ j \in 1..(Len(b.data) + r)
      BY <1>0, <1>2, <2>1
    <3> QED BY <1>2, <2>1, <3>1 DEF Exact
  <2>2. CASE ~(j <= Len(b.data))
    <3>1. /\ j - Len(b.data) \in 1..n /\ j \in 1..(Len(b.data) + r)
          /\ p + (j - Len(b.data)) - 1 = b.m_llPos + j - 1
      BY <1>0, <1>2, <2>2
    <3>2. g.data[j] = Bytes(p, n)[j - Len(b.data)]
      BY <1>2, <2>2, <3>1
    <3> QED BY <1>1, <1>2, <3>1, <3>2
  <2> QED BY <2>1, <2>2
<1>4. Exact(g)
  BY <1>3 DEF Exact
<1> QED BY <1>2, <1>4 DEF g, p

(* A new block behind full ones. *)
LEMMA PieceAdd ==
  ASSUME NEW m \in Memory, m.m_lstFull \in OnePieceList, LastIsFull(m.m_lstFull),
         NEW p \in Nat, EndsAt(m.m_lstFull, p), NEW n \in 1..MEM_BUFF_SIZE
  PROVE  /\ AddItem(m, p, Bytes(p, n)).m_lstFull \in OnePieceList
         /\ EndsAt(AddItem(m, p, Bytes(p, n)).m_lstFull, p + n)
<1> DEFINE g == GetItem(m).m_lstFull
           b == Block(p, Bytes(p, n))
           a == AddItem(m, p, Bytes(p, n)).m_lstFull
<1>0. n \in Nat /\ n # 0 /\ MEM_BUFF_SIZE \in Nat
  BY MemAssumption
<1>1. /\ b \in AnyBlock /\ b.m_llPos = p /\ EndOf(b) = p + n /\ Len(b.data) = n /\ Exact(b)
  BY <1>0, BlockExact
<1>2. g \in OnePieceList /\ LastIsFull(g) /\ EndsAt(g, p)
  <2>1. CASE g = m.m_lstFull
    BY <2>1
  <2>2. CASE Len(m.m_lstFull) > 2 /\ g = Tail(m.m_lstFull)
    <3>1. m.m_lstFull # <<>>
      BY <2>2, PieceTypes
    <3> HIDE DEF g
    <3> QED BY <2>2, <3>1, PieceTail DEF LastIsFull, EndsAt
  <2> QED BY <2>1, <2>2, GetItemType
<1>3. a = InsertAt(g, Before(g, p) + 1, b)
  BY <1>0, BytesType, AddItemType
<1> HIDE DEF g, b, a
<1>4. /\ g \in Seq(AnyBlock) /\ Len(g) \in Nat
      /\ \A k \in 1..Len(g) : g[k].m_llPos \in Nat /\ Len(g[k].data) \in 1..MEM_BUFF_SIZE
                              /\ EndOf(g[k]) = g[k].m_llPos + Len(g[k].data)
  BY <1>2, PieceTypes
<1>5. \A k \in 1..Len(g) : g[k].m_llPos <= p
  <2> TAKE k \in 1..Len(g)
  <2>1. g # <<>>
    BY <1>4
  <2>2. EndOf(g[k]) <= p
    BY <1>2, <2>1, PieceOrder DEF EndsAt
  <2>3. EndOf(g[k]) = g[k].m_llPos + Len(g[k].data) /\ g[k].m_llPos \in Nat /\ Len(g[k].data) \in Nat
    BY <1>0, <1>4
  <2> QED BY <2>2, <2>3
<1>6. Before(g, p) = Len(g)
  BY <1>4, <1>5, BeforeType
<1>7. /\ a \in Seq(AnyBlock) /\ Len(a) = Len(g) + 1
      /\ \A k \in 1..(Len(g) + 1) :
           a[k] = IF k < Len(g) + 1 THEN g[k] ELSE IF k = Len(g) + 1 THEN b ELSE g[k - 1]
  <2> DEFINE i == Before(g, p) + 1
  <2>1. i \in 1..(Len(g) + 1) /\ i = Len(g) + 1
    BY <1>4, <1>6
  <2> HIDE DEF i
  <2>2. /\ InsertAt(g, i, b) \in Seq(AnyBlock) /\ Len(InsertAt(g, i, b)) = Len(g) + 1
        /\ \A k \in 1..(Len(g) + 1) :
             InsertAt(g, i, b)[k] = IF k < i THEN g[k] ELSE IF k = i THEN b ELSE g[k - 1]
    BY <1>1, <1>4, <2>1, InsertAtProperties
  <2>3. a = InsertAt(g, i, b)
    BY <1>3 DEF i
  <2> QED BY <2>1, <2>2, <2>3
<1>8. ASSUME NEW k \in 1..Len(a)
      PROVE  /\ Len(a[k].data) \in 1..MEM_BUFF_SIZE
             /\ k > 1 => a[k].m_llPos = EndOf(a[k - 1])
             /\ k < Len(a) => Len(a[k].data) = MEM_BUFF_SIZE
             /\ Exact(a[k])
  <2>1. CASE k <= Len(g)
    <3>1. /\ k \in 1..Len(g) /\ a[k] = g[k]
          /\ k > 1 => a[k - 1] = g[k - 1]
      BY <1>4, <1>7, <2>1
    <3>2. k = Len(g) => Len(g[k].data) = MEM_BUFF_SIZE
      BY <1>2, <1>4, <3>1 DEF LastIsFull
    <3>3. k = Len(g) \/ k < Len(g)
      BY <1>4, <2>1
    <3>4. /\ Len(g[k].data) \in 1..MEM_BUFF_SIZE
          /\ k > 1 => g[k].m_llPos = EndOf(g[k - 1])
          /\ k < Len(g) => Len(g[k].data) = MEM_BUFF_SIZE
          /\ Exact(g[k])
      BY <1>2, <3>1 DEF OnePieceList
    <3> QED BY <3>1, <3>2, <3>3, <3>4
  <2>2. CASE ~(k <= Len(g))
    <3>1. /\ k = Len(g) + 1 /\ a[k] = b /\ ~(k < Len(a))
          /\ k > 1 => Len(g) \in 1..Len(g) /\ a[k - 1] = g[Len(g)]
      BY <1>4, <1>7, <2>2
    <3>2. k > 1 => EndOf(g[Len(g)]) = p
      <4>1. k > 1 => g # <<>>
        BY <1>4, <3>1
      <4> QED BY <1>2, <4>1 DEF EndsAt
    <3> QED BY <1>0, <1>1, <3>1, <3>2
  <2> QED BY <2>1, <2>2
<1>9. a \in OnePieceList
  BY <1>7, <1>8 DEF OnePieceList
<1>10. EndsAt(a, p + n)
  <2>1. Len(a) \in 1..(Len(g) + 1) /\ a[Len(a)] = b
    BY <1>4, <1>7
  <2> QED BY <1>1, <2>1 DEF EndsAt
<1> QED BY <1>9, <1>10 DEF a
(* The last block with more data. *)
LEMMA PieceGrow ==
  ASSUME NEW l \in OnePieceList, l # <<>>, NEW b \in AnyBlock, Exact(b),
         b.m_llPos = l[Len(l)].m_llPos, Len(b.data) \in 1..MEM_BUFF_SIZE
  PROVE  LET t == [l EXCEPT ![Len(l)] = b] IN
         t \in OnePieceList /\ Len(t) = Len(l) /\ t[Len(t)] = b
<1> DEFINE t == [l EXCEPT ![Len(l)] = b]
<1>1. l \in Seq(AnyBlock) /\ Len(l) \in Nat /\ Len(l) \in 1..Len(l)
  BY PieceTypes
<1>2. t \in Seq(AnyBlock) /\ Len(t) = Len(l)
      /\ \A k \in 1..Len(l) : t[k] = IF k = Len(l) THEN b ELSE l[k]
  <2>1. l \in [1..Len(l) -> AnyBlock]
    BY <1>1, LenProperties
  <2>2. t \in [1..Len(l) -> AnyBlock] /\ \A k \in 1..Len(l) : t[k] = IF k = Len(l) THEN b ELSE l[k]
    BY <1>1, <2>1
  <2> HIDE DEF t
  <2>3. t \in Seq(AnyBlock) /\ Len(t) = Len(l)
    BY <1>1, <2>2, SeqDef, LenProperties
  <2> QED BY <2>2, <2>3
<1> HIDE DEF t
<1>3. ASSUME NEW k \in 1..Len(t)
      PROVE  /\ Len(t[k].data) \in 1..MEM_BUFF_SIZE
             /\ k > 1 => t[k].m_llPos = EndOf(t[k - 1])
             /\ k < Len(t) => Len(t[k].data) = MEM_BUFF_SIZE
             /\ Exact(t[k])
  <2>1. /\ k \in 1..Len(l) /\ t[k] = (IF k = Len(l) THEN b ELSE l[k]) /\ t[k].m_llPos = l[k].m_llPos
        /\ k > 1 => t[k - 1] = l[k - 1]
    BY <1>1, <1>2
  <2>2. /\ Len(l[k].data) \in 1..MEM_BUFF_SIZE
        /\ k > 1 => l[k].m_llPos = EndOf(l[k - 1])
        /\ k < Len(l) => Len(l[k].data) = MEM_BUFF_SIZE
        /\ Exact(l[k])
    BY <2>1 DEF OnePieceList
  <2>3. k < Len(l) => k # Len(l)
    BY <1>1
  <2> QED BY <1>2, <2>1, <2>2, <2>3
<1>4. t \in OnePieceList
  BY <1>2, <1>3 DEF OnePieceList
<1> QED BY <1>1, <1>2, <1>4 DEF t

(* Where the data of the download goes: to the last block, or to a new one  *)
(* when it is full.                                                         *)
LEMMA PieceRange ==
  ASSUME NEW m \in Memory, m.m_lstFull \in OnePieceList, NEW p \in Nat, EndsAt(m.m_lstFull, p)
  PROVE  /\ InRange(m, p) = {} => LastIsFull(m.m_lstFull)
         /\ InRange(m, p) # {} => /\ m.m_lstFull # <<>>
                                  /\ FirstOf(InRange(m, p)) = Len(m.m_lstFull)
<1> DEFINE l == m.m_lstFull
<1>0. DOMAIN l = 1..Len(l) /\ Len(l) \in Nat /\ MEM_BUFF_SIZE \in Nat \ {0}
  BY MemoryTypes, MemAssumption
<1>1. /\ l # <<>> => Len(l) \in 1..Len(l)
      /\ \A k \in 1..Len(l) : l[k].m_llPos \in Nat /\ EndOf(l[k]) = l[k].m_llPos + Len(l[k].data)
                              /\ Len(l[k].data) \in 1..MEM_BUFF_SIZE
  BY PieceTypes
<1>2. \A k \in 1..Len(l) : l # <<>> /\ EndOf(l[k]) <= p
  <2>1. \A k \in 1..Len(l) : EndOf(l[k]) <= EndOf(l[Len(l)])
    BY PieceOrder
  <2>2. Len(l) # 0 => l # <<>>
    BY EmptySeq
  <2>3. \A k \in 1..Len(l) : Len(l) # 0
    BY <1>0
  <2> QED BY <2>1, <2>2, <2>3 DEF EndsAt
<1>3. InRange(m, p) \subseteq 1..Len(l) /\ InRange(m, p) \subseteq Nat
  BY <1>0 DEF InRange
<1>4. ASSUME InRange(m, p) = {}, l # <<>> PROVE Len(l[Len(l)].data) = MEM_BUFF_SIZE
  <2> DEFINE b == l[Len(l)]
  <2>1. b.m_llPos \in Nat /\ Len(b.data) \in 1..MEM_BUFF_SIZE /\ p = b.m_llPos + Len(b.data)
    BY <1>1, <1>4 DEF EndsAt
  <2>2. Len(l) \in DOMAIN l
    BY <1>0, <1>1, <1>4
  <2>3. ~(b.m_llPos <= p /\ p < b.m_llPos + MEM_BUFF_SIZE)
    BY <1>4, <2>2, Zenon DEF InRange
  <2> HIDE DEF b
  <2>4. Len(b.data) = MEM_BUFF_SIZE
    BY <1>0, <2>1, <2>3
  <2> QED BY <2>4 DEF b
<1>5. ASSUME InRange(m, p) # {} PROVE l # <<>> /\ FirstOf(InRange(m, p)) = Len(l)
  <2> DEFINE k == FirstOf(InRange(m, p))
  <2>1. k \in InRange(m, p)
    BY <1>3, <1>5, FirstOfNat
  <2>2. k \in 1..Len(l) /\ p < l[k].m_llPos + MEM_BUFF_SIZE
    BY <1>3, <2>1 DEF InRange
  <2> HIDE DEF k
  <2>3. l # <<>> /\ EndOf(l[k]) <= p /\ l[k].m_llPos \in Nat
        /\ EndOf(l[k]) = l[k].m_llPos + Len(l[k].data)
    BY <1>1, <1>2, <2>2
  <2>4. Len(l[k].data) # MEM_BUFF_SIZE
    BY <1>0, <2>2, <2>3
  <2>5. ~(k < Len(l))
    BY <2>2, <2>4 DEF OnePieceList
  <2>6. k = Len(l)
    BY <1>0, <2>2, <2>5
  <2> QED BY <2>3, <2>6 DEF k
<1> QED BY <1>4, <1>5 DEF LastIsFull
(* The data that comes next keeps one piece. *)
LEMMA PieceFill ==
  ASSUME NEW m \in Memory, m.m_lstFull \in OnePieceList, NEW p \in Nat, EndsAt(m.m_lstFull, p),
         NEW n \in 1..MEM_BUFF_SIZE
  PROVE  /\ FillBuff(m, p, Bytes(p, n)).m_lstFull \in OnePieceList
         /\ EndsAt(FillBuff(m, p, Bytes(p, n)).m_lstFull, p + n)
<1> DEFINE data == Bytes(p, n)
           l    == m.m_lstFull
           k    == FirstOf(InRange(m, p))
           b    == l[k]
           room == Min2(Len(data), MEM_BUFF_SIZE - Len(b.data))
           list == [l EXCEPT ![k] = Grown(b, data, room)]
           app  == [m EXCEPT !.m_lstFull = list]
           fill == IF InRange(m, p) = {} THEN AddItem(m, p, data)
                   ELSE IF room = Len(data) THEN app
                   ELSE AddItem(app, p + room, Left(data, room))
<1>0. MEM_BUFF_SIZE \in Nat /\ n \in Nat /\ n # 0 /\ n <= MEM_BUFF_SIZE
  BY MemAssumption
<1>1. data \in Seq(Nat) /\ Len(data) = n
  BY <1>0, BytesType
<1>2. fill \in Memory /\ fill.m_lstFull \in OnePieceList /\ EndsAt(fill.m_lstFull, p + n)
  <2>1. CASE InRange(m, p) = {}
    <3>1. LastIsFull(l)
      BY <2>1, PieceRange
    <3>2. AddItem(m, p, data) \in Memory
      BY <1>1, AddItemType
    <3>3. AddItem(m, p, data).m_lstFull \in OnePieceList /\ EndsAt(AddItem(m, p, data).m_lstFull, p + n)
      BY <3>1, PieceAdd
    <3> QED BY <2>1, <3>2, <3>3
  <2>2. CASE InRange(m, p) # {}
    <3>1. l # <<>> /\ k = Len(l) /\ l \in OnePieceList
      BY <2>2, PieceRange
    <3>2. /\ b \in AnyBlock /\ b.m_llPos \in Nat /\ Len(b.data) \in 1..MEM_BUFF_SIZE
          /\ Exact(b) /\ EndOf(b) = p
      <4>1. Len(l) \in 1..Len(l)
        BY <3>1, PieceTypes
      <4>2. /\ l[Len(l)] \in AnyBlock /\ l[Len(l)].m_llPos \in Nat
            /\ Len(l[Len(l)].data) \in 1..MEM_BUFF_SIZE
        BY <3>1, <4>1, PieceTypes
      <4>3. Exact(l[Len(l)])
        BY <3>1, <4>1 DEF OnePieceList
      <4>4. EndOf(l[Len(l)]) = p
        BY <3>1 DEF EndsAt
      <4> HIDE DEF l, k
      <4> QED BY <3>1, <4>2, <4>3, <4>4
    <3>3. /\ room \in 0..n /\ Len(b.data) + room \in 1..MEM_BUFF_SIZE
          /\ room # n => Len(b.data) + room = MEM_BUFF_SIZE
      <4> DEFINE used == Len(b.data)
                 free == IF n <= MEM_BUFF_SIZE - used THEN n ELSE MEM_BUFF_SIZE - used
      <4>1. used \in 1..MEM_BUFF_SIZE
        BY <3>2
      <4>2. room = free
        BY <1>1 DEF Min2
      <4> HIDE DEF used, room
      <4>3. /\ free \in 0..n /\ used + free \in 1..MEM_BUFF_SIZE
            /\ free # n => used + free = MEM_BUFF_SIZE
        BY <1>0, <4>1
      <4> QED BY <4>2, <4>3 DEF used
    <3> HIDE DEF room
    <3> DEFINE g == Grown(b, data, room)
    <3>4. /\ g \in AnyBlock /\ g.m_llPos = b.m_llPos /\ EndOf(g) = p + room
          /\ Len(g.data) = Len(b.data) + room /\ Exact(g)
      <4> HIDE DEF b
      <4>1. LET h == Grown(b, Bytes(EndOf(b), n), room) IN
            /\ h \in AnyBlock /\ h.m_llPos = b.m_llPos /\ EndOf(h) = EndOf(b) + room
            /\ Len(h.data) = Len(b.data) + room /\ Exact(h)
        BY <1>0, <3>2, <3>3, GrownExact
      <4>2. g = Grown(b, Bytes(EndOf(b), n), room)
        BY <3>2
      <4> HIDE DEF g
      <4> QED BY <3>2, <4>1, <4>2
    <3>5. Len(g.data) \in 1..MEM_BUFF_SIZE
      <4> HIDE DEF g, b
      <4> QED BY <3>3, <3>4
    <3>6. list \in OnePieceList /\ Len(list) = Len(l) /\ list[Len(list)] = g
      <4>1. g.m_llPos = l[Len(l)].m_llPos
        BY <3>1, <3>4
      <4>2. list = [l EXCEPT ![Len(l)] = g]
        BY <3>1
      <4> HIDE DEF g, l, list, k
      <4>3. LET t == [l EXCEPT ![Len(l)] = g] IN
            t \in OnePieceList /\ Len(t) = Len(l) /\ t[Len(t)] = g
        BY <3>1, <3>4, <3>5, <4>1, PieceGrow
      <4> QED BY <4>2, <4>3
    <3>7. EndsAt(list, p + room)
      <4> HIDE DEF g, list
      <4> QED BY <3>4, <3>6 DEF EndsAt
    <3>8. app \in Memory /\ app.m_lstFull = list
      <4> HIDE DEF list
      <4> QED BY <3>6, MemoryWith, PieceTypes
    <3>9. CASE room = n
      <4>1. fill = app
        BY <1>1, <2>2, <3>9
      <4> HIDE DEF app, list, fill
      <4> QED BY <3>6, <3>7, <3>8, <3>9, <4>1
    <3>10. CASE room # n
      <4>1. fill = AddItem(app, p + room, Left(data, room))
        <5>1. room # Len(data)
          BY <1>1, <3>10
        <5> HIDE DEF app, data
        <5> QED BY <2>2, <5>1
      <4>2. Left(data, room) = Bytes(p + room, n - room)
        BY <1>0, <3>3, LeftBytes
      <4>3. p + room \in Nat /\ n - room \in 1..MEM_BUFF_SIZE /\ (p + room) + (n - room) = p + n
        BY <1>0, <3>3, <3>10
      <4>4. LastIsFull(list)
        <5>1. Len(g.data) = MEM_BUFF_SIZE
          <6> HIDE DEF g, b
          <6> QED BY <3>3, <3>4, <3>10
        <5> HIDE DEF g, list
        <5> QED BY <3>6, <5>1 DEF LastIsFull
      <4> DEFINE q == p + room
                 r == n - room
      <4>5. q \in Nat /\ r \in 1..MEM_BUFF_SIZE /\ q + r = p + n /\ EndsAt(list, q)
            /\ fill = AddItem(app, q, Bytes(q, r))
        BY <3>7, <4>1, <4>2, <4>3
      <4> HIDE DEF app, list, fill, q, r
      <4>6. AddItem(app, q, Bytes(q, r)).m_lstFull \in OnePieceList
            /\ EndsAt(AddItem(app, q, Bytes(q, r)).m_lstFull, q + r)
        BY <3>6, <3>8, <4>4, <4>5, PieceAdd
      <4>7. AddItem(app, q, Bytes(q, r)) \in Memory
        <5>1. r \in Nat
          BY <1>0, <4>5
        <5>2. Bytes(q, r) \in Seq(Nat)
          BY <4>5, <5>1, BytesType
        <5> QED BY <3>8, <4>5, <5>2, AddItemType
      <4> QED BY <4>5, <4>6, <4>7
    <3> QED BY <3>9, <3>10
  <2> QED BY <2>1, <2>2
<1> DEFINE end == p + Len(data)
<1>4. FillBuff(m, p, data) = [fill EXCEPT !.m_llFillPos = end]
  BY <1>1, FillBuffIs
<1>5. end \in Nat
  BY <1>1
<1> HIDE DEF fill, end
<1>6. [fill EXCEPT !.m_llFillPos = end].m_lstFull = fill.m_lstFull
  BY <1>2, <1>5, MemoryWithNumber
<1>7. FillBuff(m, p, data).m_lstFull = fill.m_lstFull
  BY <1>4, <1>6
<1> QED BY <1>2, <1>7
-----------------------------------------------------------------------------
(* Seeks and reads in one piece. *)

(* From any block on, everything to the end of the last block follows. *)
LEMMA PieceReach ==
  ASSUME NEW l \in OnePieceList, NEW first \in 1..Len(l)
  PROVE  Reached(l, first)[Len(l)] = EndOf(l[Len(l)])
<1> DEFINE n == Len(l) - first
           r == Reached(l, first)
           f == [i \in 0..n |-> r[first + i]]
           P == [i \in 0..n |-> {EndOf(l[first + i])}]
<1>0. Len(l) \in Nat /\ first \in Nat /\ n \in Nat /\ first + n = Len(l) /\ l \in Seq(AnyBlock)
  BY PieceTypes
<1>1. \A k \in first..Len(l) : r[k] = IF k = first \/ l[k].m_llPos = r[k - 1] THEN EndOf(l[k]) ELSE r[k - 1]
  BY <1>0, ReachedIs
<1> HIDE DEF r
<1>2. f[0] \in P[0]
  <2>1. first \in first..Len(l) /\ first + 0 = first /\ 0 \in 0..n
    BY <1>0
  <2>2. f[0] = EndOf(l[first])
    BY <1>1, <2>1
  <2> QED BY <2>1, <2>2
<1>3. ASSUME NEW i \in 1..n, f[i - 1] \in P[i - 1] PROVE f[i] \in P[i]
  <2>1. /\ i \in 0..n /\ i - 1 \in 0..n /\ first + i \in first..Len(l) /\ first + i \in 1..Len(l)
        /\ first + i > 1 /\ (first + i) - 1 = first + (i - 1)
    BY <1>0
  <2>2. f[i] = r[first + i] /\ f[i - 1] = r[(first + i) - 1]
    BY <2>1
  <2>3. f[i - 1] = EndOf(l[(first + i) - 1])
    BY <1>3, <2>1
  <2>4. l[first + i].m_llPos = EndOf(l[(first + i) - 1])
    BY <2>1 DEF OnePieceList
  <2>5. f[i] = EndOf(l[first + i])
    <3> HIDE DEF f, P
    <3> QED BY <1>1, <2>1, <2>2, <2>3, <2>4
  <2> QED BY <2>1, <2>5
<1>4. \A i \in 0..n : f[i] \in P[i]
  <2> HIDE DEF f, P, n
  <2> QED BY <1>0, <1>2, <1>3, LoopStays
<1>5. n \in 0..n /\ f[n] = r[Len(l)] /\ P[n] = {EndOf(l[Len(l)])}
  BY <1>0
<1>6. r[Len(l)] \in {EndOf(l[Len(l)])}
  BY <1>4, <1>5
<1> QED BY <1>6 DEF r

LEMMA PieceBuffSize ==
  ASSUME NEW m \in Memory, m.m_lstFull \in OnePieceList, NEW p \in Nat
  PROVE  GetBuffSize(m, p) = IF m.m_llFillPos = p \/ Holders(m, p) = {} THEN 0
                             ELSE EndOf(m.m_lstFull[Len(m.m_lstFull)]) - p
<1>1. CASE m.m_llFillPos = p \/ Holders(m, p) = {}
  BY <1>1, GetBuffSizeIs
<1>2. CASE ~(m.m_llFillPos = p \/ Holders(m, p) = {})
  <2>1. FirstOf(Holders(m, p)) \in 1..Len(m.m_lstFull)
    BY <1>2, HoldersType
  <2>2. Reached(m.m_lstFull, FirstOf(Holders(m, p)))[Len(m.m_lstFull)]
          = EndOf(m.m_lstFull[Len(m.m_lstFull)])
    BY <2>1, PieceReach
  <2> QED BY <1>2, <2>2, GetBuffSizeIs
<1> QED BY <1>1, <1>2

(* A seek to what is in memory keeps everything. *)
LEMMA PieceKept ==
  ASSUME NEW l \in OnePieceList, NEW h \in 1..Len(l), NEW p
  PROVE  Kept(l, h) = l /\ Gaps(l, p) = {}
<1>0. Len(l) \in Nat
  BY PieceTypes
<1>1. \A k \in 1..Len(l) : k > 1 => l[k].m_llPos = EndOf(l[k - 1])
  BY DEF OnePieceList
<1>2. 1 \in Joined(l, h)
  <2>1. ASSUME NEW j \in 1..(h - 1) PROVE EndOf(l[j]) = l[j + 1].m_llPos
    <3>1. j + 1 \in 1..Len(l) /\ j + 1 > 1 /\ (j + 1) - 1 = j
      BY <1>0
    <3> QED BY <1>1, <3>1
  <2>2. 1 \in 1..h
    BY <1>0
  <2> QED BY <2>1, <2>2 DEF Joined
<1>3. Joined(l, h) \subseteq Nat
  BY <1>0 DEF Joined
<1>4. FirstOf(Joined(l, h)) <= 2
  <2>1. FirstOf(Joined(l, h)) \in Nat /\ FirstOf(Joined(l, h)) <= 1
    BY <1>2, <1>3, FirstOfNat
  <2> QED BY <2>1
<1>5. ASSUME NEW k \in 2..Len(l) PROVE EndOf(l[k - 1]) = l[k].m_llPos
  <2>1. k \in 1..Len(l) /\ k > 1
    BY <1>0
  <2> QED BY <1>1, <2>1
<1> QED BY <1>4, <1>5 DEF Kept, Gaps

LEMMA PieceSetPos ==
  ASSUME NEW m \in Memory, m.m_lstFull \in OnePieceList, NEW p \in Nat
  PROVE  /\ Holders(m, p) = {} => SetPos(m, p).m_lstFull = <<>> /\ GetBuffSize(SetPos(m, p), p) = 0
         /\ Holders(m, p) # {} =>
              /\ SetPos(m, p).m_lstFull = m.m_lstFull /\ m.m_lstFull # <<>>
              /\ p + GetBuffSize(SetPos(m, p), p) = EndOf(m.m_lstFull[Len(m.m_lstFull)])
<1> DEFINE l == m.m_lstFull
           s == SetPos(m, p)
<1>0. s \in Memory
  <2>1. AnyBlock \subseteq AnyBlock /\ l \in Seq(AnyBlock)
    BY MemoryTypes
  <2> HIDE DEF s
  <2> QED BY <2>1, SetPosType DEF s
<1>1. CASE Holders(m, p) = {}
  <2>1. s = [[Reset(m) EXCEPT !.m_llFillPos = p] EXCEPT !.m_llPosAudio = p, !.m_llPosVideo = p]
    BY <1>1, SetPosIs
  <2>2. s.m_lstFull = <<>>
    <3>1. Reset(m) \in Memory /\ Reset(m).m_lstFull = <<>>
      BY ResetType
    <3> HIDE DEF s
    <3> QED BY <2>1, <3>1 DEF Memory
  <2>3. Holders(s, p) = {}
    BY <2>2 DEF Holders
  <2>4. GetBuffSize(s, p) = 0
    BY <2>3, GetBuffSizeIs
  <2> QED BY <1>1, <2>2, <2>4
<1>2. CASE Holders(m, p) # {}
  <2> DEFINE h == FirstOf(Holders(m, p))
             e == EndOf(l[Len(l)])
  <2>1. h \in 1..Len(l) /\ Holds(l[h], p) /\ Len(l) \in Nat
    BY <1>2, HoldersType, MemoryTypes
  <2>2. Kept(l, h) = l /\ Gaps(l, p) = {}
    BY <2>1, PieceKept
  <2>3. l # <<>>
    <3>1. Len(l) # 0
      BY <2>1
    <3> QED BY <3>1, EmptySeq
  <2>4. e \in Nat /\ p < e
    <3>1. EndOf(l[h]) \in Nat /\ e \in Nat /\ EndOf(l[h]) <= e
      <4>1. Len(l) \in 1..Len(l)
        BY <2>1
      <4> HIDE DEF h
      <4> QED BY <2>1, <4>1, PieceTypes, PieceOrder
    <3>2. p < EndOf(l[h])
      BY <2>1 DEF Holds
    <3> HIDE DEF e, h, l
    <3> QED BY <3>1, <3>2
  <2> DEFINE free == m.m_lstFree + Len(l) - Len(l)
  <2>5. s = [[m EXCEPT !.m_lstFull = l, !.m_llFillPos = e, !.m_lstFree = free]
               EXCEPT !.m_llPosAudio = p, !.m_llPosVideo = p]
    <3>1. /\ Gaps(Kept(l, h), p) = {}
          /\ EndOf(Last(Kept(l, h))) = e
      BY <2>2 DEF Last
    <3> QED BY <1>2, <2>2, <3>1, SetPosIs
  <2>6. s.m_lstFull = l /\ s.m_llFillPos = e
    <3> HIDE DEF s, e, free
    <3> QED BY <2>5 DEF Memory
  <2>7. Holders(s, p) # {}
    <3>1. Holders(s, p) = Holders(m, p)
      BY <2>6 DEF Holders
    <3> QED BY <1>2, <3>1
  <2> HIDE DEF s, h
  <2>8. GetBuffSize(s, p) = e - p
    <3>1. ~(s.m_llFillPos = p)
      <4> HIDE DEF e
      <4> QED BY <2>4, <2>6
    <3>2. s.m_lstFull \in OnePieceList
      BY <2>6
    <3>3. GetBuffSize(s, p) = EndOf(s.m_lstFull[Len(s.m_lstFull)]) - p
      BY <1>0, <2>7, <3>1, <3>2, PieceBuffSize
    <3> QED BY <2>6, <3>3
  <2>9. p + GetBuffSize(s, p) = e
    <3> HIDE DEF e
    <3> QED BY <2>4, <2>8
  <2> QED BY <1>2, <2>3, <2>6, <2>9 DEF s
<1> QED BY <1>1, <1>2
(* A position of the piece is in a block of it. *)
LEMMA PieceHolder ==
  ASSUME NEW l \in OnePieceList, NEW first \in 1..Len(l), NEW q \in Nat,
         l[first].m_llPos <= q, q < EndOf(l[Len(l)])
  PROVE  \E k \in first..Len(l) : Holds(l[k], q)
<1> DEFINE S == {k \in 0..Len(l) : k \in first..Len(l) /\ l[k].m_llPos <= q}
<1>0. /\ Len(l) \in Nat /\ first \in Nat
      /\ \A k \in 1..Len(l) : l[k].m_llPos \in Nat
  BY PieceTypes
<1>1. S \subseteq 0..Len(l) /\ S # {}
  <2>1. first \in 0..Len(l) /\ first \in first..Len(l)
    BY <1>0
  <2>2. first \in S
    BY <2>1, Zenon
  <2> QED BY <2>2, Zenon
<1>2. PICK k \in S : \A y \in S : k >= y
  <2> HIDE DEF S
  <2> QED BY <1>0, <1>1, GreatestPosition
<1>3. k \in first..Len(l) /\ l[k].m_llPos <= q
  BY <1>2, Zenon
<1>4. CASE k = Len(l)
  BY <1>3, <1>4 DEF Holds
<1>5. CASE k # Len(l)
  <2>1. /\ k + 1 \in first..Len(l) /\ k + 1 \in 1..Len(l) /\ k + 1 \in 0..Len(l)
        /\ k + 1 > 1 /\ (k + 1) - 1 = k /\ ~(k >= k + 1)
    BY <1>0, <1>3, <1>5
  <2>2. l[k + 1].m_llPos = EndOf(l[k])
    BY <2>1 DEF OnePieceList
  <2>3. ~(l[k + 1].m_llPos <= q)
    <3>1. ASSUME l[k + 1].m_llPos <= q PROVE FALSE
      <4>1. k + 1 \in S
        BY <2>1, <3>1, Zenon
      <4> HIDE DEF S
      <4> QED BY <1>2, <2>1, <4>1
    <3> QED BY <3>1
  <2>4. l[k + 1].m_llPos \in Nat
    BY <1>0, <2>1
  <2>5. q < EndOf(l[k])
    BY <2>2, <2>3, <2>4
  <2> QED BY <1>3, <2>5 DEF Holds
<1> QED BY <1>4, <1>5

(* A read of one piece gives the bytes of the file, to the end of the piece. *)
LEMMA PieceCopied ==
  ASSUME NEW m \in Memory, m.m_lstFull \in OnePieceList, NEW p \in Nat, NEW n \in Nat
  PROVE  Copied(m, p, n) =
           IF Holders(m, p) = {} THEN <<>>
           ELSE Bytes(p, Min2(n, EndOf(m.m_lstFull[Len(m.m_lstFull)]) - p))
<1> DEFINE l     == m.m_lstFull
           first == FirstOf(Holders(m, p))
           run   == {k \in first..Len(l) : \A j \in (first + 1)..k : l[j].m_llPos = EndOf(l[j - 1])}
           e     == EndOf(l[first + Cardinality(run) - 1])
           c     == Min2(n, e - p)
           Byte(q) == LET b == l[FirstOf({k \in run : Holds(l[k], q)})] IN b.data[q - b.m_llPos + 1]
<1>1. CASE Holders(m, p) = {}
  BY <1>1 DEF Copied
<1>2. CASE Holders(m, p) # {}
  <2>1. /\ first \in 1..Len(l) /\ Len(l) \in Nat /\ first \in Nat /\ l \in OnePieceList
        /\ l[first].m_llPos <= p /\ p < EndOf(l[first])
    BY <1>2, HoldersType, MemoryTypes DEF Holds
  <2>2. Copied(m, p, n) = [j \in 1..c |-> Byte(p + j - 1)]
    BY <1>2, Zenon DEF Copied
  <2> HIDE DEF first, l
  <2>3. run = first..Len(l)
    <3>1. ASSUME NEW k \in first..Len(l), NEW j \in (first + 1)..k
          PROVE  l[j].m_llPos = EndOf(l[j - 1])
      <4>1. j \in 1..Len(l) /\ j > 1
        BY <2>1
      <4> QED BY <2>1, <4>1 DEF OnePieceList
    <3> QED BY <3>1
  <2>4. e = EndOf(l[Len(l)])
    <3>1. Cardinality(first..Len(l)) = Len(l) - first + 1
      BY <2>1, FS_Interval
    <3>2. first + Cardinality(run) - 1 = Len(l)
      <4> HIDE DEF run
      <4>1. Cardinality(run) = Len(l) - first + 1
        BY <2>3, <3>1
      <4> QED BY <2>1, <4>1
    <3> QED BY <3>2
  <2> HIDE DEF run, e
  <2>5. e \in Nat /\ p < e
    <3>1. Len(l) \in 1..Len(l)
      BY <2>1
    <3>2. EndOf(l[first]) \in Nat /\ EndOf(l[first]) <= e /\ e \in Nat
      BY <2>1, <2>4, <3>1, PieceTypes, PieceOrder
    <3> QED BY <2>1, <3>2
  <2>6. c <= n /\ p + c <= e /\ c \in Nat
    BY <2>5 DEF Min2
  <2>7. ASSUME NEW q \in Nat, p <= q, q < e PROVE Byte(q) = q
    <3> DEFINE H == {k \in run : Holds(l[k], q)}
               k == FirstOf(H)
               b == l[k]
    <3>1. l[first].m_llPos <= q
      <4>1. l[first].m_llPos \in Nat
        BY <2>1, PieceTypes
      <4> QED BY <2>1, <2>7, <4>1
    <3>2. H # {}
      <4>1. q < EndOf(l[Len(l)])
        BY <2>4, <2>7
      <4>2. \E i \in first..Len(l) : Holds(l[i], q)
        BY <2>1, <3>1, <4>1, PieceHolder
      <4> QED BY <2>3, <4>2
    <3>3. H \subseteq 1..Len(l) /\ H \subseteq Nat
      BY <2>1, <2>3
    <3>4. k \in H
      <4> HIDE DEF H
      <4> QED BY <3>2, <3>3, FirstOfNat
    <3>5. k \in 1..Len(l) /\ Holds(b, q)
      BY <3>3, <3>4
    <3> HIDE DEF k
    <3>6. /\ b.m_llPos \in Nat /\ EndOf(b) = b.m_llPos + Len(b.data) /\ Len(b.data) \in Nat
          /\ b.m_llPos <= q /\ q < EndOf(b)
      <4>1. Len(b.data) \in 1..MEM_BUFF_SIZE /\ MEM_BUFF_SIZE \in Nat
        BY <2>1, <3>5, PieceTypes, MemAssumption
      <4> QED BY <2>1, <3>5, <4>1, PieceTypes DEF Holds
    <3>7. Exact(b)
      BY <2>1, <3>5 DEF OnePieceList
    <3> HIDE DEF b
    <3>8. q - b.m_llPos + 1 \in 1..Len(b.data) /\ b.m_llPos + (q - b.m_llPos + 1) - 1 = q
      BY <2>7, <3>6
    <3>9. b.data[q - b.m_llPos + 1] = q
      BY <3>7, <3>8 DEF Exact
    <3> QED BY <3>9 DEF b, k
  <2>8. \A j \in 1..c : Byte(p + j - 1) = p + j - 1
    <3> HIDE DEF Byte, c
    <3> TAKE j \in 1..c
    <3>1. p + j - 1 \in Nat /\ p <= p + j - 1 /\ p + j - 1 < e
      BY <2>5, <2>6
    <3> QED BY <2>7, <3>1
  <2>9. Copied(m, p, n) = Bytes(p, c)
    <3> HIDE DEF Byte, c
    <3> QED BY <2>2, <2>8 DEF Bytes
  <2> QED BY <1>2, <2>4, <2>9 DEF l
<1> QED BY <1>1, <1>2
-----------------------------------------------------------------------------
(* Without a cache: the memory is one piece of the file that ends where the *)
(* download goes on, and there is none before the first connection.         *)
MemoryIsPiece ==
  /\ m_pMemData.m_lstFull \in OnePieceList
  /\ EndsAt(m_pMemData.m_lstFull, m_llDownPos)
  /\ ~http.made => m_pMemData.m_lstFull = <<>>

(* Read begins where m_llReadPos is, and what a call returns is of the file. *)
AnswersFile ==
  /\ rd.pc \in {"wait", "copy"} => rd.pos = m_llReadPos
  /\ rd.pc = "done" =>
       /\ rd.out = Bytes(rd.pos, Len(rd.out))
       /\ rd.op = "ReadAt" /\ rd.rc = "none" => Len(rd.out) \in {0, rd.n}

(* Nothing is copied apart. *)
NoCopies == m_pHeadBuff = <<>> /\ m_pMoovBuff = <<>>

FileInv == m_llHeadSize = 0 => MemoryIsPiece /\ AnswersFile /\ NoCopies

LEMMA CacheKept ==
  ASSUME Next
  PROVE  cache' = cache
  BY DEF cache, Next, Calls, Call, Reader, ReadAt, OpenURL, ReadAtMem, SetPosBegin, SetPosHttp, SetPosMem,
         SetPosConnect, Read, ReadGivesUp, ReadGoesOn, ReadCopy, Return, Download, BeginReconnect,
         ReconnectHttp, ReconnectEnds, BeginRead, NetData, NetNothing, Fill, Lost, ResetMem, Closer,
         CloserGoesOn, BeginStop, Interrupt, StopThread, Join, BeginClose, CloseAll

(* Nothing is in memory. *)
LEMMA EmptyIsPiece ==
  ASSUME m_pMemData'.m_lstFull = <<>>
  PROVE  MemoryIsPiece'
<1>1. <<>> \in OnePieceList
  <2>1. <<>> \in Seq(AnyBlock) /\ 1..Len(<<>>) = {}
    OBVIOUS
  <2> QED BY <2>1 DEF OnePieceList
<1> QED BY <1>1 DEF MemoryIsPiece, EndsAt

LEMMA PieceIsKept ==
  ASSUME MemoryIsPiece, m_pMemData'.m_lstFull = m_pMemData.m_lstFull,
         m_llDownPos' = m_llDownPos \/ m_pMemData.m_lstFull = <<>>,
         http.made => http'.made \/ m_pMemData.m_lstFull = <<>>
  PROVE  MemoryIsPiece'
<1> USE DEF MemoryIsPiece
<1> QED BY DEF EndsAt

LEMMA EmptyOrKept ==
  ASSUME NEW p \in Nat, m_pMemData \in Memory, m_llHeadSize = 0, MemoryIsPiece
  PROVE  LET s == SetPos(m_pMemData, p) IN
         \/ s.m_lstFull = <<>>
         \/ s.m_lstFull = m_pMemData.m_lstFull /\ p + GetBuffSize(s, p) = m_llDownPos
<1>1. m_pMemData.m_lstFull \in OnePieceList
  BY DEF MemoryIsPiece
<1>2. CASE Holders(m_pMemData, p) = {}
  BY <1>1, <1>2, PieceSetPos
<1>3. CASE Holders(m_pMemData, p) # {}
  <2>1. /\ SetPos(m_pMemData, p).m_lstFull = m_pMemData.m_lstFull /\ m_pMemData.m_lstFull # <<>>
        /\ p + GetBuffSize(SetPos(m_pMemData, p), p)
             = EndOf(m_pMemData.m_lstFull[Len(m_pMemData.m_lstFull)])
    BY <1>1, <1>3, PieceSetPos
  <2> QED BY <2>1 DEF MemoryIsPiece, EndsAt
<1> QED BY <1>2, <1>3

LEMMA PieceStep ==
  ASSUME IInv, TypeInv, m_llHeadSize = 0, MemoryIsPiece, Next
  PROVE  MemoryIsPiece'
<1> DEFINE m == m_pMemData
<1>0. /\ m \in Memory /\ m_llDownPos \in Nat /\ rd.pos \in Nat /\ Shape
      /\ m.m_lstFull \in OnePieceList /\ EndsAt(m.m_lstFull, m_llDownPos)
      /\ (~http.made => m.m_lstFull = <<>>)
  BY FileAssumption, SizedMemoryIs
     DEF IInv, TypeInv, ReaderTypes, PositionTypes, MemoryIsPiece
<1>1. CASE m_pMemData' = Reset(m)
  <2>1. m_pMemData'.m_lstFull = <<>>
    BY <1>1 DEF Reset
  <2> QED BY <2>1, EmptyIsPiece
<1>2. CASE SetPosMem
  <2>1. http'.made = http.made
    BY <1>0, <1>2 DEF SetPosMem, Shape
  <2>2. CASE m_pMemData' = m /\ m_llDownPos' = m_llDownPos
    BY <2>1, <2>2, PieceIsKept
  <2>3. CASE /\ m_pMemData' = SetPos(m, rd.pos)
             /\ m_llDownPos' \in {m_llDownPos, rd.pos + GetBuffSize(SetPos(m, rd.pos), rd.pos)}
    <3>1. CASE SetPos(m, rd.pos).m_lstFull = <<>>
      BY <2>3, <3>1, EmptyIsPiece
    <3>2. CASE /\ SetPos(m, rd.pos).m_lstFull = m.m_lstFull
               /\ rd.pos + GetBuffSize(SetPos(m, rd.pos), rd.pos) = m_llDownPos
      <4>1. m_pMemData'.m_lstFull = m.m_lstFull /\ m_llDownPos' = m_llDownPos
        BY <2>3, <3>2
      <4> QED BY <2>1, <4>1, PieceIsKept
    <3> QED BY <1>0, <3>1, <3>2, EmptyOrKept
  <2>4. \/ m_pMemData' = m /\ m_llDownPos' = m_llDownPos
        \/ /\ m_pMemData' = SetPos(m, rd.pos)
           /\ m_llDownPos' \in {m_llDownPos, rd.pos + GetBuffSize(SetPos(m, rd.pos), rd.pos)}
    <3>1. CASE m_llReadPos = rd.pos
      BY <1>2, <3>1, Zenon DEF SetPosMem
    <3>2. CASE m_llReadPos # rd.pos
      BY <1>2, <3>2, Zenon DEF SetPosMem
    <3> QED BY <3>1, <3>2
  <2> QED BY <2>2, <2>3, <2>4
<1>3. CASE Fill
  <2>1. CASE dl.kind = "data"
    <3>1. /\ m_pMemData' = FillBuff(m, m_llDownPos, dl.data) /\ http.made
          /\ m_llDownPos' = m_llDownPos + Len(dl.data) /\ http' = http
      BY <1>3, <2>1 DEF Fill, TypeInv, DownloadTypes
    <3>2. PICK p \in Nat, n \in 1..MEM_BUFF_SIZE : dl.data = Bytes(p, n)
      BY <2>1 DEF TypeInv, DownloadTypes
    <3>3. n \in Nat /\ 1 \in 1..n
      BY MemAssumption
    <3>4. Len(Bytes(p, n)) = n /\ Bytes(p, n)[1] = p + 1 - 1
      BY <3>3, BytesType
    <3>5. p = m_llDownPos
      <4>1. dl.data[1] = m_llDownPos
        BY <2>1 DEF IInv, DownloadInStep
      <4> QED BY <1>0, <3>2, <3>4, <4>1
    <3>6. /\ FillBuff(m, p, Bytes(p, n)).m_lstFull \in OnePieceList
          /\ EndsAt(FillBuff(m, p, Bytes(p, n)).m_lstFull, p + n)
      BY <1>0, <3>5, PieceFill
    <3>7. m_pMemData' = FillBuff(m, p, Bytes(p, n)) /\ m_llDownPos' = p + n /\ http'.made
      BY <3>1, <3>2, <3>4, <3>5
    <3> QED BY <3>6, <3>7 DEF MemoryIsPiece
  <2>2. CASE dl.kind # "data"
    <3>1. m_pMemData' = m /\ m_llDownPos' = m_llDownPos /\ http' = http
      BY <1>3, <2>2 DEF Fill
    <3> QED BY <3>1, PieceIsKept
  <2> QED BY <2>1, <2>2
<1>4. CASE ~SetPosMem /\ ~Fill /\ m_pMemData' # Reset(m)
  <2>1. m_pMemData'.m_lstFull = m.m_lstFull
    <3>1. CASE m_pMemData' = m
      BY <3>1
    <3>2. CASE \E pos \in {m_llReadPos'} : m_pMemData' = AfterRead(m, pos, rd.flag)
      <4>1. m_llReadPos' \in Nat
        BY ReadPosStep, FileAssumption DEF TypeInv
      <4> QED BY <1>0, <3>2, <4>1, AfterReadType
    <3> QED BY <1>4, <3>1, <3>2, MemoryMoves
  <2>2. m_llDownPos' = m_llDownPos \/ m.m_lstFull = <<>>
    <3>1. ~ReconnectHttp
      BY <1>4 DEF ReconnectHttp
    <3> QED BY <1>0, <1>4, <3>1, DownPosMoves
  <2>3. http.made => http'.made
    <3>1. ~CloseAll
      BY <1>4 DEF CloseAll
    <3> QED BY <1>0, <3>1, HttpMade
  <2> QED BY <2>1, <2>2, <2>3, PieceIsKept
<1> QED BY <1>1, <1>2, <1>3, <1>4
(* A block that holds a position ends behind it, and the last one too. *)
LEMMA PieceBehind ==
  ASSUME NEW m \in Memory, m.m_lstFull \in OnePieceList, NEW p \in Nat, Holders(m, p) # {}
  PROVE  /\ EndOf(m.m_lstFull[Len(m.m_lstFull)]) \in Nat
         /\ p < EndOf(m.m_lstFull[Len(m.m_lstFull)])
<1> DEFINE l == m.m_lstFull
           h == FirstOf(Holders(m, p))
           e == EndOf(l[Len(l)])
<1>1. h \in 1..Len(l) /\ Holds(l[h], p) /\ Len(l) \in Nat
  BY HoldersType, MemoryTypes
<1>2. Len(l) \in 1..Len(l)
  BY <1>1
<1> HIDE DEF h
<1>3. EndOf(l[h]) \in Nat /\ e \in Nat /\ EndOf(l[h]) <= e
  BY <1>1, <1>2, PieceTypes, PieceOrder
<1>4. p < EndOf(l[h])
  BY <1>1 DEF Holds
<1> HIDE DEF e, l
<1>5. p < e
  BY <1>3, <1>4
<1> QED BY <1>3, <1>5 DEF e, l

LEMMA NoBytes ==
  ASSUME NEW p \in Nat
  PROVE  Len(<<>>) = 0 /\ <<>> = Bytes(p, 0)
<1>1. 0 \in Nat /\ Len(<<>>) = 0
  OBVIOUS
<1> QED BY <1>1, BytesType

(* What a read of one piece gives; a full read gives all or nothing. *)
LEMMA PieceRead ==
  ASSUME NEW m \in Memory, m.m_lstFull \in OnePieceList, NEW p \in Nat, NEW n \in Nat,
         NEW full \in BOOLEAN
  PROVE  /\ ReadBuff(m, p, n, full) = Bytes(p, Len(ReadBuff(m, p, n, full)))
         /\ full => Len(ReadBuff(m, p, n, full)) \in {0, n}
<1> DEFINE e   == EndOf(m.m_lstFull[Len(m.m_lstFull)])
           out == ReadBuff(m, p, n, full)
<1>1. CASE out = <<>>
  BY <1>1, NoBytes
<1>2. CASE out # <<>>
  <2>1. out = Copied(m, p, n) /\ ~(full /\ GetBuffSize(m, p) < n)
    BY <1>2 DEF ReadBuff
  <2>2. Holders(m, p) # {} /\ out = Bytes(p, Min2(n, e - p))
    BY <1>2, <2>1, PieceCopied
  <2>3. e \in Nat /\ p < e
    BY <2>2, PieceBehind
  <2>4. GetBuffSize(m, p) = IF m.m_llFillPos = p THEN 0 ELSE e - p
    BY <2>2, PieceBuffSize
  <2> HIDE DEF e, out
  <2> DEFINE c == Min2(n, e - p)
  <2>5. c \in Nat /\ (full => c = n)
    <3>1. CASE full
      <4>1. ~(GetBuffSize(m, p) < n)
        BY <2>1, <3>1
      <4>2. c = n
        <5>1. CASE m.m_llFillPos = p
          <6>1. n = 0
            BY <2>4, <4>1, <5>1
          <6> QED BY <2>3, <6>1 DEF Min2
        <5>2. CASE m.m_llFillPos # p
          <6>1. n <= e - p
            BY <2>3, <2>4, <4>1, <5>2
          <6> QED BY <6>1 DEF Min2
        <5> QED BY <5>1, <5>2
      <4> QED BY <4>2
    <3>2. CASE ~full
      <4>1. c \in Nat
        BY <2>3 DEF Min2
      <4> QED BY <3>2, <4>1
    <3> QED BY <3>1, <3>2
  <2> HIDE DEF c
  <2>6. out = Bytes(p, c) /\ Len(out) = c
    <3>1. out = Bytes(p, c)
      BY <2>2 DEF c
    <3> QED BY <2>5, <3>1, BytesType
  <2> QED BY <2>5, <2>6 DEF out
<1> QED BY <1>1, <1>2

LEMMA AnswersStep ==
  ASSUME IInv, TypeInv, m_llHeadSize = 0, MemoryIsPiece, AnswersFile, NoCopies, Next
  PROVE  AnswersFile'
<1> USE DEF Go, Reply, file
<1>0. /\ DOMAIN rd = {"pc", "op", "pos", "n", "flag", "rc", "out"}
      /\ rd.pos \in Nat /\ rd.n \in Nat /\ m_llReadPos \in Nat
      /\ m_pMemData \in Memory /\ m_pMemData.m_lstFull \in OnePieceList
  BY FileAssumption, SizedMemoryIs DEF TypeInv, ReaderTypes, PositionTypes, MemoryIsPiece
<1>1. ASSUME rd'.pc \notin {"wait", "copy", "done"} PROVE AnswersFile'
  BY <1>1 DEF AnswersFile
<1>2. ASSUME NEW rc, rd' = [rd EXCEPT !.pc = "done", !.rc = rc, !.out = <<>>] PROVE AnswersFile'
  <2>1. rd'.pc = "done" /\ rd'.out = <<>> /\ rd'.pos = rd.pos
    BY <1>0, <1>2
  <2>2. rd'.out = Bytes(rd'.pos, Len(rd'.out)) /\ Len(rd'.out) = 0
    BY <1>0, <2>1, NoBytes
  <2> QED BY <2>1, <2>2 DEF AnswersFile
<1>3. CASE Calls
  <2>1. rd'.pc \in {"ReadAt", "Read", "SetPos"}
    BY <1>3 DEF Calls, Call, NoCall
  <2> QED BY <1>1, <2>1
<1>4. CASE ReadAt
  <2>1. ~InHead /\ ~InMoov
    BY DEF NoCopies, InHead, InMoov
  <2>2. CASE rd' = [rd EXCEPT !.pc = "done", !.rc = "finish", !.out = <<>>]
    BY <1>2, <2>2
  <2>3. CASE rd'.pc \in {"rangeMem", "openURL"}
    BY <1>1, <2>3
  <2>4. rd'.pc \in {"rangeMem", "openURL"}
        \/ rd' = [rd EXCEPT !.pc = "done", !.rc = "finish", !.out = <<>>]
    BY <1>0, <1>4, <2>1 DEF ReadAt
  <2> QED BY <2>2, <2>3, <2>4
<1>5. CASE OpenURL \/ ReadAtMem \/ SetPosBegin \/ SetPosHttp
  <2>1. rd'.pc \in {"rangeMem", "seekHttp", "Read", "seekMem"}
    BY <1>0, <1>5 DEF OpenURL, ReadAtMem, SetPosBegin, SetPosHttp
  <2> QED BY <1>1, <2>1
<1>6. CASE SetPosMem \/ SetPosConnect
  <2>1. CASE rd' = [rd EXCEPT !.pc = "done", !.rc = "none", !.out = <<>>]
    BY <1>2, <2>1
  <2>2. CASE rd'.pc \in {"Read", "seekConnect"}
    BY <1>1, <2>2
  <2>3. SetPosEnds => rd' = [rd EXCEPT !.pc = "done", !.rc = "none", !.out = <<>>] \/ rd'.pc = "Read"
    BY <1>0 DEF SetPosEnds
  <2>4. Go("seekConnect") => rd'.pc = "seekConnect"
    BY <1>0
  <2>5. SetPosEnds \/ Go("seekConnect")
    BY <1>6 DEF SetPosMem, SetPosConnect
  <2> QED BY <2>1, <2>2, <2>3, <2>4, <2>5
<1>7. CASE Read
  <2>1. CASE rd' = [rd EXCEPT !.pc = "done", !.rc = "finish", !.out = <<>>]
    BY <1>2, <2>1
  <2>2. CASE rd'.pos = m_llReadPos /\ rd'.pc \in {"wait", "copy"}
    <3>1. m_llReadPos' = m_llReadPos
      BY <1>7 DEF Read
    <3> QED BY <2>2, <3>1 DEF AnswersFile
  <2>3. rd' = [rd EXCEPT !.pc = "done", !.rc = "finish", !.out = <<>>]
        \/ (rd'.pos = m_llReadPos /\ rd'.pc \in {"wait", "copy"})
    BY <1>0, <1>7 DEF Read
  <2> QED BY <2>1, <2>2, <2>3
<1>8. CASE ReadGivesUp
  <2>1. \E rc \in {"finish", "status", "disconnected"} :
          rd' = [rd EXCEPT !.pc = "done", !.rc = rc, !.out = <<>>]
    BY <1>8 DEF ReadGivesUp
  <2> QED BY <1>2, <2>1
<1>9. CASE ReadGoesOn
  <2>1. rd.pc = "wait" /\ rd'.pc = "copy" /\ rd'.pos = rd.pos /\ m_llReadPos' = m_llReadPos
    BY <1>0, <1>9 DEF ReadGoesOn
  <2> QED BY <2>1 DEF AnswersFile
<1>10. CASE ReadCopy
  <2> DEFINE full == rd.op # "Read"
             out  == ReadBuff(m_pMemData, m_llReadPos, rd.n, full)
  <2>1. /\ rd.pc = "copy" /\ rd'.pc = "done" /\ rd'.out = out
        /\ rd'.pos = rd.pos /\ rd'.n = rd.n /\ rd'.op = rd.op
    BY <1>0, <1>10 DEF ReadCopy
  <2>2. full \in BOOLEAN /\ (rd.op = "ReadAt" => full)
    OBVIOUS
  <2>3. rd.pos = m_llReadPos
    BY <2>1 DEF AnswersFile
  <2> HIDE DEF full
  <2>4. out = Bytes(m_llReadPos, Len(out)) /\ (full => Len(out) \in {0, rd.n})
    BY <1>0, <2>2, PieceRead
  <2> HIDE DEF out
  <2> QED BY <2>1, <2>2, <2>3, <2>4 DEF AnswersFile
<1>11. CASE Return
  <2>1. rd'.pc = "idle"
    BY <1>11 DEF Return, NoCall
  <2> QED BY <1>1, <2>1
<1>12. CASE Download \/ Closer
  <2>1. rd' = rd /\ m_llReadPos' = m_llReadPos
    BY <1>12 DEF Download, BeginReconnect, ReconnectHttp, ReconnectEnds, BeginRead, NetData, NetNothing,
                 Fill, Lost, ResetMem, Closer, CloserGoesOn, BeginStop, Interrupt, StopThread, Join,
                 BeginClose, CloseAll
  <2> QED BY <2>1 DEF AnswersFile
<1> QED BY <1>3, <1>4, <1>5, <1>6, <1>7, <1>8, <1>9, <1>10, <1>11, <1>12 DEF Next, Reader

(* A cache with data has a head. *)
LEMMA HeadOfData ==
  ASSUME NEW c \in Cache, HeadSize(c) = 0
  PROVE  c = <<>>
<1> SUFFICES ASSUME c # <<>> PROVE FALSE
  OBVIOUS
<1> DEFINE gaps == {k \in 2..Len(c) : c[k].m_llPos # EndOf(c[k - 1])}
<1>1. Len(c) \in Nat /\ Len(c) \in 1..Len(c) /\ DOMAIN c = 1..Len(c)
  BY CacheTypes, EmptySeq, LenProperties
<1>2. \A k \in 1..Len(c) : EndOf(c[k]) # 0
  <2> TAKE k \in 1..Len(c)
  <2>1. Len(c[k].data) \in 1..MEM_BUFF_SIZE
    BY <1>1, CacheAssumption, Zenon
  <2>2. c[k].m_llPos \in Nat /\ Len(c[k].data) \in Nat /\ Len(c[k].data) # 0
    BY <2>1, CacheTypes, MemAssumption
  <2> QED BY <2>2 DEF EndOf
<1>3. CASE gaps = {}
  <2>1. HeadSize(c) = EndOf(c[Len(c)])
    BY <1>3 DEF HeadSize, Last
  <2> QED BY <1>1, <1>2, <2>1
<1>4. CASE gaps # {}
  <2>1. HeadSize(c) = EndOf(c[FirstOf(gaps) - 1])
    BY <1>4 DEF HeadSize
  <2>2. FirstOf(gaps) \in gaps
    <3>1. gaps \subseteq Nat
      OBVIOUS
    <3> HIDE DEF gaps
    <3> QED BY <1>4, <3>1, FirstOfNat
  <2>3. FirstOf(gaps) - 1 \in 1..Len(c)
    BY <1>1, <2>2
  <2> HIDE DEF gaps
  <2> QED BY <1>2, <2>1, <2>3
<1> QED BY <1>3, <1>4

LEMMA InitFileInv ==
  ASSUME Init, m_llHeadSize = 0
  PROVE  MemoryIsPiece /\ AnswersFile /\ NoCopies
<1>1. m_pMemData = EmptyMem /\ NoCopies
  <2>1. CASE OpenFresh
    BY <2>1 DEF OpenFresh, NoCopies
  <2>2. ASSUME NEW c \in Cache, OpenCached(c) PROVE m_pMemData = EmptyMem /\ NoCopies
    <3>1. /\ HeadSize(c) = 0 /\ m_pMemData = CopyMem(c)
          /\ m_pHeadBuff = HeadBuff(c) /\ m_pMoovBuff = MoovBuff(c)
      BY <2>2 DEF OpenCached
    <3>2. c = <<>>
      BY <3>1, HeadOfData
    <3> QED BY <3>1, <3>2, CopyMemType, NothingCopied DEF NoCopies
  <2> QED BY <2>1, <2>2 DEF Init
<1>2. m_pMemData.m_lstFull = <<>>
  BY <1>1, EmptyMemType
<1>3. <<>> \in OnePieceList
  <2>1. <<>> \in Seq(AnyBlock) /\ 1..Len(<<>>) = {}
    OBVIOUS
  <2> QED BY <2>1 DEF OnePieceList
<1>4. rd.pc = "idle"
  BY DEF Init, NoCall
<1> QED BY <1>1, <1>2, <1>3, <1>4 DEF MemoryIsPiece, EndsAt, AnswersFile

(* What the properties say of it. *)
LEMMA FileInvGives ==
  ASSUME TypeInv, FileInv, m_llHeadSize = 0
  PROVE  ReadsGiveTheFile
<1> DEFINE l == m_pMemData.m_lstFull
<1>0. l \in OnePieceList /\ l \in Seq(AnyBlock) /\ DOMAIN l = 1..Len(l) /\ AnswersFile
  BY PieceTypes, LenProperties DEF FileInv, MemoryIsPiece
<1>1. InOnePiece(m_pMemData)
  <2>1. \A k \in 1..Len(l) : /\ Len(l[k].data) \in 1..MEM_BUFF_SIZE
                             /\ k > 1 => l[k].m_llPos = EndOf(l[k - 1])
    BY <1>0 DEF OnePieceList
  <2> QED BY <1>0, <2>1 DEF InOnePiece
<1>2. IsTheFile(m_pMemData, FileSize)
  <2>1. ASSUME NEW k \in 1..Len(l), NEW j \in DOMAIN l[k].data
        PROVE  l[k].data[j] = l[k].m_llPos + j - 1
    <3>1. Exact(l[k]) /\ l[k] \in AnyBlock
      BY <1>0, PieceTypes DEF OnePieceList
    <3>2. j \in 1..Len(l[k].data)
      BY <3>1, BlockTypes, LenProperties
    <3> QED BY <3>1, <3>2 DEF Exact
  <2> QED BY <1>0, <2>1 DEF IsTheFile
<1> QED BY <1>0, <1>1, <1>2 DEF ReadsGiveTheFile, OnePiece, AnswersFile

(* Of an IO that is opened without cached data: the memory is one piece of  *)
(* the file, each read returns the bytes of the file at its position, and a *)
(* full read that succeeds all it asked for or nothing (CMemFile.cpp:58-274,*)
(* CHTTPIO2.cpp:187-282), whatever seeks, reconnections and lost            *)
(* connections come between.                                                *)
THEOREM ReadsCorrect == Spec => [](m_llHeadSize = 0 => ReadsGiveTheFile)
<1>1. Init => IInv /\ TypeInv /\ FileInv
  BY InitIInv, InitTypeInv, InitFileInv DEF FileInv
<1>2. IInv /\ TypeInv /\ FileInv /\ [Next]_vars => IInv' /\ TypeInv' /\ FileInv'
  <2> SUFFICES ASSUME IInv, TypeInv, FileInv, [Next]_vars PROVE IInv' /\ TypeInv' /\ FileInv'
    OBVIOUS
  <2>1. IInv' /\ TypeInv'
    BY TypeInvStep, CallStep, ReaderStep, DownloadStep, CloserStep, StutterStep DEF Next
  <2>2. CASE Next
    <3>1. m_llHeadSize' = m_llHeadSize /\ (NoCopies => NoCopies')
      BY <2>2, CacheKept DEF cache, NoCopies
    <3>2. m_llHeadSize = 0 => MemoryIsPiece' /\ AnswersFile' /\ NoCopies'
      BY <2>2, <3>1, PieceStep, AnswersStep DEF FileInv
    <3> QED BY <2>1, <3>1, <3>2 DEF FileInv
  <2>3. CASE UNCHANGED vars
    BY <2>1, <2>3 DEF vars, file, cache, FileInv, MemoryIsPiece, AnswersFile, NoCopies
  <2> QED BY <2>1, <2>2, <2>3
<1>3. TypeInv /\ FileInv => (m_llHeadSize = 0 => ReadsGiveTheFile)
  BY FileInvGives
<1> QED BY <1>1, <1>2, <1>3, PTL DEF Spec
==============================================================================
