------------------------------- MODULE MemFile -------------------------------
(***************************************************************************)
(* The downloaded parts of a file in memory: CMemFile (base/CMemFile.cpp). *)
(* m_lstFull is a list of blocks of up to MEM_BUFF_SIZE bytes in the order *)
(* of their positions; m_lstFree the blocks without data, of which only    *)
(* the number matters.  A byte is the position it has in the file on the   *)
(* server, so that the content of a block says what was put where.         *)
(*                                                                         *)
(* A memory is a record and an operation a function of it: every method    *)
(* holds m_mtLock of the memory to its return.                             *)
(***************************************************************************)
EXTENDS Integers, Sequences, FiniteSets, SequencesExt

CONSTANTS MEM_BUFF_SIZE, \* bytes of a block
          KeepSpan,      \* 8 MB: the list is never recycled below it
          KeepBehind     \* 4 MB: kept before what audio and video have read

ASSUME MemAssumption == /\ MEM_BUFF_SIZE \in Nat \ {0}
                        /\ {KeepSpan, KeepBehind} \subseteq Nat

Block(pos, data) == [m_llPos |-> pos, data |-> data]
EndOf(i) == i.m_llPos + Len(i.data)
Holds(i, p) == i.m_llPos <= p /\ p < EndOf(i)
Min2(a, b) == IF a <= b THEN a ELSE b
FirstOf(s) == CHOOSE k \in s : \A j \in s : k <= j

Memory == [m_lstFull : Seq([m_llPos : Nat, data : Seq(Nat)]), m_lstFree : Nat,
           m_llFillPos : Nat, m_llPosAudio : Nat, m_llPosVideo : Nat]

(* Every block goes to the free list. *)
Reset(m) ==                                                     \* 303-321
  [m_lstFull |-> <<>>, m_lstFree |-> m.m_lstFree + Len(m.m_lstFull),
   m_llFillPos |-> 0, m_llPosAudio |-> 0, m_llPosVideo |-> 0]

GetStartPos(m) == IF m.m_lstFull = <<>> THEN 0 ELSE m.m_lstFull[1].m_llPos

Holders(m, llPos) == {k \in DOMAIN m.m_lstFull : Holds(m.m_lstFull[k], llPos)}

(* How many bytes follow llPos: from the block that holds it over every     *)
(* later block that starts at the end reached.  At the end of the last      *)
(* FillBuff there are none.                                                 *)
GetBuffSize(m, llPos) ==                                        \* 323-352
  LET full  == m.m_lstFull
      first == FirstOf(Holders(m, llPos))
      prev[k \in first..Len(full)] ==
        IF k = first \/ full[k].m_llPos = prev[k - 1] THEN EndOf(full[k]) ELSE prev[k - 1]
  IN  IF m.m_llFillPos = llPos \/ Holders(m, llPos) = {} THEN 0 ELSE prev[Len(full)] - llPos

(* The bytes a read of nSize at llPos copies: of the block that holds it,   *)
(* and of the next blocks as long as each starts where the last one ended.  *)
Copied(m, llPos, nSize) ==                                      \* 67-108
  LET full == m.m_lstFull
      first == FirstOf(Holders(m, llPos))
      run == {k \in first..Len(full) : \A j \in (first + 1)..k : full[j].m_llPos = EndOf(full[j - 1])}
      end == EndOf(full[first + Cardinality(run) - 1])
      Byte(p) == LET b == full[FirstOf({k \in run : Holds(full[k], p)})] IN b.data[p - b.m_llPos + 1]
  IN  IF Holders(m, llPos) = {} THEN <<>>
      ELSE [j \in 1..Min2(nSize, end - llPos) |-> Byte(llPos + j - 1)]

ReadBuff(m, llPos, nSize, bFull) ==                             \* 58-66
  IF bFull /\ GetBuffSize(m, llPos) < nSize THEN <<>> ELSE Copied(m, llPos, nSize)

(* What a read remembers: where audio or video have come to. *)
AfterRead(m, pos, nFlag) ==                                     \* 109-122
  CASE nFlag = "audio" -> [m EXCEPT !.m_llPosAudio = pos]
    [] nFlag = "video" -> [m EXCEPT !.m_llPosVideo = pos]
    [] OTHER -> m

(* The first block may be used again: the list is long, and both streams   *)
(* are far behind its start.                                               *)
CheckFullList(m) ==                                             \* 443-461
  LET f == m.m_lstFull IN
  /\ Len(f) > 2 /\ EndOf(Last(f)) - Head(f).m_llPos >= KeepSpan
  /\ Min2(m.m_llPosAudio, m.m_llPosVideo) - Head(f).m_llPos - KeepBehind > 0

GetItem(m) ==                                                   \* 276-301
  IF m.m_lstFree > 0 THEN [m EXCEPT !.m_lstFree = @ - 1]
  ELSE IF CheckFullList(m) THEN [m EXCEPT !.m_lstFull = Tail(@)] ELSE m

(* A block for data at llPos, sorted into the list. *)
AddItem(m, llPos, data) ==                                      \* 149-152, 160-163, 514-535
  LET g == GetItem(m)
      k == Cardinality({j \in DOMAIN g.m_lstFull : g.m_lstFull[j].m_llPos <= llPos})
  IN  [g EXCEPT !.m_lstFull = InsertAt(@, k + 1, Block(llPos, data))]

(* Data goes behind the data of the first block in whose range of          *)
(* MEM_BUFF_SIZE bytes llPos lies, and what does not fit to a new block.   *)
FillBuff(m, llPos, data) ==                                     \* 130-173
  LET range == {k \in DOMAIN m.m_lstFull :
                  m.m_lstFull[k].m_llPos <= llPos /\ llPos < m.m_lstFull[k].m_llPos + MEM_BUFF_SIZE}
      k    == FirstOf(range)
      room == Min2(Len(data), MEM_BUFF_SIZE - Len(m.m_lstFull[k].data))
      app  == [m EXCEPT !.m_lstFull[k].data = @ \o SubSeq(data, 1, room)]
      fill == IF range = {} THEN AddItem(m, llPos, data)
              ELSE IF room = Len(data) THEN app
              ELSE AddItem(app, llPos + room, SubSeq(data, room + 1, Len(data)))
  IN  [fill EXCEPT !.m_llFillPos = llPos + Len(data)]

SetPos_KeepsList(m, llPos) ==
  IF Holders(m, llPos) = {} THEN [m EXCEPT !.m_llFillPos = llPos] ELSE m

(* The blocks that hold llPos without a gap are kept, and the first block  *)
(* behind the gap.  The first block of the list is also kept if the second *)
(* is.  In the IO that caches a source (m_bOpenCache) SetPos does nothing   *)
(* (177-178): the memory here is that of the IO that plays.                 *)
SetPos(m, llPos) ==                                             \* 175-274
  LET full   == m.m_lstFull
      at     == Holders(m, llPos)
      joined(k) == \A j \in k..(FirstOf(at) - 1) : EndOf(full[j]) = full[j + 1].m_llPos
      first  == FirstOf({k \in 1..FirstOf(at) : joined(k)})
      kept   == IF first <= 2 THEN full ELSE SubSeq(full, first, Len(full))
      gaps   == {k \in 2..Len(kept) : EndOf(kept[k - 1]) \notin {llPos, kept[k].m_llPos}}
      list   == IF gaps = {} THEN kept ELSE SubSeq(kept, 1, FirstOf(gaps))
      fill   == IF gaps = {} THEN EndOf(Last(kept)) ELSE EndOf(kept[FirstOf(gaps) - 1])
  IN  [IF at = {} THEN [Reset(m) EXCEPT !.m_llFillPos = llPos]
       ELSE [m EXCEPT !.m_lstFull = list, !.m_llFillPos = fill,
                      !.m_lstFree = @ + Len(full) - Len(list)]
       EXCEPT !.m_llPosAudio = llPos, !.m_llPosVideo = llPos]

-----------------------------------------------------------------------------
(* What the memory promises. *)

(* A byte is where it is in a file of so many bytes. *)
IsTheFile(m, size) ==
  \A k \in DOMAIN m.m_lstFull : \A j \in DOMAIN m.m_lstFull[k].data :
     LET p == m.m_lstFull[k].m_llPos + j - 1
     IN  p < size => m.m_lstFull[k].data[j] = p

(* Blocks hold data, follow one another without a gap, and the download    *)
(* goes on at the end.                                                     *)
InOnePiece(m) ==
  \A k \in DOMAIN m.m_lstFull :
     /\ Len(m.m_lstFull[k].data) \in 1..MEM_BUFF_SIZE
     /\ k > 1 => m.m_lstFull[k].m_llPos = EndOf(m.m_lstFull[k - 1])
==============================================================================
