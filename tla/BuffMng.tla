------------------------------- MODULE BuffMng -------------------------------
(***************************************************************************)
(* CBuffMng (base/CBuffMng.cpp): the frames between the thread that parses *)
(* and the renderers.  A buffer is taken from m_lstEmpty or created, filled*)
(* by the parser, sent into the list of its stream, read, and returned to  *)
(* m_lstEmpty.  Every operation runs under m_lckList and is one step.      *)
(*                                                                         *)
(* A media type only looks at the empty buffers of its own, so m_lstEmpty  *)
(* is one list for each type, which keeps their order.  The list of a      *)
(* stream is given by the frames in its buffers, the list of empty buffers *)
(* by what still matters of them: a decoder uses it, or it is free.        *)
(* Without a switch of bit rate m_lstNewVideo and m_lstNewAudio are empty. *)
(* The first frame of a source has time 0, so that the correction of times *)
(* by m_llStartTime (364-384) adds nothing.                                *)
(***************************************************************************)
EXTENDS Integers, Sequences, SequencesExt

CONSTANTS nKeepFrames,   \* 2: empty buffers not used again at once (484)
          SyncFrames     \* 100: audio and video are aligned below it (69)

ASSUME KeepAssumption == nKeepFrames \in Nat
ASSUME SyncAssumption == SyncFrames \in Nat

VARIABLES
  m_lst,           \* m_lstVideo, m_lstAudio
  m_lstEmpty,
  m_nNewEmptyNum,  \* buffers created, for each type
  m_bBuffEO,       \* m_bEOV, m_bEOA of CBuffMng
  m_bEOS,
  m_llNextKeyTime,
  m_llSeekPos,     \* of CBuffMng
  bStarted,        \* m_llStartTime # -1
  bNumRead,        \* m_nNumRead # 0
  m_bFlush

lists == <<m_lst, m_lstEmpty, m_nNewEmptyNum>>
param == <<m_bBuffEO, m_bEOS, m_llNextKeyTime, m_llSeekPos, bStarted, bNumRead, m_bFlush>>
buffs == <<lists, param>>

Type  == {"video", "audio"}
Other(t) == CHOOSE o \in Type : o # t
Flag  == {"head", "key", "delta"}
Frame == [time : Nat, flag : Flag]
Null  == [time |-> 0, flag |-> "delta"]

BuffTypeOK ==
  /\ m_lst \in [Type -> Seq(Frame)]
  /\ m_lstEmpty \in [Type -> Seq({"free", "used"})]
  /\ m_nNewEmptyNum \in [Type -> Nat]
  /\ m_bBuffEO \in [Type -> BOOLEAN]
  /\ m_bEOS \in BOOLEAN /\ bStarted \in BOOLEAN /\ bNumRead \in BOOLEAN
  /\ m_bFlush \in BOOLEAN
  /\ m_llNextKeyTime \in Nat /\ m_llSeekPos \in Nat \cup {-1}

BuffInit ==
  /\ m_lst = [t \in Type |-> <<>>] /\ m_lstEmpty = [t \in Type |-> <<>>]
  /\ m_nNewEmptyNum = [t \in Type |-> 0]
  /\ m_bBuffEO = [t \in Type |-> FALSE] /\ m_bEOS = FALSE
  /\ m_llNextKeyTime = 0 /\ m_llSeekPos = 0
  /\ bStarted = FALSE /\ bNumRead = FALSE /\ m_bFlush = FALSE

-----------------------------------------------------------------------------
(* Empty buffers. *)

Free(n) == [i \in 1..n |-> "free"]

(* AddHead, one after the other, of the buffers of l *)
Dropped(l, empty) == Free(Len(l)) \o empty

(* The oldest buffers are looked at for one that is large enough, and the  *)
(* last nKeepFrames are not; if none is, the first is taken.               *)
Reusable(n) == 1..(IF n > nKeepFrames + 2 THEN n - nKeepFrames - 1 ELSE 1)  \* 494-530

MustCreate(n) == n <= nKeepFrames                                 \* 492

(* b tells what the buffer was *)
GetEmpty(t, b) ==                                                 \* 477-546
  IF MustCreate(Len(m_lstEmpty[t]))
  THEN /\ b = "free" /\ UNCHANGED m_lstEmpty
       /\ m_nNewEmptyNum' = [m_nNewEmptyNum EXCEPT ![t] = @ + 1]
  ELSE \E i \in Reusable(Len(m_lstEmpty[t])) :
         /\ b = m_lstEmpty[t][i]
         /\ m_lstEmpty' = [m_lstEmpty EXCEPT ![t] = RemoveAt(@, i)]
         /\ UNCHANGED m_nNewEmptyNum

Returned_First(t, b) == [m_lstEmpty EXCEPT ![t] = <<b>> \o @]
Returned(t, b) == [m_lstEmpty EXCEPT ![t] = Append(@, b)]

Return(t, b) == m_lstEmpty' = Returned(t, b)                      \* 548-556

(* the decoder is done with the buffer it used *)
Released(t) == [m_lstEmpty EXCEPT ![t] = Free(Len(@))]

-----------------------------------------------------------------------------
(* Send: what a video frame finds after a flush is dropped up to a key     *)
(* frame; a head (decoder configuration) takes the time of the frame after *)
(* it.                                                                     *)

Skipped_Never(t, f) == FALSE
Skipped(t, f) == m_bFlush /\ t = "video" /\ f.flag = "delta"      \* 344-358

Retimed(l, f) ==                                                  \* 465-470
  IF f.flag # "head" /\ l # <<>> /\ Last(l).flag = "head"
  THEN [l EXCEPT ![Len(l)].time = f.time] ELSE l

(* The decoders take the formats (else the frames of a stream are not       *)
(* queued, 322-331), and the first samples of both streams have the same    *)
(* time (else m_llSeekPos becomes 0 and no time is shifted, 366-370).       *)
Send(t, f) ==                                                     \* 316-475
  /\ IF Skipped(t, f)
     THEN /\ m_lstEmpty' = [m_lstEmpty EXCEPT ![t] = Dropped(<<f>>, @)]
          /\ UNCHANGED <<m_lst, m_llSeekPos, bStarted, m_bFlush>>
     ELSE /\ m_lst' = [m_lst EXCEPT ![t] = Append(Retimed(@, f), f)]
          /\ m_bFlush' = (m_bFlush /\ ~(t = "video" /\ f.flag = "key"))
          /\ bStarted' = (bStarted \/ f.flag # "head")
          /\ m_llSeekPos' = IF ~bStarted /\ f.flag # "head" /\ m_llSeekPos = -1
                            THEN f.time ELSE m_llSeekPos
          /\ UNCHANGED m_lstEmpty
  /\ UNCHANGED <<m_nNewEmptyNum, m_bBuffEO, m_bEOS, m_llNextKeyTime, bNumRead>>

-----------------------------------------------------------------------------
(* Read.  Before the first read after a seek audio older than the video is *)
(* dropped, once there are two frames of each.                             *)

Syncing_Always ==
  /\ ~m_bEOS /\ m_llSeekPos # 0
  /\ \A t \in Type : Len(m_lst[t]) < SyncFrames
Syncing ==                                                        \* 69
  /\ ~bNumRead /\ ~m_bEOS /\ m_llSeekPos # 0
  /\ \A t \in Type : Len(m_lst[t]) < SyncFrames

SyncWaits == Syncing /\ \E t \in Type : Len(m_lst[t]) < 2 /\ ~m_bBuffEO[t]

(* least position in l of a frame at time p or later, or after the end *)
FirstFrom(l, p) ==
  CHOOSE i \in 1..(Len(l) + 1) :
    /\ i <= Len(l) => l[i].time >= p
    /\ \A j \in 1..(i - 1) : l[j].time < p

Before(l, i) == SubSeq(l, 1, i - 1)
From(l, i)   == SubSeq(l, i, Len(l))

(* number of audio buffers that are dropped, plus 1 *)
SyncAt ==                                                         \* 73-82
  IF Syncing /\ m_lst["video"] # <<>>
  THEN FirstFrom(m_lst["audio"], m_lst["video"][1].time) ELSE 1

(* What ReadVideo takes: the buffer at n, with those before it dropped; 0   *)
(* for none.  key is m_llNextKeyTime afterwards.                           *)
Result(res, n, key) == [res |-> res, n |-> n, key |-> key]

(* m_llNextKeyTime after the search for a key frame at pos or later: the   *)
(* first there is, or else the last key frame of the list                  *)
NextKey(l, pos) ==                                                \* 151-164
  LET keys == {i \in 1..Len(l) : l[i].flag = "key"}
      good == {i \in keys : l[i].time >= pos}
      at   == IF good # {} THEN CHOOSE i \in good : \A j \in good : i <= j
                           ELSE CHOOSE i \in keys : \A j \in keys : i >= j
  IN  IF m_llNextKeyTime # 0 THEN m_llNextKeyTime
      ELSE IF keys = {} THEN 0 ELSE l[at].time

OnTime(f, pos) == f.time >= pos \/ pos < m_llNextKeyTime \/ f.flag = "head"  \* 146

(* buffers of l, after the one at n, that are older than it *)
Behind(l, n) == IF n = 1 THEN 0 ELSE FirstFrom(From(l, n + 1), l[n].time) - 1

(* When frames were dropped and nothing as late as the buffer at n is left *)
(* behind it, GetHead returns NULL and line 187 reads through it.          *)
ReadVideo(l, pos) ==                                              \* 140-202
  IF l = <<>> THEN Result("none", 0, m_llNextKeyTime)
  ELSE IF OnTime(l[1], pos) THEN Result("frame", 1, m_llNextKeyTime)
  ELSE LET key == NextKey(l, pos)
           n   == FirstFrom(l, key)
       IN  IF key > 0 /\ key > pos THEN Result("frame", 1, key)
           ELSE IF n > Len(l) THEN Result("none", Len(l), 0)
           ELSE IF n > 1 /\ n + Behind(l, n) = Len(l) THEN Result("crash", n, 0)
           ELSE Result("frame", n, 0)

(* The renderer of t asks for the frame at pos: the result code rc, the    *)
(* buffer f it gets, and what becomes of the lists.  At the end of the      *)
(* streams it is told so when nothing is left (99-104).                     *)
ReadResult(t, pos) ==                                             \* 52-136
  IF SyncWaits
  THEN [rc |-> "retry", f |-> Null, lst |-> m_lst, empty |-> m_lstEmpty,
        key |-> m_llNextKeyTime]
  ELSE
  LET at     == SyncAt
      synced == [m_lst EXCEPT !["audio"] = From(@, at)]
      empty  == [m_lstEmpty EXCEPT !["audio"] = Dropped(Before(m_lst["audio"], at), @)]
      l      == synced[t]
      r      == IF l = <<>> \/ (Syncing /\ synced["audio"] = <<>>)
                THEN Result("none", 0, m_llNextKeyTime)
                ELSE IF t = "video" THEN ReadVideo(l, pos)
                ELSE Result("frame", 1, m_llNextKeyTime)
      got    == r.res = "frame"
      late   == IF got THEN r.n - 1 ELSE r.n                   \* dropped in front
      behind == IF got THEN Behind(l, r.n) ELSE 0
  IN  [rc |-> IF r.res # "none" THEN r.res
              ELSE IF m_bEOS /\ r.n = Len(l) THEN "finish" ELSE "retry",
       f |-> IF got THEN l[r.n] ELSE Null,
       lst |-> [synced EXCEPT ![t] = From(@, r.n + behind + 1)],
       empty |-> [empty EXCEPT ![t] = Free(late) \o @ \o Free(behind)],
       key |-> r.key]

Read(r) ==
  /\ m_lst' = r.lst /\ m_lstEmpty' = r.empty /\ m_llNextKeyTime' = r.key
  /\ bNumRead' = (bNumRead \/ r.rc = "frame")
  /\ UNCHANGED <<m_nNewEmptyNum, m_bBuffEO, m_bEOS, m_llSeekPos, bStarted, m_bFlush>>

-----------------------------------------------------------------------------
(* SetPos within what is buffered keeps the frames from the key frame on,  *)
(* and the head before them if one was dropped; else everything goes.      *)

LastOf(S) == CHOOSE i \in S : \A j \in S : i >= j

(* the key frame to begin with, 0 if the position is not buffered *)
SeekKey(l, pos) ==                                                \* 612-627
  LET at   == FirstFrom(l, pos)
      keys == {i \in 1..at : i <= Len(l) /\ l[i].flag = "key"}
  IN  IF at <= Len(l) /\ keys # {} /\ l[LastOf(keys)].time <= pos THEN LastOf(keys) ELSE 0

InBuff(pos) == SeekKey(m_lst["video"], pos) # 0

(* l with what precedes position i dropped, but for the last head *)
Kept(l, i) ==
  LET heads == {j \in 1..(i - 1) : l[j].flag = "head"}
  IN  IF heads = {} THEN From(l, i) ELSE <<l[LastOf(heads)]>> \o From(l, i)
Discarded_Head(l, i) == i - 1
Discarded(l, i) == Len(l) - Len(Kept(l, i))

ResetParam ==                                                     \* 1340-1370
  /\ m_bEOS' = FALSE /\ m_bBuffEO' = [t \in Type |-> FALSE]
  /\ m_llNextKeyTime' = 0 /\ bNumRead' = FALSE /\ m_bFlush' = FALSE

BuffSetPos(pos) ==                                                \* 558-680
  /\ LET at == [t \in Type |-> IF ~InBuff(pos) THEN Len(m_lst[t]) + 1
                               ELSE IF t = "video" THEN SeekKey(m_lst[t], pos)
                               ELSE FirstFrom(m_lst[t], pos)]
     IN  /\ m_lst' = [t \in Type |-> IF InBuff(pos) THEN Kept(m_lst[t], at[t]) ELSE <<>>]
         /\ m_lstEmpty' = [t \in Type |->
              Free(IF InBuff(pos) THEN Discarded(m_lst[t], at[t]) ELSE Len(m_lst[t])) \o m_lstEmpty[t]]
  /\ ResetParam /\ m_llSeekPos' = IF bStarted THEN 0 ELSE -1
  /\ UNCHANGED <<m_nNewEmptyNum, bStarted>>

FlushBuff ==                                                      \* 1018-1031
  /\ m_lst' = [t \in Type |-> <<>>]
  /\ m_lstEmpty' = [t \in Type |-> Dropped(m_lst[t], m_lstEmpty[t])]
  /\ m_llNextKeyTime' = 0 /\ m_bFlush' = TRUE
  /\ UNCHANGED <<m_nNewEmptyNum, m_bBuffEO, m_bEOS, m_llSeekPos, bStarted, bNumRead>>

-----------------------------------------------------------------------------
(* What the threads ask about a list. *)

LastTime(t) == IF m_lst[t] = <<>> THEN 0 ELSE Last(m_lst[t]).time \* 709-729

(* From the first frame to the last; when times go back within the list,   *)
(* the sum over the parts between.                                         *)
BuffTime(t) ==                                                    \* 804-879
  LET l    == SelectSeq(m_lst[t], LAMBDA f : f.flag # "head")
      last == Last(m_lst[t]).time
      Add(acc, f) ==
        LET head == IF acc.head = 0 THEN f.time ELSE acc.head
        IN  IF f.time < head
            THEN [sum |-> acc.sum + acc.last - head, head |-> f.time, last |-> f.time]
            ELSE [sum |-> acc.sum, head |-> head, last |-> f.time]
      parts == FoldLeft(Add, [sum |-> 0, head |-> 0, last |-> 0], l)
  IN  IF l = <<>> THEN 0
      ELSE IF last > l[1].time THEN last - l[1].time
      ELSE parts.sum + parts.last - parts.head

=============================================================================
