------------------------------- MODULE Source --------------------------------
(***************************************************************************)
(* A media source that plays a file: CQCSource with its base CBaseSource   *)
(* (mfw/Common) and the MP4 parser, on top of the buffers of BuffMng.      *)
(*                                                                         *)
(*   the read thread repeats OnWorkItem: it asks the parser for a frame of *)
(*     the stream that is behind, and sends it to the buffers;             *)
(*   each renderer repeats ReadBuff, and decodes what it got;              *)
(*   the engine calls SetPos and may flush the buffers.                    *)
(*                                                                         *)
(* m_lckSeek excludes a pass of the read thread from SetPos; m_lckReader   *)
(* excludes the readers from each other and from the first half of SetPos. *)
(* Every section of m_lckList and every access to a flag without a lock is *)
(* a step.  Frame i of a stream has time i, the first i 0.                 *)
(***************************************************************************)
EXTENDS BuffMng

CONSTANTS N,            \* frames of a stream of either type
          Key,          \* key frames of the video
          MaxBuffTime,  \* m_llMaxBuffTime
          ReadyTime,    \* m_llMinBuffTime * 2; what is enough is twice that
          BuffReads,    \* 150 frames read before buffering may begin (225)
          WaitRead,     \* types whose renderer waits in ReadBuff (bWait)
          Pos,          \* positions of SetPos
          MaxSeek,      \* bound of the calls of SetPos and Flush
          Failures,     \* what may fail: "retry", "end" in a read, "seek"
          MaxFails      \* bound of the reads that fail

ASSUME FileAssumption == N \in Nat \ {0} /\ Key \subseteq 0..(N - 1) /\ 0 \in Key
ASSUME TimeAssumption == {MaxBuffTime, ReadyTime, BuffReads, MaxSeek, MaxFails} \subseteq Nat
ASSUME WaitAssumption == WaitRead \subseteq Type /\ Pos \subseteq Nat
ASSUME FailAssumption == Failures \subseteq {"retry", "end", "seek"}

VARIABLES
  m_bEO,          \* m_bEOV, m_bEOA of the source
  m_bNewPos,      \* m_bVideoNewPos, m_bAudioNewPos
  m_llSrcSeekPos, \* m_llSeekPos of CBaseSource
  m_bNeedBuffing,
  m_nBuffRead,
  next,           \* parser: next frame of each stream (m_pCurVideoInfo, ...)
  m_bReadVideoHead,
  m_nMediaType,   \* m_buffInfo.nMediaType, "none" for QC_MEDIA_MAX
  m_nHadReadVideo,
  m_lckSeek,      \* holder: "worker", "engine", "none"
  m_lckReader,    \* holder: a type, or "none"
  worker,         \* pc, the frame in hand, first or second read of the pass,
                  \* and its buffer was taken from a decoder
  reader,         \* pc, result, buffer read, other stream was ready, of a type
  engine,         \* pc and position of SetPos
  seeks, failed,  \* calls made, reads that failed (bounded)
  (* what happened, for the properties *)
  fails,          \* failed parser reads since a frame was delivered (up to nKeepFrames)
  last,           \* last frame read, but for heads
  jump,           \* "seek" or "flush" since the last read, else "no"
  ended,          \* the renderer was told the end
  cut,            \* a failed read was taken for the end
  astray,         \* what the parser reads does not continue the buffers
  crashed

source == <<m_bEO, m_bNewPos, m_llSrcSeekPos, m_bNeedBuffing, m_nBuffRead>>
parser == <<next, m_bReadVideoHead>>
pass   == <<m_nMediaType, m_nHadReadVideo, worker>>
ghosts == <<fails, last, jump, ended, cut, astray>>
vars   == <<buffs, source, parser, pass, m_lckSeek, m_lckReader, reader, engine,
            seeks, failed, ghosts, crashed>>

Idle == [pc |-> "idle", f |-> Null, again |-> FALSE, used |-> FALSE]
Reader(pc, rc, f, other) == [pc |-> pc, rc |-> rc, f |-> f, other |-> other]
Engine(pc, pos) == [pc |-> pc, pos |-> pos]

Init ==
  /\ BuffInit
  /\ m_bEO = [t \in Type |-> FALSE] /\ m_bNewPos = [t \in Type |-> FALSE]
  /\ m_llSrcSeekPos = 0 /\ m_bNeedBuffing = FALSE /\ m_nBuffRead = 0
  /\ next = [t \in Type |-> 0] /\ m_bReadVideoHead = FALSE
  /\ m_nMediaType = "none" /\ m_nHadReadVideo = 0 /\ worker = Idle
  /\ m_lckSeek = "none" /\ m_lckReader = "none"
  /\ reader = [t \in Type |-> Reader("idle", "none", Null, FALSE)]
  /\ engine = Engine("idle", 0) /\ seeks = 0 /\ failed = 0
  /\ fails = [t \in Type |-> 0] /\ last = [t \in Type |-> -1]
  /\ jump = [t \in Type |-> "no"] /\ ended = [t \in Type |-> FALSE]
  /\ cut = [t \in Type |-> FALSE] /\ astray = FALSE /\ crashed = FALSE

-----------------------------------------------------------------------------
(* The read thread: OnWorkItem. *)

(* The first frames are video; then the stream whose last frame is earlier. *)
Behindhand ==                                                   \* CQCSource.cpp:593-616
  LET t == IF m_nHadReadVideo > 3 /\ LastTime("video") > LastTime("audio")
           THEN "audio" ELSE "video"
      v == IF m_bEO["audio"] THEN "video" ELSE t
  IN  IF m_bEO["video"] THEN "audio" ELSE v

Full == \E t \in Type : BuffTime(t) > MaxBuffTime                   \* 578

BeginPass ==                                                    \* 566-617
  /\ worker.pc = "idle" /\ m_lckSeek = "none"
  /\ ~(m_bEO["audio"] /\ m_bEO["video"]) /\ ~Full
  /\ m_lckSeek' = "worker" /\ worker' = [Idle EXCEPT !.pc = "parse"]
  /\ m_nMediaType' = IF m_nMediaType = "none" THEN Behindhand ELSE m_nMediaType
  /\ UNCHANGED <<buffs, source, parser, m_nHadReadVideo, m_lckReader, reader, engine,
                 seeks, ghosts>>

(* A stream's end (QC_ERR_FINISH from the parser).  What the readers see  *)
(* first is m_bEOV or m_bEOA; the rest only delays or marks their reads.    *)
AtEnd(t) ==                                                     \* 626-642, 660-674
  /\ m_bEO' = [m_bEO EXCEPT ![t] = TRUE]
  /\ m_bNewPos' = [m_bNewPos EXCEPT ![t] = FALSE]
  /\ m_bBuffEO' = m_bEO'

(* A pass is over: when both streams are at their end it still has to say  *)
(* so to the buffers.                                                      *)
PassEnds(eo) ==
  IF \A t \in Type : eo[t]
  THEN worker' = [Idle EXCEPT !.pc = "end"] /\ UNCHANGED <<m_nMediaType, m_lckSeek>>
  ELSE worker' = Idle /\ m_nMediaType' = "none" /\ m_lckSeek' = "none"

(* The first read of a pass ended a stream: try the other one. *)
SecondTry(t, eo) ==                                             \* 649-659
  LET o == IF t = "audio" /\ ~eo["video"] THEN "video"
           ELSE IF ~eo["audio"] THEN "audio" ELSE "none"
  IN  IF worker.again \/ o = "none" THEN PassEnds(eo)
      ELSE /\ worker' = [Idle EXCEPT !.pc = "parse", !.again = TRUE]
           /\ m_nMediaType' = o /\ UNCHANGED m_lckSeek

HeadIsNext == m_nMediaType = "video" /\ ~m_bReadVideoHead      \* CMP4Parser.cpp:389

ParseEnd ==                                                     \* 375-396
  LET t == m_nMediaType IN
  /\ worker.pc = "parse" /\ next[t] = N /\ ~HeadIsNext
  /\ AtEnd(t) /\ SecondTry(t, m_bEO')
  /\ UNCHANGED <<lists, m_bEOS, m_llNextKeyTime, m_llSeekPos, bStarted, bNumRead, m_bFlush,
                 m_llSrcSeekPos, m_bNeedBuffing, m_nBuffRead, parser, m_nHadReadVideo,
                 m_lckReader, reader, engine, seeks, ghosts>>

(* An empty buffer for the head data, or for the next frame. *)
Parse ==                                                        \* 389-418, 592-628
  LET t == m_nMediaType IN
  /\ worker.pc = "parse" /\ (HeadIsNext \/ next[t] < N)
  /\ \E b \in {"free", "used"} :
       /\ GetEmpty(t, b)
       /\ worker' = [worker EXCEPT !.pc = "fetch", !.used = (b = "used" /\ fails[t] < nKeepFrames),
            !.f = [time |-> IF HeadIsNext THEN 0 ELSE next[t],
                   flag |-> IF HeadIsNext THEN "head"
                            ELSE IF t = "video" /\ next[t] \in Key THEN "key" ELSE "delta"]]
  /\ UNCHANGED <<m_lst, param, source, parser, m_nMediaType, m_nHadReadVideo, m_lckSeek,
                 m_lckReader, reader, engine, seeks, ghosts>>

(* The data was read, or the head copied.  It can be converted: the frame   *)
(* of data that cannot is skipped (468-473, 489-494), and there the order   *)
(* of the frames has a gap.                                                 *)
SendFrame ==                                                    \* 420-443, 588, 629
  LET t == m_nMediaType
      h == worker.f.flag = "head" IN
  /\ worker.pc = "fetch" /\ Send(t, worker.f) /\ PassEnds(m_bEO)
  /\ next' = [next EXCEPT ![t] = IF h THEN @ ELSE @ + 1]
  /\ m_bReadVideoHead' = (m_bReadVideoHead \/ h)
  /\ m_nHadReadVideo' = IF t = "video" /\ m_nHadReadVideo <= 3
                        THEN m_nHadReadVideo + 1 ELSE m_nHadReadVideo
  /\ UNCHANGED <<source, m_lckReader, reader, engine, seeks, ghosts>>

(* The data was not read: the buffer goes back. *)
FetchFailed ==                                                  \* 432-435
  LET t == m_nMediaType IN
  /\ worker.pc = "fetch" /\ worker.f.flag # "head" /\ Return(t, "free")
  /\ failed < MaxFails /\ failed' = failed + 1
  /\ fails' = [fails EXCEPT ![t] = IF @ < nKeepFrames THEN @ + 1 ELSE @]
  /\ UNCHANGED <<m_lst, m_nNewEmptyNum, m_bEOS, m_llNextKeyTime, m_llSeekPos, bStarted,
                 bNumRead, m_bFlush, m_llSrcSeekPos, m_bNeedBuffing, m_nBuffRead, parser,
                 m_nHadReadVideo, m_lckReader, reader, engine, seeks,
                 last, jump, ended, astray>>

(* The connection is lost.  In the first read of a pass this ends it, and  *)
(* the next one asks for the same stream.                                  *)
FetchRetry ==                                                   \* 435-436, CQCSource.cpp:643
  /\ "retry" \in Failures /\ FetchFailed
  /\ IF worker.again THEN PassEnds(m_bEO)
     ELSE worker' = Idle /\ m_lckSeek' = "none" /\ UNCHANGED m_nMediaType
  /\ UNCHANGED <<m_bEO, m_bNewPos, m_bBuffEO, cut>>

(* Any other failure is taken for the end of the stream. *)
FetchEnd ==                                                     \* 437
  /\ "end" \in Failures /\ FetchFailed
  /\ cut' = [cut EXCEPT ![m_nMediaType] = TRUE]
  /\ AtEnd(m_nMediaType) /\ SecondTry(m_nMediaType, m_bEO')

SetEOS ==                                                       \* 689-694
  /\ worker.pc = "end" /\ worker' = Idle
  /\ m_bEOS' = TRUE /\ m_nMediaType' = "none" /\ m_lckSeek' = "none"
  /\ UNCHANGED <<lists, m_bBuffEO, m_llNextKeyTime, m_llSeekPos, bStarted, bNumRead, m_bFlush,
                 source, parser, m_nHadReadVideo, m_lckReader, reader, engine, seeks, ghosts>>

Worker == \/ (BeginPass \/ ParseEnd \/ Parse \/ SendFrame \/ SetEOS) /\ UNCHANGED failed
          \/ FetchRetry \/ FetchEnd

-----------------------------------------------------------------------------
(* A renderer: ReadBuff, which holds m_lckReader to its return.  While     *)
(* m_bNeedBuffing is set and too little is buffered it only returns        *)
(* QC_ERR_BUFFERING.                                                       *)

Ready_NoEnd(t) == BuffTime(t) >= ReadyTime
Ready(t) == BuffTime(t) >= ReadyTime \/ m_bEO[t]
Enough   == \E t \in Type : BuffTime(t) >= 2 * ReadyTime

Pc(t, pc) == [reader EXCEPT ![t].pc = pc]
Returns(t) == reader' = [reader EXCEPT ![t] = Reader("idle", "none", Null, FALSE)]
              /\ m_lckReader' = "none"

BeginRead(t) ==                                                 \* CBaseSource.cpp:98-126
  /\ reader[t].pc = "idle" /\ m_lckReader = "none" /\ ~ended[t]
  /\ m_bNeedBuffing => Enough \/ \A o \in Type : Ready(o)
  /\ m_bNeedBuffing' = FALSE /\ m_lckReader' = t
  /\ reader' = [reader EXCEPT ![t] =
                  Reader("read", "none", Null, BuffTime(Other(t)) >= ReadyTime)]
  /\ m_lstEmpty' = Released(t)
  /\ UNCHANGED <<m_lst, m_nNewEmptyNum, param, m_bEO, m_bNewPos, m_llSrcSeekPos, m_nBuffRead, parser, pass,
                 m_lckSeek, engine, seeks, fails, last, jump, ended, cut, astray>>

(* The video is asked for at the time of the clock, or from the beginning  *)
(* after a seek.                                                           *)
Wanted(t) == IF t = "audio" \/ m_bNewPos[t] THEN {0} ELSE 0..N  \* 131-132

ReadBuff(t) ==                                                  \* 134-139, 171
  /\ reader[t].pc \in {"read", "wait"} /\ ~(reader[t].pc = "wait" /\ reader[t].other)
  /\ \E pos \in Wanted(t) :
       LET r == ReadResult(t, pos) IN
       /\ Read(r) /\ crashed' = (r.rc = "crash")
       /\ IF r.rc = "finish" /\ reader[t].pc = "read"
          THEN Returns(t) /\ ended' = [ended EXCEPT ![t] = TRUE]
          ELSE /\ reader' = [reader EXCEPT ![t].f = r.f, ![t].rc = r.rc,
                    ![t].pc = IF r.rc = "frame" THEN "got"
                              ELSE IF @ = "read" THEN "eo" ELSE @]
               /\ UNCHANGED <<m_lckReader, ended>>
       /\ last' = [last EXCEPT ![t] = IF r.rc # "frame" \/ r.f.flag = "head" THEN @
                                      ELSE r.f.time]
       /\ jump' = [jump EXCEPT ![t] = IF r.rc = "frame" THEN "no" ELSE @]
  /\ UNCHANGED <<source, parser, pass, m_lckSeek, engine, seeks, fails, cut, astray>>

(* Nothing to read: the end is taken from the flag of the source. *)
AskEnd(t) ==                                                    \* 140-152
  /\ reader[t].pc = "eo"
  /\ IF m_bEO[t] THEN Returns(t) /\ ended' = [ended EXCEPT ![t] = TRUE]
     ELSE /\ reader' = Pc(t, IF t \in WaitRead THEN "wait" ELSE "end")
          /\ UNCHANGED <<m_lckReader, ended>>
  /\ UNCHANGED <<buffs, source, parser, pass, m_lckSeek, engine, seeks,
                 fails, last, jump, cut, astray>>

StopWaiting_ForFrame(t) ==
  /\ reader[t].pc = "wait" /\ reader[t].other /\ Returns(t)
  /\ UNCHANGED <<buffs, source, parser, pass, m_lckSeek, engine, seeks, ghosts>>

(* It waits at most 100 ms, and not while the other stream has enough. *)
StopWaiting(t) ==                                               \* 154-173
  /\ reader[t].pc = "wait"
  /\ IF reader[t].other THEN Returns(t)
     ELSE reader' = Pc(t, "end") /\ UNCHANGED m_lckReader
  /\ UNCHANGED <<buffs, source, parser, pass, m_lckSeek, engine, seeks, ghosts>>

(* The first frame after a seek is marked NEW_POS.  The buffer is returned *)
(* before the decoder has seen it.                                         *)
Deliver(t) ==                                                   \* 175-208
  /\ reader[t].pc = "got" /\ reader' = [reader EXCEPT ![t] = Reader("end", "none", Null, FALSE)]
  /\ m_bNewPos' = [m_bNewPos EXCEPT ![t] = FALSE]
  /\ Return(t, "used") /\ fails' = [fails EXCEPT ![t] = 0]
  /\ m_nBuffRead' = IF m_nBuffRead <= BuffReads THEN m_nBuffRead + 1 ELSE m_nBuffRead
  /\ UNCHANGED <<m_lst, m_nNewEmptyNum, param, m_bEO, m_llSrcSeekPos, m_bNeedBuffing,
                 parser, pass, m_lckSeek, m_lckReader, engine, seeks,
                 last, jump, ended, cut, astray>>

(* A stream ran dry: no more reads before enough is buffered again. *)
EndRead(t) ==                                                   \* 209-239
  /\ reader[t].pc = "end" /\ Returns(t)
  /\ m_bNeedBuffing' = (\/ m_bNeedBuffing
                        \/ /\ m_nBuffRead > BuffReads /\ ~Enough
                           /\ \E o \in Type : BuffTime(o) <= 0 /\ ~m_bEO[o])
  /\ ended' = [ended EXCEPT ![t] = reader[t].rc = "finish"]
  /\ UNCHANGED <<buffs, m_bEO, m_bNewPos, m_llSrcSeekPos, m_nBuffRead, parser, pass,
                 m_lckSeek, engine, seeks, fails, last, jump, cut, astray>>

-----------------------------------------------------------------------------
(* The engine: CQCSource::SetPos and the flush of the buffers. *)

CallSetPos(p) ==
  /\ engine.pc = "idle" /\ seeks < MaxSeek /\ seeks' = seeks + 1
  /\ engine' = Engine("lock", p)
  /\ UNCHANGED <<buffs, source, parser, pass, m_lckSeek, m_lckReader, reader, ghosts>>

LockSeek ==                                                     \* CQCSource.cpp:260
  /\ engine.pc = "lock" /\ m_lckSeek = "none"
  /\ m_lckSeek' = "engine" /\ engine' = [engine EXCEPT !.pc = "base"]
  /\ UNCHANGED <<buffs, source, parser, pass, m_lckReader, reader, seeks, ghosts>>

SetPosReturned == engine' = Engine("idle", 0) /\ m_lckSeek' = "none" /\ m_nMediaType' = "none"

Rewind_KeepEO(p) ==
  /\ m_bNewPos' = [t \in Type |-> TRUE]
  /\ m_llSrcSeekPos' = p /\ m_nBuffRead' = 0 /\ BuffSetPos(p) /\ UNCHANGED m_bEO
Rewind(p) ==                                                    \* 251-271
  /\ m_bEO' = [t \in Type |-> FALSE] /\ m_bNewPos' = [t \in Type |-> TRUE]
  /\ m_llSrcSeekPos' = p /\ m_nBuffRead' = 0 /\ BuffSetPos(p)

Answered_SameOnly(same, p) == p # 0 /\ same
(* The position it answers tells that the buffers hold it. *)
Answered(same, p) == p # 0 /\ (same \/ InBuff(p))    \* CQCSource.cpp:262, CBaseSource.cpp:247-277

(* CBaseSource::SetPos answers the position if the buffers hold it, and 0  *)
(* if they do not; the same position twice before anything is read is not  *)
(* looked at again.                                                        *)
BaseSetPos ==                                                   \* CBaseSource.cpp:247-277
  LET p    == engine.pos
      same == m_llSrcSeekPos = p /\ \E t \in Type : m_bNewPos[t] IN
  /\ engine.pc = "base" /\ m_lckReader = "none"
  /\ IF same THEN UNCHANGED <<buffs, source, jump, ended, cut>>
     ELSE /\ Rewind(p) /\ UNCHANGED m_bNeedBuffing
          /\ jump' = [t \in Type |-> "seek"] /\ ended' = [t \in Type |-> FALSE]
          /\ cut' = [t \in Type |-> FALSE]
  /\ IF Answered(same, p) THEN SetPosReturned
     ELSE engine' = [engine EXCEPT !.pc = "parser"] /\ UNCHANGED <<m_lckSeek, m_nMediaType>>
  /\ astray' = ((same \/ InBuff(p)) /\ (astray \/ p = 0))
  /\ UNCHANGED <<parser, m_nHadReadVideo, worker, m_lckReader, reader, seeks,
                 fails, last>>

(* the key frame before p, or the first *)
KeyBefore(p) ==                                                 \* CMP4Parser.cpp:686-706
  LET keys == {k \in Key : k < p} IN IF keys = {} THEN 0 ELSE LastOf(keys)

Target_BehindEnd(p) == IF p >= N THEN N + 1 ELSE KeyBefore(p)
Target(p) == IF p >= N THEN N ELSE KeyBefore(p)                 \* 676-706

ParserSetPos ==                                                 \* 646-756
  /\ engine.pc = "parser" /\ SetPosReturned
  /\ next' = [t \in Type |-> Target(engine.pos)]
  /\ m_bReadVideoHead' = (m_bReadVideoHead /\ engine.pos >= N)
  /\ UNCHANGED <<buffs, source, m_nHadReadVideo, worker, m_lckReader, reader, seeks,
                 ghosts>>

(* After 5 s without the tables for the position (665). *)
ParserSetPosFails ==
  /\ "seek" \in Failures /\ engine.pc = "parser" /\ SetPosReturned /\ astray' = TRUE
  /\ UNCHANGED <<buffs, source, parser, m_nHadReadVideo, worker, m_lckReader, reader, seeks,
                 fails, last, jump, ended, cut>>

Flush ==                                                        \* CQCSource.cpp:358-362
  /\ engine.pc = "idle" /\ seeks < MaxSeek /\ seeks' = seeks + 1
  /\ FlushBuff /\ jump' = [t \in Type |-> IF jump[t] = "seek" THEN "seek" ELSE "flush"]
  /\ UNCHANGED <<source, parser, pass, m_lckSeek, m_lckReader, reader, engine,
                 fails, last, ended, cut, astray>>

Reading(t) == BeginRead(t) \/ AskEnd(t) \/ StopWaiting(t) \/ Deliver(t) \/ EndRead(t)
Seeking    == LockSeek \/ BaseSetPos \/ ParserSetPos \/ ParserSetPosFails
Calls      == (\E p \in Pos : CallSetPos(p)) \/ Flush

Next == /\ ~crashed
        /\ \/ Worker /\ UNCHANGED crashed
           \/ \E t \in Type : \/ Reading(t) /\ UNCHANGED <<failed, crashed>>
                              \/ ReadBuff(t) /\ UNCHANGED failed
           \/ (Seeking \/ Calls) /\ UNCHANGED <<failed, crashed>>

Spec == Init /\ [][Next]_vars

(* The threads run.  A mutex is got by who asks again and again: the       *)
(* read thread sleeps 1 ms before it takes m_lckSeek, for the sake of      *)
(* SetPos (CQCSource.cpp:573), and a renderer between two reads.  A wait   *)
(* in ReadBuff ends after 20 tries.                                        *)
Step(A) == ~crashed /\ A /\ UNCHANGED <<failed, crashed>>
Fairness ==
  /\ WF_vars(~crashed /\ Worker /\ UNCHANGED crashed)
  /\ \A t \in Type : /\ SF_vars(Step(BeginRead(t))) /\ WF_vars(Step(StopWaiting(t)))
                     /\ WF_vars(Step(AskEnd(t) \/ Deliver(t) \/ EndRead(t)))
                     /\ WF_vars(~crashed /\ reader[t].pc = "read" /\ ReadBuff(t) /\ UNCHANGED failed)
  /\ SF_vars(Step(LockSeek)) /\ SF_vars(Step(BaseSetPos))
  /\ WF_vars(Step(ParserSetPos \/ ParserSetPosFails))

LiveSpec == Spec /\ Fairness

-----------------------------------------------------------------------------
(* Properties *)

(* The variables have their types (the members of CBuffMng, CBaseSource    *)
(* and CQCSource, and the threads that use them).                          *)
TypeOK ==
  /\ BuffTypeOK
  /\ m_bEO \in [Type -> BOOLEAN] /\ m_bNewPos \in [Type -> BOOLEAN]
  /\ m_llSrcSeekPos \in Nat /\ m_bNeedBuffing \in BOOLEAN
  /\ m_nBuffRead \in 0..(BuffReads + 1)
  /\ next \in [Type -> 0..N] /\ m_bReadVideoHead \in BOOLEAN
  /\ m_nMediaType \in Type \cup {"none"} /\ m_nHadReadVideo \in 0..4
  /\ m_lckSeek \in {"worker", "engine", "none"} /\ m_lckReader \in Type \cup {"none"}
  /\ worker \in [pc : {"idle", "parse", "fetch", "end"},
                 f : Frame \cup {Null}, again : BOOLEAN, used : BOOLEAN]
  /\ reader \in [Type -> [pc : {"idle", "read", "eo", "wait", "got", "end"},
                          rc : {"none", "frame", "retry", "finish", "crash"},
                          f : Frame \cup {Null}, other : BOOLEAN]]
  /\ engine \in [pc : {"idle", "lock", "base", "parser"}, pos : Nat]
  /\ seeks \in 0..MaxSeek /\ failed \in 0..MaxFails
  /\ fails \in [Type -> 0..nKeepFrames] /\ last \in [Type -> Nat \cup {-1}]
  /\ jump \in [Type -> {"no", "seek", "flush"}]
  /\ ended \in [Type -> BOOLEAN] /\ cut \in [Type -> BOOLEAN]
  /\ astray \in BOOLEAN /\ crashed \in BOOLEAN

InHand(t) == IF worker.pc = "fetch" /\ m_nMediaType = t THEN 1 ELSE 0
InRead(t) == IF reader[t].pc = "got" THEN 1 ELSE 0

(* No buffer is lost or in two places (CBuffMng.cpp:973-980 counts them    *)
(* when all are released): those created are in a list, in the hands of    *)
(* the read thread, or between Read and Return, through seeks, flushes,    *)
(* late frames and failed reads.                                           *)
Conserved ==
  ~crashed => \A t \in Type :
    m_nNewEmptyNum[t] = Len(m_lst[t]) + Len(m_lstEmpty[t]) + InHand(t) + InRead(t)

(* ReadBuff returns a buffer before the decoder has used it                *)
(* (CBaseSource.cpp:201); the parser must not get it before the decoder    *)
(* asks for the next, unless nKeepFrames reads of the parser have failed   *)
(* meanwhile and were returned behind it.                                  *)
InUseKept == ~worker.used

(* The end of a stream is reported only when the parser has nothing more   *)
(* of it or a read failed, whatever seeks came in between.                 *)
FinishIsEnd == \A t \in Type : ended[t] => next[t] = N \/ cut[t]

(* The video decoder gets a frame that depends on others right after the   *)
(* frame before it: gaps left by seeks, flushes and dropped late frames    *)
(* end with a key frame.                                                   *)
VideoDecodable ==
  [][last["video"]' \in {last["video"], last["video"] + 1} \cup Key \/ astray]_last

(* Outside a seek or a flush no audio frame is skipped or repeated, though *)
(* what is buffered and what the parser reads next are moved separately.   *)
AudioContinuous ==
  [][last["audio"]' \in {last["audio"], last["audio"] + 1} \/ jump["audio"] # "no" \/ astray]_last

(* SetPos returns: the read thread and the renderers let it have the       *)
(* mutexes.                                                                *)
SeekReturns == engine.pc # "idle" ~> engine.pc = "idle" \/ crashed

(* When no more is asked of the source, both renderers come to the end:    *)
(* buffering ends, full buffers are read, and no alignment of audio and    *)
(* video waits for what is not read.                                       *)
EndReported == \A t \in Type : <>[](ended[t] \/ crashed)

=============================================================================
