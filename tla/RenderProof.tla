----------------------------- MODULE RenderProof -----------------------------
(***************************************************************************)
(* Proofs about the renderers and their clock, for every source and        *)
(* sequence of calls.                                                      *)
(*                                                                         *)
(* PausedIsQuiet: Pause has set the status of both threads before it stops *)
(* the clock, and a pass that began before starts it only if the status    *)
(* still is Run.  IInv is the inductive invariant.                         *)
(*                                                                         *)
(* TypeOK: TypeInv, with the types of all members of a renderer, since the *)
(* clock is set to the time of a frame and to the position of a seek.      *)
(***************************************************************************)
EXTENDS Render, SequenceLemmas

IsClock(c) == DOMAIN c = {"m_bRun", "m_llStart", "m_llLast"}

Shape ==
  /\ IsClock(clock)
  /\ DOMAIN rnd = Kind /\ \A r \in Kind : {"status", "pc"} \subseteq DOMAIN rnd[r]
  /\ {"pc", "op"} \subseteq DOMAIN eng

(* The engine has paused, or set the position of a paused player. *)
Quiet == m_stsPlay = "Pause" /\ eng.pc \in {"idle", "posAudio", "posVideo", "posSource"}

NoneRuns == \A r \in Kind : rnd[r].status # "run"

ClockStands == ~AudioIsLater /\ Quiet => ~clock.m_bRun

(* Both threads were told before the clock is stopped. *)
ToldToPause ==
  /\ Quiet => NoneRuns
  /\ eng.pc \in {"wait1", "pause2", "wait2"} => rnd["video"].status # "run"
  /\ eng.pc = "wait2" => rnd["audio"].status # "run"

(* Only a seek of a player that runs pauses and starts it. *)
SeekOfRunning ==
  /\ IsSeek /\ eng.pc \in {"pause1", "wait1", "pause2", "wait2", "start1", "start2"}
       => m_stsPlay = "Run"
  /\ eng.pc = "seekWait" => m_stsPlay = "Run"

IInv == Shape /\ ClockStands /\ ToldToPause /\ SeekOfRunning

-----------------------------------------------------------------------------
(* The clock: only Start lets it run. *)

LEMMA ClockKeeps ==
  ASSUME NEW c, IsClock(c), NEW t
  PROVE  /\ IsClock(SetTime(c, t)) /\ SetTime(c, t).m_bRun = c.m_bRun
         /\ IsClock(NotZero(c)) /\ NotZero(c).m_bRun = c.m_bRun
         /\ IsClock(Tick(c)) /\ Tick(c).m_bRun = c.m_bRun
         /\ IsClock(ClockStart(c))
         /\ IsClock(ClockPause(c)) /\ ~ClockPause(c).m_bRun
<1>1. ASSUME NEW u PROVE IsClock(SetTime(c, u)) /\ SetTime(c, u).m_bRun = c.m_bRun
  BY DEF IsClock, SetTime
<1>2. IsClock(NotZero(c)) /\ NotZero(c).m_bRun = c.m_bRun
  BY <1>1 DEF NotZero
<1>3. IsClock(Tick(c)) /\ Tick(c).m_bRun = c.m_bRun
  BY DEF IsClock, Tick
<1>4. IsClock(ClockStart(c)) /\ IsClock(ClockPause(c)) /\ ~ClockPause(c).m_bRun
  BY DEF IsClock, ClockStart, ClockPause
<1> QED BY <1>1, <1>2, <1>3, <1>4

LEMMA StartClockKeeps ==
  ASSUME NEW c, IsClock(c), NEW t, NEW r
  PROVE  /\ IsClock(StartClock(r, c, t))
         /\ ~Runs(r) => StartClock(r, c, t).m_bRun = c.m_bRun
  BY ClockKeeps, \A u : IsClock(SetTime(ClockStart(c), u)) DEF StartClock

(* What a pass leaves alone: the status of the threads. *)
SameStatus ==
  /\ DOMAIN rnd' = Kind
  /\ \A r \in Kind : {"status", "pc"} \subseteq DOMAIN rnd'[r] /\ rnd'[r].status = rnd[r].status

(* A step of a renderer keeps the invariant if it does not start the clock *)
(* while no thread runs.                                                   *)
LEMMA QuietStep ==
  ASSUME IInv, SameStatus, UNCHANGED <<sc, eng, m_stsPlay>>, IsClock(clock'),
         ~AudioIsLater /\ NoneRuns /\ ~clock.m_bRun => ~clock'.m_bRun
  PROVE  IInv'
<1>1. Shape' /\ SeekOfRunning'
  BY DEF IInv, Shape, SameStatus, SeekOfRunning, IsSeek
<1>2. NoneRuns => NoneRuns'
  BY DEF NoneRuns, SameStatus
<1>3. ToldToPause'
  BY <1>2 DEF IInv, ToldToPause, Quiet, SameStatus, Kind
<1>4. ClockStands'
  BY <1>2 DEF IInv, ToldToPause, ClockStands, Quiet, AudioIsLater, FirstTime
<1> QED BY <1>1, <1>3, <1>4 DEF IInv

LEMMA InitIInv == Init => IInv
<1> SUFFICES ASSUME Init PROVE IInv
  OBVIOUS
<1>1. Shape
  BY DEF Init, Shape, IsClock, NewClock, Kind
<1>2. ~Quiet /\ eng.pc = "idle"
  BY DEF Init, Quiet
<1> QED BY <1>1, <1>2 DEF IInv, ClockStands, ToldToPause, SeekOfRunning

-----------------------------------------------------------------------------
(* The renderers. *)

LEMMA PassStep ==
  ASSUME IInv, NEW r \in Kind, Pass(r)
  PROVE  IInv'
<1> USE DEF IInv, Shape, SameStatus, engine, Goes, Leaves
<1>1. CASE TestStatus(r)
  BY <1>1, QuietStep DEF TestStatus
<1>2. CASE EnterPass(r)
  BY <1>2, QuietStep DEF EnterPass
<1>3. CASE NothingYet(r)
  BY <1>3, QuietStep DEF NothingYet
<1>4. CASE Buffering(r)
  <2>1. IsClock(clock') /\ (~clock.m_bRun => ~clock'.m_bRun)
    BY <1>4, ClockKeeps DEF Buffering
  <2> QED BY <1>4, <2>1, QuietStep DEF Buffering
<1>5. CASE ReadEnd(r)
  <2>1. IsClock(clock') /\ clock'.m_bRun = clock.m_bRun
    <3>1. clock' = clock \/ clock' = SetTime(clock, rnd[r].m_llSeekPos)
      BY <1>5 DEF ReadEnd, ClockAtEnd
    <3> QED BY <3>1, ClockKeeps
  <2>2. SameStatus
    BY <1>5 DEF ReadEnd
  <2> QED BY <1>5, <2>1, <2>2, QuietStep DEF ReadEnd
<1> QED BY <1>1, <1>2, <1>3, <1>4, <1>5 DEF Pass

LEMMA VideoStep ==
  ASSUME IInv, Video
  PROVE  IInv'
<1> USE DEF IInv, Shape, SameStatus, engine, Goes, Leaves
<1>1. CASE Pass("video")
  BY <1>1, PassStep DEF Kind
<1>2. CASE ReadVideo
  <2>1. SameStatus
    BY <1>2 DEF ReadVideo
  <2>2. PICK c : /\ IsClock(c) /\ c.m_bRun = clock.m_bRun
                 /\ clock' = StartClock("video", c, Frame("video").t)
    BY <1>2, ClockKeeps DEF ReadVideo
  <2>3. IsClock(clock') /\ (NoneRuns => clock'.m_bRun = clock.m_bRun)
    BY <2>2, StartClockKeeps DEF NoneRuns, Runs, Kind
  <2> QED BY <1>2, <2>1, <2>3, QuietStep DEF ReadVideo
<1>3. CASE WaitRenderTime
  BY <1>3, QuietStep DEF WaitRenderTime
<1>4. CASE Show
  <2>1. SameStatus
    BY <1>4 DEF Show
  <2> QED BY <1>4, <2>1, QuietStep DEF Show
<1>5. CASE WaitFirstAudio
  <2>1. IsClock(clock') /\ clock'.m_bRun = clock.m_bRun
    BY <1>5, ClockKeeps DEF WaitFirstAudio
  <2> QED BY <1>5, <2>1, QuietStep DEF WaitFirstAudio
<1> QED BY <1>1, <1>2, <1>3, <1>4, <1>5 DEF Video

LEMMA AcceptKeeps ==
  ASSUME Shape, Accept
  PROVE  SameStatus
  BY DEF Shape, Accept, SameStatus, Kind

LEMMA AudioStep ==
  ASSUME IInv, Audio
  PROVE  IInv'
<1> USE DEF IInv, Shape, SameStatus, engine, Goes, Leaves
<1>1. CASE Pass("audio")
  BY <1>1, PassStep DEF Kind
<1>2. CASE ReadAudio
  <2>1. SameStatus
    BY <1>2 DEF ReadAudio
  <2>2. IsClock(clock') /\ (~AudioIsLater => clock'.m_bRun = clock.m_bRun)
    BY <1>2, ClockKeeps DEF ReadAudio, ClockAtEnd
  <2> QED BY <1>2, <2>1, <2>2, QuietStep DEF ReadAudio
<1>3. CASE WaitAudio
  BY <1>3, QuietStep DEF WaitAudio
<1>4. CASE StartAudio
  <2>1. SameStatus
    BY <1>4, AcceptKeeps DEF StartAudio
  <2>2. PICK c : /\ c = StartClock("audio", clock, Time("audio"))
                 /\ clock' = c \/ clock' = NotZero(c)
    BY <1>4 DEF StartAudio
  <2>3. IsClock(clock') /\ (NoneRuns => clock'.m_bRun = clock.m_bRun)
    BY <2>2, StartClockKeeps, ClockKeeps DEF NoneRuns, Runs, Kind
  <2> QED BY <1>4, <2>1, <2>3, QuietStep DEF StartAudio
<1>5. CASE WaitVideo
  <2>1. SameStatus
    BY <1>5, AcceptKeeps DEF WaitVideo
  <2> QED BY <1>5, <2>1, QuietStep DEF WaitVideo
<1>6. CASE WaitFirstVideo
  <2>1. IsClock(clock') /\ clock'.m_bRun = clock.m_bRun
    BY <1>6, ClockKeeps DEF WaitFirstVideo
  <2> QED BY <1>6, <2>1, QuietStep DEF WaitFirstVideo
<1>7. CASE Play
  <2>1. SameStatus
    BY <1>7 DEF Play
  <2>2. PICK c : /\ c = clock \/ c = SetTime(clock, Time("audio"))
                 /\ clock' = c \/ clock' = SetTime(c, Time("audio"))
    BY <1>7 DEF Play, Time
  <2>3. IsClock(clock') /\ clock'.m_bRun = clock.m_bRun
    BY <2>2, ClockKeeps
  <2> QED BY <1>7, <2>1, <2>3, QuietStep DEF Play
<1> QED BY <1>1, <1>2, <1>3, <1>4, <1>5, <1>6, <1>7 DEF Audio

-----------------------------------------------------------------------------
(* The engine. *)

LEMMA ApplicationStep ==
  ASSUME IInv, Application
  PROVE  IInv'
<1> USE DEF IInv, Shape, ClockStands, ToldToPause, SeekOfRunning, Quiet, NoneRuns, IsSeek,
            renderers, AudioIsLater, FirstTime, Kind
<1>1. CASE CallStart
  BY <1>1 DEF CallStart, Call
<1>2. CASE CallPause
  BY <1>2 DEF CallPause, Call
<1>3. ASSUME NEW pos \in SeekPos, CallSetPos(pos) PROVE IInv'
  BY <1>3 DEF CallSetPos, Call, SeekFrom
<1>4. CASE CallStop
  BY <1>4 DEF CallStop
<1> QED BY <1>1, <1>2, <1>3, <1>4 DEF Application

LEMMA EngineStep ==
  ASSUME IInv, EngineGoesOn
  PROVE  IInv'
<1> USE DEF IInv, Shape, ClockStands, ToldToPause, SeekOfRunning, Quiet, NoneRuns, IsSeek,
            renderers, AudioIsLater, FirstTime, Kind, Engine, Idle
<1>1. CASE StartRenderer
  BY <1>1 DEF StartRenderer, Started
<1>2. CASE PauseRenderer
  BY <1>2 DEF PauseRenderer, Paused
<1>3. CASE PausedVideo
  BY <1>3 DEF PausedVideo, Ended
<1>4. CASE PausedAudio
  BY <1>4, ClockKeeps DEF PausedAudio, Ended
<1>5. CASE Stop
  BY <1>5 DEF Stop
<1>6. CASE SetPosAudio
  BY <1>6 DEF SetPosAudio, SetRenderer
<1>7. CASE SetPosVideo
  BY <1>7, ClockKeeps DEF SetPosVideo, SetRenderer
<1>8. CASE SetPosSource
  BY <1>8 DEF SetPosSource
<1>9. CASE SeekEnds
  BY <1>9 DEF SeekEnds
<1> QED BY <1>1, <1>2, <1>3, <1>4, <1>5, <1>6, <1>7, <1>8, <1>9 DEF EngineGoesOn

LEMMA OtherStep ==
  ASSUME IInv, Messages \/ ClockTicks \/ UNCHANGED vars
  PROVE  IInv'
<1> USE DEF IInv, Shape, ClockStands, ToldToPause, SeekOfRunning, Quiet, NoneRuns, IsSeek,
            renderers, engine, AudioIsLater, FirstTime, Kind
<1>1. CASE DropEOS
  BY <1>1 DEF DropEOS
<1>2. CASE HandleEOS
  BY <1>2 DEF HandleEOS, SeekFrom
<1>3. CASE ClockTicks
  BY <1>3, ClockKeeps DEF ClockTicks
<1>4. CASE UNCHANGED vars
  BY <1>4 DEF vars
<1> QED BY <1>1, <1>2, <1>3, <1>4 DEF Messages

-----------------------------------------------------------------------------
(* The clock of a paused player stands, in whatever step of its pass each  *)
(* renderer was when Pause or a seek came, if audio does not begin later   *)
(* than video (CBoxRender.cpp:94, CBoxVideoRnd.cpp:322, CBoxAudioRnd.cpp:  *)
(* 321): for every source, position and number of calls.                   *)
THEOREM ClockOfPausedStands == Spec => []PausedIsQuiet
<1>1. IInv /\ [Next]_vars => IInv'
  BY VideoStep, AudioStep, ApplicationStep, EngineStep, OtherStep DEF Next
<1>2. IInv => PausedIsQuiet
  BY DEF IInv, ClockStands, Quiet, PausedIsQuiet
<1> QED BY InitIInv, <1>1, <1>2, PTL DEF Spec

-----------------------------------------------------------------------------
(* Types: those of TypeOK, and of what it does not mention.                *)

Times == 0..MaxTime
Status == {"run", "pause", "stop"}
Renderer == [status : Status, pc : VideoPcs \cup AudioPcs, frame : [t : Times, new : BOOLEAN],
             m_bEOS : BOOLEAN, m_nRndCount : 0..1, m_llSeekPos : Times,
             m_llLastRndTime : Times, m_bDropFrame : BOOLEAN]
Stream == [next : Nat, new : BOOLEAN, m_bEOS : BOOLEAN]
EngineCall == [pc : EnginePcs, pos : Times,
               op : {"none", "Start", "Pause", "Seek", "SeekToStart", "Stop"}]

RndInv ==
  /\ rnd \in [Kind -> Renderer]
  /\ rnd["video"].pc \in VideoPcs /\ rnd["audio"].pc \in AudioPcs

SrcInv ==
  /\ sc \in Scenario /\ src \in [Kind -> Stream]
  /\ \A r \in Kind : src[r].next \in 1..(Len(sc[r]) + 1)

EngInv ==
  /\ eng \in EngineCall /\ device \in 0..1
  /\ m_stsPlay \in {"Open", "Run", "Pause", "Stop"} /\ complete \in {"no", "yes", "lost"}

ClockInv == clock \in ClockState

TypeInv == SrcInv /\ RndInv /\ EngInv /\ ClockInv

LEMMA KeepsClock ==
  ASSUME NEW c \in ClockState, NEW t \in Times, NEW r
  PROVE  /\ SetTime(c, t) \in ClockState /\ NotZero(c) \in ClockState
         /\ ClockStart(c) \in ClockState /\ ClockPause(c) \in ClockState
         /\ StartClock(r, c, t) \in ClockState
         /\ Ticks(c) => Tick(c) \in ClockState
<1>0. MaxTime \in Nat /\ MaxTime >= 1 /\ 1 \in Times
  BY ClockAssumption DEF Times
<1>1. ASSUME NEW d \in ClockState, NEW u \in Times PROVE SetTime(d, u) \in ClockState
  <2>1. AtLeast1(u) \in 0..MaxTime
    BY <1>0 DEF AtLeast1, Times
  <2> QED BY <2>1 DEF SetTime, ClockState
<1>2. ClockStart(c) \in ClockState
  BY DEF ClockStart, ClockState
<1>3. ClockPause(c) \in ClockState
  <2>1. AtLeast1(GetTime(c)) \in 0..MaxTime
    BY <1>0 DEF AtLeast1, GetTime, ClockState
  <2> QED BY <2>1 DEF ClockPause, ClockState
<1>4. Ticks(c) => Tick(c) \in ClockState
  BY <1>0 DEF Ticks, Tick, ClockState
<1>5. NotZero(c) \in ClockState
  BY <1>0, <1>1 DEF NotZero
<1>6. StartClock(r, c, t) \in ClockState
  BY <1>1, <1>2 DEF StartClock
<1> QED BY <1>1, <1>2, <1>3, <1>4, <1>5, <1>6

LEMMA StreamTimes ==
  ASSUME SrcInv, NEW r \in Kind
  PROVE  /\ Len(sc[r]) \in Nat /\ Len(sc[r]) >= 1 /\ DOMAIN sc[r] = 1..Len(sc[r])
         /\ FirstTime(r) \in Times /\ \A k \in 1..Len(sc[r]) : sc[r][k] \in Times
<1>1. sc[r] \in Seq(Times) /\ sc[r] # <<>>
  BY ScenarioAssumption DEF SrcInv, Times
<1>2. Len(sc[r]) \in Nat /\ DOMAIN sc[r] = 1..Len(sc[r]) /\ \A k \in 1..Len(sc[r]) : sc[r][k] \in Times
  BY <1>1, LenProperties, ElementOfSeq
<1>3. Len(sc[r]) # 0
  BY <1>1, EmptySeq
<1> QED BY <1>2, <1>3 DEF FirstTime

(* The position of a seek is that of a frame. *)
LEMMA FrameAtStream ==
  ASSUME SrcInv, NEW r \in Kind, NEW pos
  PROVE  FrameAt(r, pos) \in 1..Len(sc[r])
<1> DEFINE S == {1} \cup {k \in DOMAIN sc[r] : sc[r][k] <= pos}
<1>1. S \subseteq 1..Len(sc[r]) /\ S # {} /\ Len(sc[r]) \in Nat
  BY StreamTimes
<1>2. FrameAt(r, pos) = Max(S)
  BY DEF FrameAt
<1> HIDE DEF S
<1>3. S \subseteq 0..Len(sc[r])
  BY <1>1
<1>4. \E x \in S : \A y \in S : x >= y
  BY <1>1, <1>3, GreatestPosition
<1>5. Max(S) \in S
  BY <1>4 DEF Max
<1> QED BY <1>1, <1>2, <1>5

LEMMA InitTypes == Init => TypeInv
<1> SUFFICES ASSUME Init PROVE TypeInv
  OBVIOUS
<1>0. 0 \in Times
  BY ClockAssumption DEF Times
<1>1. SrcInv
  <2>1. sc \in Scenario /\ src \in [Kind -> Stream] /\ \A r \in Kind : src[r].next = 1
    BY DEF Init, Stream
  <2>2. \A r \in Kind : Len(sc[r]) \in Nat
    BY <2>1, ScenarioAssumption, LenProperties
  <2> QED BY <2>1, <2>2 DEF SrcInv
<1>2. RndInv
  BY <1>0 DEF Init, RndInv, Renderer, NoFrame, Status, VideoPcs, AudioPcs, Kind
<1>3. EngInv
  BY <1>0 DEF Init, EngInv, EngineCall, EnginePcs
<1>4. ClockInv
  BY <1>0 DEF Init, ClockInv, ClockState, NewClock, Times
<1> QED BY <1>1, <1>2, <1>3, <1>4 DEF TypeInv

LEMMA TakenTypes ==
  ASSUME SrcInv, NEW r \in Kind, HasFrame(r), Taken(r), sc' = sc
  PROVE  SrcInv' /\ Frame(r) \in [t : Times, new : BOOLEAN]
<1>1. src[r].next \in 1..Len(sc[r]) /\ \A q \in Kind : Len(sc[q]) \in Nat
  BY StreamTimes DEF SrcInv, HasFrame
<1>2. Frame(r) \in [t : Times, new : BOOLEAN]
  BY <1>1, StreamTimes DEF Frame, SrcInv, Stream
<1>3. src' \in [Kind -> Stream]
  <2> DEFINE c == [src[r] EXCEPT !.next = src[r].next + 1, !.new = FALSE]
  <2>1. c \in Stream
    <3>1. src[r].next + 1 \in Nat
      BY DEF SrcInv, Stream
    <3> QED BY <3>1 DEF SrcInv, Stream
  <2>2. src' = [src EXCEPT ![r] = c]
    BY DEF SrcInv, Taken
  <2> HIDE DEF c
  <2> QED BY <2>1, <2>2 DEF SrcInv
<1>4. ASSUME NEW q \in Kind PROVE src'[q].next \in 1..(Len(sc'[q]) + 1)
  BY <1>1 DEF SrcInv, Stream, Taken
<1> QED BY <1>2, <1>3, <1>4 DEF SrcInv

(* What moves no stream keeps their positions. *)
LEMMA EndTypes ==
  ASSUME SrcInv, NEW r \in Kind, NEW b \in BOOLEAN, src' = [src EXCEPT ![r].m_bEOS = b], sc' = sc
  PROVE  SrcInv'
<1>1. src' \in [Kind -> Stream]
  BY DEF SrcInv, Stream
<1>2. ASSUME NEW q \in Kind PROVE src'[q].next = src[q].next
  BY DEF SrcInv, Stream
<1> QED BY <1>1, <1>2 DEF SrcInv

LEMMA GoesTypes ==
  ASSUME RndInv, NEW r \in Kind, NEW p \in IF r = "video" THEN VideoPcs ELSE AudioPcs, Goes(r, p)
  PROVE  RndInv'
  BY DEF RndInv, Renderer, Goes, Kind

LEMMA LeavesTypes ==
  ASSUME RndInv, NEW r \in Kind, Leaves(r)
  PROVE  RndInv'
<1>1. NoFrame \in [t : Times, new : BOOLEAN]
  BY ClockAssumption DEF NoFrame, Times
<1>2. "out" \in VideoPcs \cap AudioPcs
  BY DEF VideoPcs, AudioPcs
<1> QED BY <1>1, <1>2 DEF RndInv, Renderer, Leaves, Kind

(* A step changes one renderer, and leaves its program. *)
LEMMA SetTypes ==
  ASSUME RndInv, NEW r \in Kind, NEW c \in Renderer,
         c.pc \in IF r = "video" THEN VideoPcs ELSE AudioPcs, rnd' = [rnd EXCEPT ![r] = c]
  PROVE  RndInv'
  BY DEF RndInv, Kind

(* Of a renderer, the times that the clock is set to. *)
LEMMA RendererTimes ==
  ASSUME RndInv, NEW r \in Kind
  PROVE  Time(r) \in Times /\ rnd[r].m_llSeekPos \in Times
  BY DEF RndInv, Renderer, Time

LEMMA EngineSame ==
  ASSUME EngInv, UNCHANGED <<engine, device>>
  PROVE  EngInv'
  BY DEF EngInv, engine

LEMMA PassTypes ==
  ASSUME TypeInv, NEW r \in Kind, Pass(r)
  PROVE  TypeInv'
<1> USE DEF TypeInv, ClockInv
<1>0. /\ "out" \in IF r = "video" THEN VideoPcs ELSE AudioPcs
      /\ "tested" \in IF r = "video" THEN VideoPcs ELSE AudioPcs
      /\ "read" \in IF r = "video" THEN VideoPcs ELSE AudioPcs
  BY DEF VideoPcs, AudioPcs
<1>1. CASE TestStatus(r)
  BY <1>0, <1>1, GoesTypes, EngineSame DEF TestStatus, SrcInv, engine
<1>2. CASE EnterPass(r)
  BY <1>0, <1>2, GoesTypes, EngineSame DEF EnterPass, SrcInv, engine
<1>3. CASE NothingYet(r)
  BY <1>3, LeavesTypes, EngineSame DEF NothingYet, SrcInv, engine
<1>4. CASE Buffering(r)
  <2>1. RndInv'
    BY <1>4, LeavesTypes DEF Buffering
  <2>2. clock' \in ClockState
    <3>1. 0 \in Times
      BY ClockAssumption DEF Times
    <3> QED BY <1>4, <3>1, KeepsClock DEF Buffering
  <2>3. SrcInv' /\ EngInv'
    BY <1>4 DEF Buffering, SrcInv, EngInv
  <2> QED BY <2>1, <2>2, <2>3
<1>5. CASE ReadEnd(r)
  <2>1. SrcInv'
    BY <1>5, EndTypes DEF ReadEnd, engine
  <2>2. RndInv'
    <3>1. CASE Leaves(r)
      BY <3>1, LeavesTypes
    <3>2. CASE rnd' = [rnd EXCEPT ![r].pc = "out", ![r].m_bEOS = TRUE]
      BY <1>0, <3>2 DEF RndInv, Renderer, Kind
    <3> QED BY <1>5, <3>1, <3>2 DEF ReadEnd
  <2>3. clock' \in ClockState
    <3>1. clock' = clock \/ clock' = SetTime(clock, rnd[r].m_llSeekPos)
      BY <1>5 DEF ReadEnd, ClockAtEnd
    <3> QED BY <3>1, KeepsClock, RendererTimes
  <2> QED BY <1>5, <2>1, <2>2, <2>3, EngineSame DEF ReadEnd
<1> QED BY <1>1, <1>2, <1>3, <1>4, <1>5 DEF Pass

LEMMA VideoTypes ==
  ASSUME TypeInv, Video
  PROVE  TypeInv'
<1> USE DEF TypeInv, ClockInv
<1>0. "video" \in Kind /\ "audio" \in Kind /\ {"out", "wait", "show", "other"} \subseteq VideoPcs
  BY DEF Kind, VideoPcs
<1>1. CASE Pass("video")
  BY <1>0, <1>1, PassTypes
<1>2. CASE ReadVideo
  <2> DEFINE f == Frame("video")
             set == IF m_bBuffering THEN SetTime(clock, f.t) ELSE clock
  <2>1. SrcInv' /\ f \in [t : Times, new : BOOLEAN]
    BY <1>0, <1>2, TakenTypes DEF ReadVideo, engine
  <2> HIDE DEF f
  <2>2. f.t \in Times
    BY <2>1
  <2>3. set \in ClockState
    BY <2>2, KeepsClock
  <2>4. clock' = StartClock("video", set, f.t)
    BY <1>2 DEF ReadVideo, f
  <2> HIDE DEF set
  <2>5. clock' \in ClockState
    BY <2>2, <2>3, <2>4, KeepsClock
  <2>6. PICK p \in {"wait", "show"}, n \in {0, rnd["video"].m_nRndCount} :
          rnd' = [rnd EXCEPT !["video"].pc = p, !["video"].frame = f, !["video"].m_nRndCount = n]
    BY <1>2 DEF ReadVideo, f
  <2>7. RndInv'
    <3> DEFINE c == [rnd["video"] EXCEPT !.pc = p, !.frame = f, !.m_nRndCount = n]
    <3>1. p \in VideoPcs /\ n \in 0..1
      BY <1>0 DEF RndInv, Renderer
    <3>2. c \in Renderer /\ c.pc = p
      BY <1>0, <2>1, <3>1 DEF RndInv, Renderer
    <3>3. rnd' = [rnd EXCEPT !["video"] = c]
      BY <2>6 DEF RndInv
    <3> HIDE DEF c
    <3> QED BY <1>0, <3>1, <3>2, <3>3, SetTypes
  <2> QED BY <1>2, <2>1, <2>5, <2>7, EngineSame DEF ReadVideo
<1>3. CASE WaitRenderTime
  BY <1>0, <1>3, GoesTypes, EngineSame DEF WaitRenderTime, SrcInv, engine
<1>4. CASE Show
  <2>1. NoFrame \in [t : Times, new : BOOLEAN] /\ Time("video") \in Times
    BY <1>0, ClockAssumption, RendererTimes DEF NoFrame, Times
  <2>2. CASE rnd' = [rnd EXCEPT !["video"].m_bDropFrame = TRUE, !["video"].pc = "out",
                                !["video"].frame = NoFrame]
    <3> DEFINE c == [rnd["video"] EXCEPT !.m_bDropFrame = TRUE, !.pc = "out", !.frame = NoFrame]
    <3>1. c \in Renderer /\ c.pc = "out"
      BY <1>0, <2>1 DEF RndInv, Renderer
    <3>2. rnd' = [rnd EXCEPT !["video"] = c]
      BY <2>2 DEF RndInv
    <3> HIDE DEF c
    <3>3. RndInv'
      BY <1>0, <3>1, <3>2, SetTypes
    <3> QED BY <1>4, <3>3, EngineSame DEF Show, SrcInv, engine
  <2>3. CASE \E p \in {"other", "out"}, g \in {NoFrame, rnd["video"].frame} :
               rnd' = [rnd EXCEPT !["video"].m_bDropFrame = FALSE,
                         !["video"].m_nRndCount = 1, !["video"].m_llLastRndTime = Time("video"),
                         !["video"].pc = p, !["video"].frame = g]
    <3>1. PICK p \in {"other", "out"}, g \in {NoFrame, rnd["video"].frame} :
             rnd' = [rnd EXCEPT !["video"].m_bDropFrame = FALSE,
                       !["video"].m_nRndCount = 1, !["video"].m_llLastRndTime = Time("video"),
                       !["video"].pc = p, !["video"].frame = g]
      BY <2>3
    <3> DEFINE c == [rnd["video"] EXCEPT !.m_bDropFrame = FALSE, !.m_nRndCount = 1,
                       !.m_llLastRndTime = Time("video"), !.pc = p, !.frame = g]
    <3>2. p \in VideoPcs /\ g \in [t : Times, new : BOOLEAN] /\ 1 \in 0..1
      BY <1>0, <2>1 DEF RndInv, Renderer
    <3>3. c \in Renderer /\ c.pc = p
      BY <1>0, <2>1, <3>2 DEF RndInv, Renderer
    <3>4. rnd' = [rnd EXCEPT !["video"] = c]
      BY <3>1 DEF RndInv
    <3> HIDE DEF c
    <3>5. RndInv'
      BY <1>0, <3>2, <3>3, <3>4, SetTypes
    <3> QED BY <1>4, <3>5, EngineSame DEF Show, SrcInv, engine
  <2> QED BY <1>4, <2>2, <2>3 DEF Show
<1>5. CASE WaitFirstAudio
  <2>1. Time("video") \in Times
    BY <1>0, RendererTimes
  <2>2. clock' \in ClockState
    BY <1>5, <2>1, KeepsClock DEF WaitFirstAudio
  <2>3. RndInv'
    BY <1>0, <1>5, LeavesTypes DEF WaitFirstAudio
  <2> QED BY <1>5, <2>2, <2>3, EngineSame DEF WaitFirstAudio, SrcInv, engine
<1> QED BY <1>1, <1>2, <1>3, <1>4, <1>5 DEF Video

LEMMA AcceptTypes ==
  ASSUME RndInv, Accept
  PROVE  RndInv'
<1>0. "audio" \in Kind /\ {"out", "other", "render"} \subseteq AudioPcs
  BY DEF Kind, AudioPcs
<1>1. NoFrame \in [t : Times, new : BOOLEAN]
  BY ClockAssumption DEF NoFrame, Times
<1>2. CASE rnd' = [rnd EXCEPT !["audio"].m_bDropFrame = TRUE, !["audio"].pc = "out",
                              !["audio"].frame = NoFrame]
  <2> DEFINE c == [rnd["audio"] EXCEPT !.m_bDropFrame = TRUE, !.pc = "out", !.frame = NoFrame]
  <2>1. c \in Renderer /\ c.pc = "out"
    BY <1>0, <1>1 DEF RndInv, Renderer
  <2>2. rnd' = [rnd EXCEPT !["audio"] = c]
    BY <1>2 DEF RndInv
  <2> HIDE DEF c
  <2> QED BY <1>0, <2>1, <2>2, SetTypes
<1>3. CASE \E p \in {"other", "render"} :
             rnd' = [rnd EXCEPT !["audio"].m_bDropFrame = FALSE, !["audio"].pc = p]
  <2>1. PICK p \in {"other", "render"} :
             rnd' = [rnd EXCEPT !["audio"].m_bDropFrame = FALSE, !["audio"].pc = p]
    BY <1>3
  <2> DEFINE c == [rnd["audio"] EXCEPT !.m_bDropFrame = FALSE, !.pc = p]
  <2>2. c \in Renderer /\ c.pc = p
    BY <1>0, <2>1 DEF RndInv, Renderer
  <2>3. rnd' = [rnd EXCEPT !["audio"] = c]
    BY <2>1 DEF RndInv
  <2> HIDE DEF c
  <2> QED BY <1>0, <2>1, <2>2, <2>3, SetTypes
<1> QED BY <1>2, <1>3 DEF Accept

LEMMA AudioTypes ==
  ASSUME TypeInv, Audio
  PROVE  TypeInv'
<1> USE DEF TypeInv, ClockInv
<1>0. "video" \in Kind /\ "audio" \in Kind
      /\ {"out", "wait", "start", "first", "other", "render"} \subseteq AudioPcs
  BY DEF Kind, AudioPcs
<1>t. Time("audio") \in Times
  BY <1>0, RendererTimes
<1>1. CASE Pass("audio")
  BY <1>0, <1>1, PassTypes
<1>2. CASE ReadAudio
  <2> DEFINE f == Frame("audio")
             set == IF src["audio"].m_bEOS THEN ClockAtEnd("audio") ELSE clock
             a == rnd["audio"]
             from == IF a.m_llSeekPos > 0 THEN a.m_llSeekPos ELSE FirstTime("video")
  <2>1. SrcInv' /\ f \in [t : Times, new : BOOLEAN]
    BY <1>0, <1>2, TakenTypes DEF ReadAudio, engine
  <2> HIDE DEF f
  <2>2. a.m_llSeekPos \in Times /\ from \in Times
    BY <1>0, RendererTimes, StreamTimes
  <2>3. set \in ClockState
    BY <2>2, KeepsClock DEF ClockAtEnd
  <2>4. clock' = IF AudioIsLater /\ a.m_nRndCount = 0 /\ ~set.m_bRun
                 THEN SetTime(ClockStart(set), from) ELSE set
    BY <1>2 DEF ReadAudio
  <2>5. PICK p \in {"wait", "start"}, b \in {rnd["audio"].m_bEOS \/ src["audio"].m_bEOS} :
          rnd' = [rnd EXCEPT !["audio"].pc = p, !["audio"].frame = f, !["audio"].m_bEOS = b]
    BY <1>2 DEF ReadAudio, f
  <2> HIDE DEF set, from, a
  <2>6. clock' \in ClockState
    <3>1. ClockStart(set) \in ClockState
      BY <2>2, <2>3, KeepsClock
    <3> QED BY <2>2, <2>3, <2>4, <3>1, KeepsClock
  <2>7. RndInv'
    <3> DEFINE c == [rnd["audio"] EXCEPT !.pc = p, !.frame = f, !.m_bEOS = b]
    <3>1. p \in AudioPcs /\ b \in BOOLEAN
      BY <1>0, <2>5
    <3>2. c \in Renderer /\ c.pc = p
      BY <1>0, <2>1, <3>1 DEF RndInv, Renderer
    <3>3. rnd' = [rnd EXCEPT !["audio"] = c]
      BY <2>5 DEF RndInv
    <3> HIDE DEF c
    <3> QED BY <1>0, <3>1, <3>2, <3>3, SetTypes
  <2> QED BY <1>2, <2>1, <2>6, <2>7, EngineSame DEF ReadAudio
<1>3. CASE WaitAudio
  BY <1>0, <1>3, GoesTypes, EngineSame DEF WaitAudio, SrcInv, engine
<1>4. CASE StartAudio
  <2>1. clock' \in ClockState
    <3>1. PICK c : /\ c = StartClock("audio", clock, Time("audio"))
                   /\ clock' = c \/ clock' = NotZero(c)
      BY <1>4 DEF StartAudio
    <3>2. c \in ClockState
      BY <1>t, <3>1, KeepsClock
    <3> QED BY <1>t, <3>1, <3>2, KeepsClock
  <2>2. RndInv'
    <3>1. CASE Goes("audio", "first")
      BY <1>0, <3>1, GoesTypes
    <3>2. CASE Accept
      BY <3>2, AcceptTypes
    <3> QED BY <1>4, <3>1, <3>2 DEF StartAudio
  <2> QED BY <1>4, <2>1, <2>2, EngineSame DEF StartAudio, SrcInv, engine
<1>5. CASE WaitVideo
  <2>1. RndInv'
    BY <1>0, <1>5, AcceptTypes, LeavesTypes DEF WaitVideo
  <2> QED BY <1>5, <2>1, EngineSame DEF WaitVideo, SrcInv, engine
<1>6. CASE WaitFirstVideo
  <2>1. clock' \in ClockState
    BY <1>t, <1>6, KeepsClock DEF WaitFirstVideo
  <2>2. RndInv'
    BY <1>0, <1>6, GoesTypes DEF WaitFirstVideo
  <2> QED BY <1>6, <2>1, <2>2, EngineSame DEF WaitFirstVideo, SrcInv, engine
<1>7. CASE Play
  <2>1. clock' \in ClockState
    <3>1. PICK c : /\ c = clock \/ c = SetTime(clock, Time("audio"))
                   /\ clock' = c \/ clock' = SetTime(c, Time("audio"))
      BY <1>7 DEF Play, Time
    <3>2. c \in ClockState
      BY <1>t, <3>1, KeepsClock
    <3> QED BY <1>t, <3>1, <3>2, KeepsClock
  <2>2. NoFrame \in [t : Times, new : BOOLEAN]
    BY ClockAssumption DEF NoFrame, Times
  <2>3. ASSUME \E n \in 0..1, t \in Times :
               rnd' = [[rnd EXCEPT !["audio"].pc = "out", !["audio"].frame = NoFrame]
                         EXCEPT !["audio"].m_nRndCount = n, !["audio"].m_llLastRndTime = t]
        PROVE  RndInv'
    <3>1. PICK n \in 0..1, t \in Times :
               rnd' = [[rnd EXCEPT !["audio"].pc = "out", !["audio"].frame = NoFrame]
                         EXCEPT !["audio"].m_nRndCount = n, !["audio"].m_llLastRndTime = t]
      BY <2>3
    <3> DEFINE c == [rnd["audio"] EXCEPT !.pc = "out", !.frame = NoFrame,
                       !.m_nRndCount = n, !.m_llLastRndTime = t]
    <3>2. c \in Renderer /\ c.pc = "out"
      BY <1>0, <2>2 DEF RndInv, Renderer
    <3>3. rnd' = [rnd EXCEPT !["audio"] = c]
      BY <1>0, <3>1 DEF RndInv
    <3> HIDE DEF c
    <3> QED BY <1>0, <3>2, <3>3, SetTypes
  <2>4. ASSUME \E n \in 0..1 :
               rnd' = [[rnd EXCEPT !["audio"].pc = "out", !["audio"].frame = NoFrame]
                         EXCEPT !["audio"].m_nRndCount = n]
        PROVE  RndInv'
    <3>1. PICK n \in 0..1 :
               rnd' = [[rnd EXCEPT !["audio"].pc = "out", !["audio"].frame = NoFrame]
                         EXCEPT !["audio"].m_nRndCount = n]
      BY <2>4
    <3> DEFINE c == [rnd["audio"] EXCEPT !.pc = "out", !.frame = NoFrame, !.m_nRndCount = n]
    <3>2. c \in Renderer /\ c.pc = "out"
      BY <1>0, <2>2 DEF RndInv, Renderer
    <3>3. rnd' = [rnd EXCEPT !["audio"] = c]
      BY <1>0, <3>1 DEF RndInv
    <3> HIDE DEF c
    <3> QED BY <1>0, <3>2, <3>3, SetTypes
  <2>5. RndInv'
    <3>1. rnd["audio"].m_nRndCount \in 0..1 /\ 0 \in 0..1 /\ 1 \in 0..1
      BY <1>0 DEF RndInv, Renderer
    <3>2. Time("audio") = rnd["audio"].frame.t
      BY DEF Time
    <3> QED BY <1>t, <1>7, <2>3, <2>4, <3>1, <3>2 DEF Play
  <2>6. EngInv'
    BY <1>7 DEF Play, EngInv, engine
  <2> QED BY <1>7, <2>1, <2>5, <2>6 DEF Play, SrcInv, engine
<1> QED BY <1>1, <1>2, <1>3, <1>4, <1>5, <1>6, <1>7 DEF Audio

LEMMA ApplicationTypes ==
  ASSUME TypeInv, Application
  PROVE  TypeInv'
<1>0. 0 \in Times /\ SeekPos \subseteq Times
  BY ClockAssumption, RenderAssumption DEF Times
<1>1. ASSUME NEW op \in {"Start", "Pause", "Seek"}, NEW pc \in {"start1", "pause1", "posAudio"},
             NEW pos \in Times, Call(op, pc, pos), complete' \in {"no", complete}
      PROVE  TypeInv'
  <2>1. eng' \in EngineCall
    BY <1>1 DEF Call, EngineCall, EnginePcs
  <2>2. EngInv'
    BY <1>1, <2>1 DEF Call, EngInv, TypeInv, renderers
  <2> QED BY <1>1, <2>2 DEF Call, renderers, TypeInv, SrcInv, RndInv, ClockInv
<1>2. CASE CallStart
  BY <1>0, <1>1, <1>2 DEF CallStart
<1>3. CASE CallPause
  BY <1>0, <1>1, <1>3 DEF CallPause
<1>4. ASSUME NEW pos \in SeekPos, CallSetPos(pos) PROVE TypeInv'
  BY <1>0, <1>1, <1>4 DEF CallSetPos, SeekFrom
<1>5. CASE CallStop
  BY <1>5 DEF CallStop, renderers, TypeInv, SrcInv, RndInv, EngInv, ClockInv
<1> QED BY <1>2, <1>3, <1>4, <1>5 DEF Application

LEMMA StatusTypes ==
  ASSUME RndInv, NEW r \in Kind, NEW s \in Status, NEW b \in {FALSE, rnd[r].m_bEOS},
         rnd' = [rnd EXCEPT ![r].m_bEOS = b, ![r].status = s]
  PROVE  RndInv'
<1> DEFINE c == [rnd[r] EXCEPT !.m_bEOS = b, !.status = s]
<1>1. c \in Renderer /\ c.pc = rnd[r].pc
  BY DEF RndInv, Renderer
<1>2. rnd' = [rnd EXCEPT ![r] = c]
  BY DEF RndInv
<1>3. rnd[r].pc \in IF r = "video" THEN VideoPcs ELSE AudioPcs
  BY DEF RndInv, Kind
<1> HIDE DEF c
<1> QED BY <1>1, <1>2, <1>3, SetTypes

(* SetPos of a renderer at the position of the engine's call. *)
LEMMA SetRendererTypes ==
  ASSUME TypeInv, NEW r \in Kind, SetRenderer(r), sc' = sc
  PROVE  RndInv' /\ SrcInv' /\ device' \in 0..1
<1>0. eng.pos \in Times /\ 0 \in Times
  BY ClockAssumption DEF TypeInv, EngInv, EngineCall, Times
<1>1. SrcInv'
  BY EndTypes DEF SetRenderer, TypeInv
<1>2. PICK pos \in Times, t \in Times :
        rnd' = [rnd EXCEPT ![r].m_llSeekPos = pos, ![r].m_bEOS = FALSE, ![r].m_nRndCount = 0,
                           ![r].m_llLastRndTime = t]
  BY <1>0 DEF SetRenderer
<1> DEFINE c == [rnd[r] EXCEPT !.m_llSeekPos = pos, !.m_bEOS = FALSE, !.m_nRndCount = 0,
                               !.m_llLastRndTime = t]
<1>3. c \in Renderer /\ c.pc = rnd[r].pc
  <2>1. rnd[r] \in Renderer /\ 0 \in 0..1
    BY DEF RndInv, TypeInv
  <2> QED BY <2>1 DEF Renderer
<1>4. rnd' = [rnd EXCEPT ![r] = c]
  BY <1>2 DEF RndInv, TypeInv
<1>5. rnd[r].pc \in IF r = "video" THEN VideoPcs ELSE AudioPcs
  BY DEF RndInv, Kind, TypeInv
<1> HIDE DEF c
<1>6. RndInv'
  BY <1>3, <1>4, <1>5, SetTypes DEF TypeInv
<1> QED BY <1>1, <1>6 DEF SetRenderer, TypeInv, EngInv

LEMMA EngineTypes ==
  ASSUME TypeInv, EngineGoesOn
  PROVE  TypeInv'
<1> USE DEF TypeInv, ClockInv
<1>0. /\ 0 \in Times /\ Idle \in EngineCall /\ "video" \in Kind /\ "audio" \in Kind
      /\ \A p \in EnginePcs : Engine(p) => eng' \in EngineCall
  <2>1. 0 \in Times
    BY ClockAssumption DEF Times
  <2>2. Idle \in EngineCall
    BY <2>1 DEF Idle, EngineCall, EnginePcs
  <2>3. \A p \in EnginePcs : Engine(p) => eng' \in EngineCall
    BY DEF Engine, EngInv, EngineCall
  <2> QED BY <2>1, <2>2, <2>3 DEF Kind
<1>1. CASE StartRenderer
  <2>1. RndInv'
    <3>1. Started \in Kind /\ "run" \in Status
      BY DEF Started, Kind, Status
    <3> QED BY <1>1, <3>1, StatusTypes DEF StartRenderer
  <2>2. eng' \in EngineCall
    BY <1>0, <1>1 DEF StartRenderer, EnginePcs
  <2> QED BY <1>1, <2>1, <2>2 DEF StartRenderer, SrcInv, EngInv
<1>2. CASE PauseRenderer
  <2>1. RndInv'
    <3>1. Paused \in Kind /\ {"stop", "pause"} \subseteq Status
      BY DEF Paused, Kind, Status
    <3> DEFINE s == IF eng.op = "Stop" THEN "stop" ELSE "pause"
    <3>2. rnd' = [rnd EXCEPT ![Paused].status = s] /\ s \in Status
      BY <1>2, <3>1 DEF PauseRenderer
    <3> DEFINE c == [rnd[Paused] EXCEPT !.status = s]
    <3>3. rnd' = [rnd EXCEPT ![Paused] = c]
      BY <3>2
    <3>4. c \in Renderer /\ c.pc = rnd[Paused].pc
      BY <3>1, <3>2 DEF RndInv, Renderer
    <3>5. rnd[Paused].pc \in IF Paused = "video" THEN VideoPcs ELSE AudioPcs
      BY <3>1 DEF RndInv, Kind
    <3> HIDE DEF c
    <3> QED BY <3>1, <3>3, <3>4, <3>5, SetTypes
  <2>2. eng' \in EngineCall
    BY <1>0, <1>2 DEF PauseRenderer, EnginePcs
  <2> QED BY <1>2, <2>1, <2>2 DEF PauseRenderer, SrcInv, EngInv
<1>3. ASSUME NEW r \in Kind, Ended(r) PROVE RndInv'
  <2> DEFINE b == rnd[r].m_bDropFrame /\ eng.op # "Stop"
             c == [rnd[r] EXCEPT !.m_bDropFrame = b]
  <2>1. rnd' = [rnd EXCEPT ![r] = c]
    BY <1>3 DEF Ended
  <2>2. c \in Renderer /\ c.pc = rnd[r].pc
    <3>1. b \in BOOLEAN
      OBVIOUS
    <3> HIDE DEF b
    <3> QED BY <3>1 DEF RndInv, Renderer
  <2>3. rnd[r].pc \in IF r = "video" THEN VideoPcs ELSE AudioPcs
    BY DEF RndInv, Kind
  <2> HIDE DEF c
  <2> QED BY <2>1, <2>2, <2>3, SetTypes
<1>4. CASE PausedVideo
  <2>1. eng' \in EngineCall
    BY <1>0, <1>4 DEF PausedVideo, EnginePcs
  <2> QED BY <1>0, <1>3, <1>4, <2>1 DEF PausedVideo, SrcInv, EngInv
<1>5. CASE PausedAudio
  <2>1. eng' \in EngineCall
    BY <1>0, <1>5 DEF PausedAudio, EnginePcs
  <2>2. clock' \in ClockState
    BY <1>0, <1>5, KeepsClock DEF PausedAudio
  <2>3. RndInv'
    BY <1>0, <1>3, <1>5 DEF PausedAudio
  <2> QED BY <1>5, <2>1, <2>2, <2>3 DEF PausedAudio, SrcInv, EngInv
<1>6. CASE Stop
  <2>1. eng' \in EngineCall
    BY <1>0, <1>6 DEF Stop, EngineCall, EnginePcs
  <2> QED BY <1>6, <2>1 DEF Stop, renderers, SrcInv, EngInv, RndInv
<1>7. CASE SetPosAudio
  <2>1. eng' \in EngineCall
    BY <1>0, <1>7 DEF SetPosAudio, EnginePcs
  <2>2. RndInv' /\ SrcInv' /\ device' \in 0..1
    BY <1>0, <1>7, SetRendererTypes DEF SetPosAudio
  <2> QED BY <1>7, <2>1, <2>2 DEF SetPosAudio, EngInv
<1>8. CASE SetPosVideo
  <2>1. eng' \in EngineCall /\ eng.pos \in Times
    BY <1>0, <1>8 DEF SetPosVideo, EnginePcs, EngInv, EngineCall
  <2>2. RndInv' /\ SrcInv' /\ device' \in 0..1
    BY <1>0, <1>8, SetRendererTypes DEF SetPosVideo
  <2>3. clock' \in ClockState
    BY <1>8, <2>1, KeepsClock DEF SetPosVideo
  <2> QED BY <1>8, <2>1, <2>2, <2>3 DEF SetPosVideo, EngInv
<1>9. CASE SetPosSource
  <2>1. eng' \in EngineCall
    BY <1>0, <1>9 DEF SetPosSource, EnginePcs
  <2>2. ASSUME NEW r \in Kind
        PROVE  /\ src'[r] \in Stream /\ src'[r].next \in 1..(Len(sc'[r]) + 1)
    <3> DEFINE n == FrameAt(r, eng.pos)
    <3>1. n \in 1..Len(sc[r]) /\ Len(sc[r]) \in Nat
      BY FrameAtStream, StreamTimes
    <3>2. src'[r] = [src[r] EXCEPT !.next = n, !.new = TRUE] /\ sc' = sc
      BY <1>9 DEF SetPosSource
    <3> HIDE DEF n
    <3>3. n \in Nat /\ n \in 1..(Len(sc[r]) + 1) /\ src[r] \in Stream
      BY <3>1 DEF SrcInv
    <3>4. src'[r] \in Stream /\ src'[r].next = n
      BY <3>2, <3>3 DEF Stream
    <3> QED BY <3>2, <3>3, <3>4
  <2>3. SrcInv'
    <3>1. src' = [r \in Kind |-> src'[r]] /\ sc' \in Scenario
      BY <1>9 DEF SetPosSource, SrcInv
    <3> QED BY <2>2, <3>1 DEF SrcInv
  <2> QED BY <1>9, <2>1, <2>3 DEF SetPosSource, EngInv, RndInv
<1>10. CASE SeekEnds
  BY <1>0, <1>10 DEF SeekEnds, renderers, SrcInv, RndInv, EngInv
<1> QED BY <1>1, <1>2, <1>4, <1>5, <1>6, <1>7, <1>8, <1>9, <1>10 DEF EngineGoesOn

LEMMA OtherTypes ==
  ASSUME TypeInv, Messages \/ ClockTicks \/ UNCHANGED vars
  PROVE  TypeInv'
<1> USE DEF TypeInv, ClockInv
<1>1. CASE DropEOS
  BY <1>1 DEF DropEOS, renderers, SrcInv, RndInv, EngInv
<1>2. CASE HandleEOS
  <2>1. eng' \in EngineCall
    <3>1. 0 \in Times
      BY ClockAssumption DEF Times
    <3> QED BY <1>2, <3>1 DEF HandleEOS, EngInv, EngineCall, EnginePcs, SeekFrom
  <2> QED BY <1>2, <2>1 DEF HandleEOS, renderers, SrcInv, RndInv, EngInv
<1>3. CASE ClockTicks
  <2>1. clock' \in ClockState
    <3>1. 0 \in Times
      BY ClockAssumption DEF Times
    <3> QED BY <1>3, <3>1, KeepsClock DEF ClockTicks
  <2> QED BY <1>3, <2>1 DEF ClockTicks, engine, SrcInv, RndInv, EngInv
<1>4. CASE UNCHANGED vars
  BY <1>4 DEF vars, SrcInv, RndInv, EngInv
<1> QED BY <1>1, <1>2, <1>3, <1>4 DEF Messages

(* Every step of the renderers, the engine and the messages keeps the      *)
(* types: in particular the clock and all times stay within the streams,   *)
(* and a seek goes to a frame of each stream.                              *)
THEOREM TypeCorrect == Spec => []TypeOK
<1>1. TypeInv /\ [Next]_vars => TypeInv'
  BY VideoTypes, AudioTypes, ApplicationTypes, EngineTypes, OtherTypes DEF Next
<1>2. TypeInv => TypeOK
  <2> SUFFICES ASSUME TypeInv PROVE TypeOK
    OBVIOUS
  <2>1. \A r \in Kind : Time(r) \in 0..MaxTime
    BY RendererTimes DEF TypeInv, Times
  <2>2. \A r \in Kind :
          /\ rnd[r].status \in {"run", "pause", "stop"}
          /\ rnd[r].pc \in IF r = "video" THEN VideoPcs ELSE AudioPcs
          /\ rnd[r].m_nRndCount \in 0..1 /\ rnd[r].m_llLastRndTime \in 0..MaxTime
    BY DEF TypeInv, RndInv, Renderer, Status, Times, Kind
  <2> QED BY <2>1, <2>2 DEF TypeOK, TypeInv, SrcInv, EngInv, ClockInv, EngineCall
<1> QED BY InitTypes, <1>1, <1>2, PTL DEF Spec
==============================================================================
