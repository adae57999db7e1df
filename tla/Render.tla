-------------------------------- MODULE Render -------------------------------
(***************************************************************************)
(* The two renderers of a file and the clock they share: CBoxVideoRnd and  *)
(* CBoxAudioRnd (mfw/OMBox) with CBaseClock, driven by COMBoxMng.          *)
(*                                                                         *)
(*   each renderer has a work thread whose passes read a frame from its    *)
(*     decoder, wait for the clock or for the other renderer, and show or  *)
(*     play the frame;                                                     *)
(*   the engine starts, pauses, seeks and stops them, one call at a time   *)
(*     (m_mtFunc), and handles the end-of-stream messages.                 *)
(*                                                                         *)
(* The video pass holds its m_mtRnd from the read on, for which its SetPos *)
(* waits; the SetPos of audio takes no lock.  A pass that began before     *)
(* Pause may run after it: CThreadWork tests its status before it marks    *)
(* itself as working.                                                      *)
(*                                                                         *)
(* Frames are times.  What lies before the renderers (file, buffers,       *)
(* decoder) gives the frames in order, may have none for a while           *)
(* (RETRY, BUFFERING), and knows the end and the position of a seek.       *)
(* There are always both streams, of a source that is not live.            *)
(***************************************************************************)
EXTENDS Clock, Sequences, FiniteSetsExt

CONSTANTS
  Scenario,      \* [video, audio: times of frames, atEnd: "http", "local",
                 \*  calls, gaps: bounds of what the application does and of Buffering]
  Second,        \* an audio stream that starts later than this waits for video
  SeekMode,      \* m_nSeekMode > 0: frames before the position are dropped
  SeekPos        \* positions of SetPos

Kind == {"video", "audio"}
Other(r) == IF r = "video" THEN "audio" ELSE "video"

ASSUME ScenarioAssumption ==
  \A s \in Scenario : /\ s.atEnd \in {"http", "local"}
                      /\ {s.calls, s.gaps} \subseteq Nat
                      /\ \A r \in Kind : s[r] \in Seq(0..MaxTime) /\ s[r] # <<>>
ASSUME RenderAssumption ==
  /\ SeekMode \in BOOLEAN /\ SeekPos \subseteq 0..MaxTime
  /\ Second \in Nat

VARIABLES
  sc,            \* the scenario
  clock,
  rnd,           \* per renderer: its thread, its pass, its members
  m_bBuffering,  \* video had no buffers
  device,        \* m_nRndCount of the audio device
  src,           \* per stream: what is before the renderer
  eng,           \* the engine's call
  m_stsPlay, m_bSeeking, m_bForceClose,
  msgs,          \* end-of-stream messages that are not yet handled
  complete,      \* PLAY_COMPLETE: "no", "yes", "lost" with a dropped message
  calls, dry     \* bounded

vars == <<sc, clock, rnd, m_bBuffering, device, src, eng, m_stsPlay, m_bSeeking, m_bForceClose,
          msgs, complete, calls, dry>>
engine == <<sc, eng, m_stsPlay, m_bSeeking, m_bForceClose, complete, calls, dry>>

NoFrame == [t |-> 0, new |-> FALSE]

Init ==
  /\ sc \in Scenario /\ clock = NewClock
  /\ rnd = [r \in Kind |-> [status |-> "stop", pc |-> "out", frame |-> NoFrame,
                            m_bEOS |-> FALSE, m_nRndCount |-> 0, m_llSeekPos |-> 0,
                            m_llLastRndTime |-> 0, m_bDropFrame |-> FALSE]]
  /\ src = [r \in Kind |-> [next |-> 1, new |-> FALSE, m_bEOS |-> FALSE]]
  /\ m_bBuffering = FALSE /\ device = 0
  /\ eng = [pc |-> "idle", op |-> "none", pos |-> 0] /\ m_stsPlay = "Open"
  /\ m_bSeeking = FALSE /\ m_bForceClose = FALSE
  /\ msgs = 0 /\ complete = "no" /\ calls = 0 /\ dry = 0

Runs(r) == rnd[r].status = "run"
FirstTime(r) == sc[r][1]      \* m_llFVideoTime, m_llFAudioTime
AudioIsLater == FirstTime("audio") > FirstTime("video")
Time(r) == rnd[r].frame.t
RndCount(r) == IF r = "audio" THEN device ELSE rnd[r].m_nRndCount

Goes(r, pc) == rnd' = [rnd EXCEPT ![r].pc = pc]
Leaves(r) == rnd' = [rnd EXCEPT ![r].pc = "out", ![r].frame = NoFrame]

-----------------------------------------------------------------------------
(* A pass of a work thread.                                                *)

TestStatus(r) ==
  /\ rnd[r].pc = "out" /\ Runs(r) /\ Goes(r, "tested")
  /\ UNCHANGED <<clock, m_bBuffering, device, src, msgs, engine>>

EnterPass(r) ==
  /\ rnd[r].pc = "tested"
  /\ Goes(r, IF rnd[r].m_bEOS \/ m_bForceClose THEN "out" ELSE "read")
  /\ UNCHANGED <<clock, m_bBuffering, device, src, msgs, engine>>

(* No frame yet (RETRY).  Passes that find none and are followed by another *)
(* one count as one pass.                                                   *)
NothingYet(r) ==
  /\ rnd[r].pc = "read" /\ (~Runs(r) \/ m_bForceClose) /\ Leaves(r)
  /\ UNCHANGED <<clock, m_bBuffering, device, src, msgs, engine>>

(* The stream ran out of buffers: audio stops the clock. *)
Buffering(r) ==
  /\ rnd[r].pc = "read" /\ ~src[r].m_bEOS /\ Leaves(r)
  /\ dry < sc.gaps /\ dry' = dry + 1
  /\ clock' = IF r = "audio" /\ clock.m_bRun /\ rnd[r].m_nRndCount > 0
              THEN ClockPause(clock) ELSE clock
  /\ m_bBuffering' = (r = "video" \/ m_bBuffering)
  /\ UNCHANGED <<device, src, msgs, sc, eng, m_stsPlay, m_bSeeking, m_bForceClose, complete, calls>>

HasFrame(r) == src[r].next <= Len(sc[r])

(* The position of a seek that audio ends without a frame after. *)
ClockAtEnd(r) ==
  IF r = "audio" /\ rnd[r].m_nRndCount = 0 /\ rnd[r].m_llSeekPos > 0
  THEN SetTime(clock, rnd[r].m_llSeekPos) ELSE clock

(* The end of the file, which the decoder of video reports one pass later. *)
ReadEnd(r) ==
  /\ rnd[r].pc = "read" /\ src' = [src EXCEPT ![r].m_bEOS = TRUE]
  /\ IF r = "video" /\ ~src[r].m_bEOS
     THEN ~HasFrame(r) /\ Leaves(r) /\ UNCHANGED <<m_bBuffering, msgs, clock>>
     ELSE /\ r = "audio" => ~HasFrame(r)
          /\ rnd' = [rnd EXCEPT ![r].pc = "out", ![r].m_bEOS = TRUE]
          /\ msgs' = msgs + 1 /\ clock' = ClockAtEnd(r)
          /\ m_bBuffering' = (r = "audio" /\ m_bBuffering)
  /\ UNCHANGED <<device, engine>>

(* A frame, at the new position the first after a seek. *)
Frame(r) == [t |-> sc[r][src[r].next], new |-> src[r].new]
Taken(r) == src' = [src EXCEPT ![r].next = @ + 1, ![r].new = FALSE]

(* A clock that a renderer finds stopped is started at its frame. *)
StartClock_Late(r, c, t) == IF ~c.m_bRun THEN SetTime(ClockStart(c), t) ELSE c
StartClock(r, c, t) == IF Runs(r) /\ ~c.m_bRun THEN SetTime(ClockStart(c), t) ELSE c

Waited_Clock(r) == GetTime(clock) >= Time(r) \/ m_bForceClose
Waited(r) == GetTime(clock) >= Time(r) \/ ~Runs(r) \/ m_bForceClose

(* The first frame of the other renderer is there, cannot come, or is late. *)
OtherIsThere_NoEOS(r) == RndCount(Other(r)) > 0 \/ ~Runs(r) \/ m_bForceClose
OtherIsThere(r) ==
  \/ RndCount(Other(r)) > 0 \/ rnd[Other(r)].m_bEOS \/ ~Runs(r) \/ m_bForceClose
OtherIsLate(r) == ~OtherIsThere(r) /\ ~rnd[Other(r)].m_bDropFrame
NotZero(c) == IF GetTime(c) = 0 THEN SetTime(c, 1) ELSE c

Dropped(r) == SeekMode /\ Time(r) < rnd[r].m_llSeekPos

-----------------------------------------------------------------------------
(* Video. *)

ReadVideo ==
  LET f == Frame("video")
      set == IF m_bBuffering THEN SetTime(clock, f.t) ELSE clock
      count == IF f.new THEN 0 ELSE rnd["video"].m_nRndCount
  IN  /\ rnd["video"].pc = "read" /\ HasFrame("video") /\ ~src["video"].m_bEOS /\ Taken("video")
      /\ m_bBuffering' = FALSE /\ clock' = StartClock("video", set, f.t)
      /\ rnd' = [rnd EXCEPT !["video"].pc = IF count > 0 THEN "wait" ELSE "show",
                            !["video"].frame = f, !["video"].m_nRndCount = count]
      /\ UNCHANGED <<device, msgs, engine>>

WaitRenderTime ==
  /\ rnd["video"].pc = "wait" /\ Waited("video") /\ Goes("video", "show")
  /\ UNCHANGED <<clock, m_bBuffering, device, src, msgs, engine>>

(* The frame is shown; behind the first one video waits for audio. *)
Show ==
  LET first == rnd["video"].m_nRndCount = 0 IN
  /\ rnd["video"].pc = "show"
  /\ IF Dropped("video")
     THEN rnd' = [rnd EXCEPT !["video"].m_bDropFrame = TRUE, !["video"].pc = "out",
                             !["video"].frame = NoFrame]
     ELSE rnd' = [rnd EXCEPT !["video"].m_bDropFrame = FALSE,
                    !["video"].m_nRndCount = 1, !["video"].m_llLastRndTime = Time("video"),
                    !["video"].pc = IF first THEN "other" ELSE "out",
                    !["video"].frame = IF first THEN @ ELSE NoFrame]
  /\ UNCHANGED <<clock, m_bBuffering, device, src, msgs, engine>>

(* Without audio yet, video sets the clock. *)
WaitFirstAudio ==
  /\ rnd["video"].pc = "other" /\ Leaves("video")
  /\ AudioIsLater \/ OtherIsThere("video") \/ OtherIsLate("video")
  /\ clock' = IF device > 0 THEN clock
              ELSE SetTime(IF AudioIsLater \/ OtherIsThere("video") THEN clock ELSE NotZero(clock),
                           Time("video"))
  /\ UNCHANGED <<m_bBuffering, device, src, msgs, engine>>

-----------------------------------------------------------------------------
(* Audio. *)

(* The decoder that has seen the end flags the frame with it.  Audio that  *)
(* begins later than video starts the clock for it, and waits until its    *)
(* time has come, also after a gap.                                        *)
ReadAudio ==
  LET a == rnd["audio"]
      f == Frame("audio")
      set == IF src["audio"].m_bEOS THEN ClockAtEnd("audio") ELSE clock
      from == IF a.m_llSeekPos > 0 THEN a.m_llSeekPos ELSE FirstTime("video")
      gap == a.m_llLastRndTime > 0 /\ 2 * (f.t - a.m_llLastRndTime) > FirstTime("audio")
  IN  /\ a.pc = "read" /\ HasFrame("audio") /\ Taken("audio")
      /\ msgs' = IF src["audio"].m_bEOS THEN msgs + 1 ELSE msgs
      /\ clock' = IF AudioIsLater /\ a.m_nRndCount = 0 /\ ~set.m_bRun
                  THEN SetTime(ClockStart(set), from) ELSE set
      /\ rnd' = [rnd EXCEPT
           !["audio"].pc = IF AudioIsLater /\ (a.m_nRndCount = 0 \/ gap) THEN "wait" ELSE "start",
           !["audio"].frame = f, !["audio"].m_bEOS = @ \/ src["audio"].m_bEOS]
      /\ UNCHANGED <<m_bBuffering, device, engine>>

WaitAudio ==
  /\ rnd["audio"].pc = "wait" /\ Waited("audio") /\ Goes("audio", "start")
  /\ UNCHANGED <<clock, m_bBuffering, device, src, msgs, engine>>

(* A frame before the position is dropped, the first one waits for video.  *)
Accept ==
  rnd' = IF Dropped("audio")
         THEN [rnd EXCEPT !["audio"].m_bDropFrame = TRUE, !["audio"].pc = "out",
                          !["audio"].frame = NoFrame]
         ELSE [rnd EXCEPT !["audio"].m_bDropFrame = FALSE,
                          !["audio"].pc = IF rnd["audio"].m_nRndCount < 1 THEN "other" ELSE "render"]

StartAudio ==
  LET a == rnd["audio"]
      late == a.m_nRndCount = 0 /\ Time("audio") > Second /\ a.m_llSeekPos = 0
  IN  /\ a.pc = "start"
      /\ \E c \in {StartClock("audio", clock, Time("audio"))} :
            clock' = IF late THEN NotZero(c) ELSE c
      /\ IF late THEN Goes("audio", "first") ELSE Accept
      /\ UNCHANGED <<m_bBuffering, device, src, msgs, engine>>

(* A late stream waits until video has come to its first frame. *)
WaitVideo ==
  /\ rnd["audio"].pc = "first"
  /\ IF rnd["video"].m_llLastRndTime >= Time("audio") THEN Accept
     ELSE (m_bForceClose \/ ~Runs("audio")) /\ Leaves("audio")
  /\ UNCHANGED <<clock, m_bBuffering, device, src, msgs, engine>>

WaitFirstVideo ==
  /\ rnd["audio"].pc = "other" /\ Goes("audio", "render")
  /\ \/ OtherIsThere("audio") /\ UNCHANGED clock
     \/ OtherIsLate("audio") /\ clock' = NotZero(clock)
  /\ UNCHANGED <<m_bBuffering, device, src, msgs, engine>>

(* The device takes the frame, which sets the clock.  While it is full the  *)
(* pass is given up when the thread does not run: after another try, which  *)
(* may have succeeded, but is not counted (543-552).  The flush of the      *)
(* device and the clock set with it (414-420) are one step with Render.     *)
Play ==
  LET f == rnd["audio"].frame
      set == IF f.new THEN SetTime(clock, f.t) ELSE clock
      count == IF f.new THEN 0 ELSE rnd["audio"].m_nRndCount
      flushed == IF f.new THEN 0 ELSE device
      out == [rnd EXCEPT !["audio"].pc = "out", !["audio"].frame = NoFrame]
  IN  /\ rnd["audio"].pc = "render"
      /\ \/ /\ clock' = SetTime(set, f.t) /\ device' = 1
            /\ rnd' = [out EXCEPT !["audio"].m_nRndCount = 1,
                                  !["audio"].m_llLastRndTime = f.t]
         \/ /\ ~Runs("audio")
            /\ \/ clock' = set /\ device' = flushed
               \/ clock' = SetTime(set, f.t) /\ device' = 1
            /\ rnd' = [out EXCEPT !["audio"].m_nRndCount = count]
      /\ UNCHANGED <<m_bBuffering, src, msgs, engine>>

Pass(r) == TestStatus(r) \/ EnterPass(r) \/ NothingYet(r) \/ Buffering(r) \/ ReadEnd(r)
Video == Pass("video") \/ ReadVideo \/ WaitRenderTime \/ Show \/ WaitFirstAudio
Audio == \/ Pass("audio") \/ ReadAudio \/ WaitAudio \/ StartAudio \/ WaitVideo
         \/ WaitFirstVideo \/ Play

-----------------------------------------------------------------------------
(* The engine.  A call goes through the renderers one after the other;     *)
(* Seek begins with a pause and ends with a start of those that run.       *)

renderers == <<rnd, m_bBuffering, device, src, clock, dry>>
Engine(pc) == eng' = [eng EXCEPT !.pc = pc]
Idle == [pc |-> "idle", op |-> "none", pos |-> 0]
IsSeek == eng.op \in {"Seek", "SeekToStart"}

Call(op, pc, pos) ==
  /\ eng.pc = "idle" /\ ~m_bForceClose /\ calls < sc.calls /\ calls' = calls + 1
  /\ eng' = [pc |-> pc, op |-> op, pos |-> pos]
  /\ UNCHANGED <<renderers, sc, m_stsPlay, m_bForceClose, msgs>>

CallStart == Call("Start", "start1", 0) /\ complete' = "no" /\ UNCHANGED m_bSeeking
CallPause == m_stsPlay = "Run" /\ Call("Pause", "pause1", 0) /\ UNCHANGED <<complete, m_bSeeking>>
SeekFrom == IF m_stsPlay = "Run" THEN "pause1" ELSE "posAudio"
CallSetPos(pos) ==
  m_stsPlay \in {"Run", "Pause"} /\ Call("Seek", SeekFrom, pos) /\ complete' = "no" /\ m_bSeeking' = TRUE

(* Stop asks every wait to end before it waits for the call in progress. *)
CallStop ==
  /\ m_stsPlay # "Stop" /\ ~m_bForceClose /\ m_bForceClose' = TRUE
  /\ calls < sc.calls /\ calls' = calls + 1
  /\ UNCHANGED <<renderers, sc, eng, m_stsPlay, m_bSeeking, msgs, complete>>

(* Start begins with video, a seek with audio. *)
Started == IF (eng.op = "Start") = (eng.pc = "start1") THEN "video" ELSE "audio"
StartRenderer ==
  /\ eng.pc \in {"start1", "start2"}
  /\ rnd' = [rnd EXCEPT ![Started].m_bEOS = FALSE, ![Started].status = "run"]
  /\ device' = IF Started = "audio" THEN 0 ELSE device
  /\ IF eng.pc = "start1" THEN Engine("start2") /\ UNCHANGED <<m_stsPlay, m_bSeeking>>
     ELSE IF IsSeek THEN Engine("seekWait") /\ UNCHANGED <<m_stsPlay, m_bSeeking>>
     ELSE eng' = Idle /\ m_stsPlay' = "Run" /\ UNCHANGED m_bSeeking
  /\ UNCHANGED <<sc, clock, m_bBuffering, src, m_bForceClose, msgs, complete, calls, dry>>

(* Pause and Stop set the status of a thread and wait for its pass. *)
Paused == IF eng.pc \in {"pause1", "wait1"} THEN "video" ELSE "audio"
PauseRenderer ==
  /\ eng.pc \in {"pause1", "pause2"} /\ Engine(IF eng.pc = "pause1" THEN "wait1" ELSE "wait2")
  /\ rnd' = [rnd EXCEPT ![Paused].status = IF eng.op = "Stop" THEN "stop" ELSE "pause"]
  /\ UNCHANGED <<sc, clock, m_bBuffering, device, src, m_stsPlay, m_bSeeking, m_bForceClose, msgs,
                 complete, calls, dry>>

Working(r) == rnd[r].pc \notin {"out", "tested"}
(* The pass is over, or the thread, with which m_bDropFrame goes. *)
Ended(r) ==
  /\ IF eng.op = "Stop" THEN rnd[r].pc = "out" ELSE ~Working(r)
  /\ rnd' = [rnd EXCEPT ![r].m_bDropFrame = @ /\ eng.op # "Stop"]

PausedVideo ==
  /\ eng.pc = "wait1" /\ Ended("video") /\ Engine("pause2")
  /\ UNCHANGED <<sc, clock, m_bBuffering, device, src, m_stsPlay, m_bSeeking, m_bForceClose, msgs,
                 complete, calls, dry>>

PausedAudio ==
  /\ eng.pc = "wait2" /\ Ended("audio")
  /\ clock' = IF eng.op = "Stop" THEN clock ELSE ClockPause(clock)
  /\ \/ IsSeek /\ Engine("posAudio") /\ UNCHANGED <<m_stsPlay, m_bForceClose>>
     \/ eng.op = "Pause" /\ eng' = Idle /\ m_stsPlay' = "Pause" /\ UNCHANGED m_bForceClose
     \/ eng.op = "Stop" /\ eng' = Idle /\ m_stsPlay' = "Stop" /\ m_bForceClose' = FALSE
  /\ UNCHANGED <<sc, m_bBuffering, device, src, m_bSeeking, msgs, complete, calls, dry>>

Stop ==
  /\ eng.pc = "idle" /\ m_bForceClose
  /\ eng' = [pc |-> "pause1", op |-> "Stop", pos |-> 0]
  /\ UNCHANGED <<renderers, sc, m_stsPlay, m_bSeeking, m_bForceClose, msgs, complete, calls, dry>>

(* SetPos of a renderer and its decoder; that of video takes its m_mtRnd,  *)
(* which a pass holds.                                                     *)
SetRenderer(r) ==
  /\ rnd' = [rnd EXCEPT ![r].m_llSeekPos = eng.pos, ![r].m_bEOS = FALSE, ![r].m_nRndCount = 0,
                        ![r].m_llLastRndTime = IF r = "audio" THEN 0 ELSE eng.pos]
  /\ src' = [src EXCEPT ![r].m_bEOS = FALSE]
  /\ device' = IF r = "audio" THEN 0 ELSE device

SetPosAudio ==
  /\ eng.pc = "posAudio" /\ SetRenderer("audio") /\ Engine("posVideo")
  /\ UNCHANGED <<sc, clock, m_bBuffering, m_stsPlay, m_bSeeking, m_bForceClose, msgs, complete, calls, dry>>

SetPosVideo ==
  /\ eng.pc = "posVideo" /\ ~Working("video") /\ SetRenderer("video") /\ Engine("posSource")
  /\ clock' = SetTime(clock, eng.pos)
  /\ UNCHANGED <<sc, m_bBuffering, m_stsPlay, m_bSeeking, m_bForceClose, msgs, complete, calls, dry>>

(* The last frame at or before a position, or the first of all. *)
FrameAt(r, pos) == Max({1} \cup {k \in DOMAIN sc[r] : sc[r][k] <= pos})

SetPosSource ==
  /\ eng.pc = "posSource"
  /\ src' = [r \in Kind |-> [src[r] EXCEPT !.next = FrameAt(r, eng.pos), !.new = TRUE]]
  /\ IF m_stsPlay = "Run" /\ eng.op # "SeekToStart"
     THEN Engine("start1") /\ UNCHANGED <<m_bSeeking, complete>>
     ELSE /\ eng' = Idle /\ m_bSeeking' = FALSE
          /\ complete' = IF eng.op = "SeekToStart" THEN "yes" ELSE complete
  /\ UNCHANGED <<sc, clock, rnd, m_bBuffering, device, m_stsPlay, m_bForceClose, msgs, calls, dry>>

(* The seek is over with the first frame or the end of either, or after    *)
(* 10 s, or with Stop.                                                     *)
SeekEnds ==
  /\ eng.pc = "seekWait" /\ eng' = Idle /\ m_bSeeking' = FALSE
  /\ UNCHANGED <<renderers, sc, m_stsPlay, m_bForceClose, msgs, complete, calls>>

(* The message thread.  A message that comes during SetPos is dropped; the *)
(* other one that finds both renderers at their end completes the play.    *)
DropEOS ==
  /\ msgs > 0 /\ m_bSeeking /\ msgs' = msgs - 1 /\ complete' = "lost"
  /\ UNCHANGED <<renderers, sc, eng, m_stsPlay, m_bSeeking, m_bForceClose, calls>>

HandleEOS ==
  /\ msgs > 0 /\ ~m_bSeeking /\ eng.pc = "idle" /\ msgs' = msgs - 1
  /\ IF ~\A r \in Kind : rnd[r].m_bEOS THEN UNCHANGED <<eng, complete>>
     ELSE \/ sc.atEnd = "http" /\ complete' = "yes" /\ UNCHANGED eng
          \/ /\ sc.atEnd = "local" /\ UNCHANGED complete
             /\ eng' = [pc |-> SeekFrom, op |-> "SeekToStart", pos |-> 0]
  /\ UNCHANGED <<renderers, sc, m_stsPlay, m_bSeeking, m_bForceClose, calls>>

EngineGoesOn == \/ StartRenderer \/ PauseRenderer \/ PausedVideo \/ PausedAudio \/ Stop
                \/ SetPosAudio \/ SetPosVideo \/ SetPosSource \/ SeekEnds
Messages == DropEOS \/ HandleEOS
Application == CallStart \/ CallPause \/ (\E pos \in SeekPos : CallSetPos(pos)) \/ CallStop

ClockTicks == /\ Ticks(clock) /\ clock' = Tick(clock)
              /\ UNCHANGED <<rnd, m_bBuffering, device, src, msgs, engine>>

Next == Video \/ Audio \/ Application \/ EngineGoesOn \/ Messages \/ ClockTicks
Spec == Init /\ [][Next]_vars

(* The threads go on; the source has a frame, or its end, in the end.      *)
LiveSpec ==
  /\ Spec /\ WF_vars(Video) /\ WF_vars(Audio)
  /\ WF_vars(EngineGoesOn) /\ WF_vars(Messages) /\ WF_vars(ClockTicks)

-----------------------------------------------------------------------------
(* Correctness. *)

VideoPcs == {"out", "tested", "read", "wait", "show", "other"}
AudioPcs == {"out", "tested", "read", "wait", "start", "first", "other", "render"}
EnginePcs == {"idle", "start1", "start2", "pause1", "wait1", "pause2", "wait2", "posAudio",
              "posVideo", "posSource", "seekWait"}

TypeOK ==
  /\ sc \in Scenario /\ clock \in ClockState
  /\ \A r \in Kind :
       /\ rnd[r].status \in {"run", "pause", "stop"}
       /\ rnd[r].pc \in IF r = "video" THEN VideoPcs ELSE AudioPcs
       /\ rnd[r].m_nRndCount \in 0..1 /\ src[r].next \in 1..(Len(sc[r]) + 1)
       /\ Time(r) \in 0..MaxTime /\ rnd[r].m_llLastRndTime \in 0..MaxTime
  /\ device \in 0..1 /\ eng.pc \in EnginePcs
  /\ m_stsPlay \in {"Open", "Run", "Pause", "Stop"} /\ complete \in {"no", "yes", "lost"}

(* The clock of a paused player stands, whatever the renderers were doing  *)
(* when Pause came, and also if a pass began after it; audio that begins   *)
(* later than video starts it without a look at the status                 *)
(* (CBoxAudioRnd.cpp:294).                                                 *)
PausedIsQuiet ==
  m_stsPlay = "Pause" /\ eng.pc = "idle" /\ ~AudioIsLater => ~clock.m_bRun

(* The player plays: nothing but the end of the file should stop it. *)
Playing == eng.pc = "idle" /\ ~m_bForceClose /\ \A r \in Kind : Runs(r)

(* Three ways never to come to the end, all in the code.  Video waits for  *)
(* the clock that audio stopped before its end; audio waits for the time   *)
(* of its first frame (CBoxAudioRnd.cpp:372) when video has ended before;  *)
(* a message was dropped during SetPos (COMBoxMng.cpp:2055).               *)
VideoStalls == rnd["video"].pc = "wait" /\ ~clock.m_bRun /\ rnd["audio"].m_bEOS
AudioStalls == rnd["audio"].pc = "first" /\ rnd["video"].m_bEOS

PlaybackEnds ==
  <>[]Playing => <>[](complete # "no") \/ <>[]VideoStalls \/ <>[]AudioStalls

(* Start, Pause, SetPos and Stop return: every wait of a pass ends when the *)
(* engine asks for it, in whatever state the other renderer is.            *)
CallsReturn == []<>(eng.pc = "idle" /\ ~m_bForceClose)
==============================================================================
