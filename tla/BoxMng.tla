------------------------------- MODULE BoxMng --------------------------------
(***************************************************************************)
(* COMBoxMng (mfw/OMBox/COMBoxMng.cpp), the player engine.  Three threads  *)
(* run its code: the application calls Open, Start, Pause, ...; the task   *)
(* worker (a ThreadWork, see TaskQueue) runs OnHandleEvent; the message    *)
(* thread (CMsgMng) runs ReceiveMsg.  m_mtFunc guards the long operations, *)
(* but the status, m_bOpening, m_bSeeking, m_bCheckReopn and m_bForceClose *)
(* are read and written outside it.                                        *)
(*                                                                         *)
(* A locked section is one step unless it waits (an open, a seek, the      *)
(* status polling of CheckOpenStatus); every unlocked access is a step.    *)
(* m_mtFunc is recursive.  Times are abstracted: a poll that ends by a     *)
(* time limit may end at any moment.                                       *)
(***************************************************************************)
EXTENDS Naturals, Sequences, SequencesExt

CONSTANTS URL,            \* sources the application opens
          Nil,            \* NULL
          Calls,          \* the API calls the application makes
          Live,           \* a format DoCheckStatus reopens (537)
          Http,           \* the URLs that start with "http" (2090)
          Loops,          \* values of g_qcs_nPlaybackLoop > 0, a setting
          RunOnOpenDone,  \* the OPEN_DONE callback calls Run, as TestCode.cpp
          SeekOnComplete, \* the PLAY_COMPLETE callback calls SetPos, as TestCode.cpp
          Decodable,      \* sets of streams a source may have a decoder for
          MaxTask,        \* bound: optional tasks are posted below this length
          MaxSeek,        \* bound: SetPos is called while fewer SEEK tasks wait
          MaxMsg          \* bound: EOS messages queued at the same time

API == {"open", "fastopen", "close", "start", "pause", "stop", "setpos",
        "addcache", "delete"}
Stream == {"audio", "video"}
Thread == {"app", "work", "msg"}
ASSUME URLAssumption == Nil \notin URL \cup Thread /\ {"null", "closed"} \cap URL = {}
ASSUME CallAssumption == Calls \subseteq API
ASSUME ModeAssumption == {Live, RunOnOpenDone, SeekOnComplete} \subseteq BOOLEAN
ASSUME LoopAssumption == Http \subseteq URL /\ Loops \subseteq BOOLEAN /\ Loops # {}
ASSUME StreamAssumption == Decodable \subseteq (SUBSET Stream) \ {{}}
ASSUME BoundAssumption == {MaxTask, MaxSeek, MaxMsg} \subseteq Nat

VARIABLES
  m_stsPlay,      \* QCPLAY_STATUS
  m_bOpening, m_bSeeking, m_bEOS, m_bExit,
  m_bForceClose,  \* m_pBaseInst->m_bForceClose: abort what waits
  m_bCheckReopn,  \* m_pBaseInst->m_bCheckReopn: DoReopen runs
  m_mtFunc,       \* thread that holds m_mtFunc, or Nil
  m_pURL,
  m_pBoxSource,   \* "null", "closed" or the URL of the open media source
  rnd,            \* m_pRndAudio, m_pRndVideo: "none" or the renderer's status
  eos,            \* the renderer's m_bEOS
  msgs,           \* number of SNKA_EOS and SNKV_EOS messages in CMsgMng
  registered,     \* the engine receives messages (RegNotify, RemNotify)
  waiting, running,   \* the task queue of m_pThreadWork
  pc,             \* pc[t]: where thread t is
  stack,          \* return addresses of the application's nested calls
  arg,            \* arguments of Open: [url, same]
  accepted,       \* history: URL of the last Open that returned QC_ERR_NONE
  closed,         \* history: Close returned QC_ERR_NONE, no Open since
  failed          \* history: the last Open, Close or Stop returned QC_ERR_STATUS

flags   == <<m_bOpening, m_bSeeking, m_bEOS, m_bExit, m_bForceClose, m_bCheckReopn>>
media   == <<m_pBoxSource, rnd, eos>>
queue   == <<waiting, running>>
mail    == <<msgs, registered>>
frame   == <<stack, arg>>
history == <<accepted, closed, failed>>
vars == <<m_stsPlay, flags, m_mtFunc, m_pURL, media, mail, queue, pc, frame, history>>


Job(what, url, same) == [what |-> what, url |-> url, same |-> same]
Jobs == {Job(w, Nil, FALSE) : w \in {"check", "seek", "reopen", "cache"}}
          \cup {Job("open", u, s) : u \in URL, s \in BOOLEAN}
TQ == INSTANCE TaskQueue WITH ID <- Jobs

Task(job, delayed) == [id |-> job, delayed |-> delayed]
Post(job, delayed) == waiting' = Append(waiting, Task(job, delayed))
CheckJob  == Task(Job("check", Nil, FALSE), TRUE)
ReopenJob == Task(Job("reopen", Nil, FALSE), TRUE)
Current == running[1].id

Existing == {r \in Stream : rnd[r] # "none"}
SetRnd(sts) == rnd' = [r \in Stream |-> IF rnd[r] = "none" THEN "none" ELSE sts]
NoEOS == eos' = [r \in Stream |-> FALSE]

NoArg == [url |-> Nil, same |-> FALSE]
Goto(t, l) == pc' = [pc EXCEPT ![t] = l]
Busy == m_bOpening \/ m_bSeeking \/ m_bCheckReopn       \* 768, 866, 2055
Free_Once(t) == m_mtFunc = Nil
Free(t) == m_mtFunc \in {Nil, t}                        \* recursive mutex

(* The constructor has started the threads and posted QC_TASK_CHECK. *)
Init ==
  /\ m_stsPlay = "init" /\ m_mtFunc = Nil /\ m_pURL = Nil
  /\ m_bOpening = FALSE /\ m_bSeeking = FALSE /\ m_bEOS = FALSE
  /\ m_bExit = FALSE /\ m_bForceClose = FALSE /\ m_bCheckReopn = FALSE
  /\ m_pBoxSource = "null"
  /\ rnd = [r \in Stream |-> "none"] /\ eos = [r \in Stream |-> FALSE]
  /\ msgs = 0 /\ registered = TRUE
  /\ waiting = <<CheckJob>> /\ running = <<>>
  /\ pc = [t \in Thread |-> "idle"] /\ stack = <<>>
  /\ arg = NoArg
  /\ accepted = Nil /\ closed = FALSE /\ failed = FALSE

-----------------------------------------------------------------------------
(* The application thread.  Calls that only return an error code are no     *)
(* steps.                                                                   *)

Call(op) == op \in Calls /\ pc["app"] = "idle"

(* A call returns.  Open gives up when Close fails; the destructor and the *)
(* Stop inside Close ignore the result.                                    *)
Return(ok) ==
  IF stack = <<>> \/ (Head(stack) = "open.clear" /\ ~ok)
  THEN Goto("app", "idle") /\ stack' = <<>> /\ arg' = NoArg /\ failed' = ~ok
  ELSE Goto("app", Head(stack)) /\ stack' = Tail(stack) /\ UNCHANGED <<arg, failed>>

(* CheckOpenStatus polls the flags until its time limit, which a seek does  *)
(* not make fail.                                                           *)
CheckFails == m_bOpening \/ m_bCheckReopn                       \* 424

Open(u, same) ==                                                \* 236
  /\ Call(IF same THEN "fastopen" ELSE "open")
  /\ m_bForceClose' = TRUE /\ arg' = [url |-> u, same |-> same]
  /\ Goto("app", "open.check") /\ closed' = FALSE
  /\ UNCHANGED <<m_stsPlay, m_bOpening, m_bSeeking, m_bEOS, m_bExit, m_bCheckReopn,
                 m_mtFunc, m_pURL, media, mail, queue, stack, accepted, failed>>

(* The abort request stays set when the open status check fails. *)
OpenRefused ==                                                  \* 237-242
  /\ pc["app"] = "open.check" /\ CheckFails /\ Return(FALSE)
  /\ UNCHANGED <<m_stsPlay, flags, m_mtFunc, m_pURL, media, mail, queue,
                 accepted, closed>>

OpenChecked ==                                                  \* 243-252
  /\ pc["app"] = "open.check" /\ ~CheckFails
  /\ m_bForceClose' = FALSE /\ m_pURL' = arg.url
  /\ Goto("app", "open.url")
  /\ UNCHANGED <<m_stsPlay, m_bOpening, m_bSeeking, m_bEOS, m_bExit, m_bCheckReopn,
                 m_mtFunc, media, mail, queue, frame, history>>

CanOpenFast == arg.same /\ m_pBoxSource # "null" /\ Existing = Stream

(* The renderers go on, the source is replaced under them. *)
OpenFast ==                                                     \* 269-275
  /\ pc["app"] = "open.url" /\ CanOpenFast
  /\ m_stsPlay' = "init" /\ m_bOpening' = TRUE
  /\ Post(Job("open", arg.url, TRUE), FALSE)
  /\ accepted' = arg.url /\ failed' = FALSE /\ arg' = NoArg
  /\ Goto("app", "idle")
  /\ UNCHANGED <<m_bSeeking, m_bEOS, m_bExit, m_bForceClose, m_bCheckReopn,
                 m_mtFunc, m_pURL, media, mail, running, stack, closed>>

CloseNothing_Closed == m_pBoxSource \in {"null", "closed"}
CloseNothing == m_pBoxSource = "null"                           \* 360

OpenCloses ==                                                   \* 278, 281, 360-363
  /\ pc["app"] = "open.url" /\ ~CanOpenFast
  /\ arg' = [arg EXCEPT !.same = FALSE]
  /\ IF CloseNothing
     THEN Goto("app", "open.clear") /\ UNCHANGED <<m_bForceClose, stack>>
     ELSE /\ m_bForceClose' = TRUE
          /\ Goto("app", "close.check") /\ stack' = <<"open.clear">>
  /\ UNCHANGED <<m_stsPlay, m_bOpening, m_bSeeking, m_bEOS, m_bExit, m_bCheckReopn,
                 m_mtFunc, m_pURL, media, mail, queue, history>>

OpenClears ==                                                   \* 296
  /\ pc["app"] = "open.clear"
  /\ m_bForceClose' = FALSE /\ Goto("app", "open.lock")
  /\ UNCHANGED <<m_stsPlay, m_bOpening, m_bSeeking, m_bEOS, m_bExit, m_bCheckReopn,
                 m_mtFunc, m_pURL, media, mail, queue, frame, history>>

OpenPosts ==                                                    \* 298-329
  /\ pc["app"] = "open.lock" /\ m_mtFunc = Nil
  /\ m_bOpening' = TRUE /\ m_bEOS' = FALSE
  /\ Post(Job("open", arg.url, FALSE), FALSE)
  /\ accepted' = arg.url /\ failed' = FALSE /\ arg' = NoArg
  /\ Goto("app", "idle")
  /\ UNCHANGED <<m_stsPlay, m_bSeeking, m_bExit, m_bForceClose, m_bCheckReopn,
                 m_mtFunc, m_pURL, media, mail, running, stack, closed>>

Close ==                                                        \* 360-363
  /\ Call("close") /\ ~CloseNothing
  /\ m_bForceClose' = TRUE /\ Goto("app", "close.check")
  /\ UNCHANGED <<m_stsPlay, m_bOpening, m_bSeeking, m_bEOS, m_bExit, m_bCheckReopn,
                 m_mtFunc, m_pURL, media, mail, queue, frame, history>>

CloseChecked ==                                                 \* 364-369
  /\ pc["app"] = "close.check"
  /\ IF CheckFails THEN Return(FALSE)
                   ELSE Goto("app", "close.lock") /\ UNCHANGED <<frame, failed>>
  /\ UNCHANGED <<m_stsPlay, flags, m_mtFunc, m_pURL, media, mail, queue,
                 accepted, closed>>

(* Close calls Stop while it holds m_mtFunc. *)
CloseStops ==                                                   \* 370-371, 819-825
  /\ pc["app"] = "close.lock" /\ m_mtFunc = Nil
  /\ m_mtFunc' = "app"
  /\ IF m_stsPlay = "stop"
     THEN Goto("app", "close.body") /\ UNCHANGED <<m_bForceClose, stack>>
     ELSE /\ m_bForceClose' = TRUE /\ Goto("app", "stop.check")
          /\ stack' = <<"close.body">> \o stack
  /\ UNCHANGED <<m_stsPlay, m_bOpening, m_bSeeking, m_bEOS, m_bExit, m_bCheckReopn,
                 m_pURL, media, mail, queue, arg, history>>

CloseEnds ==                                                    \* 372-412
  /\ pc["app"] = "close.body"
  /\ rnd' = [r \in Stream |-> "none"] /\ NoEOS
  /\ m_pBoxSource' = "closed" /\ m_stsPlay' = "init"
  /\ m_bForceClose' = FALSE /\ msgs' = 0
  /\ m_mtFunc' = Nil /\ closed' = (stack = <<>>) /\ Return(TRUE)
  /\ UNCHANGED <<m_bOpening, m_bSeeking, m_bEOS, m_bExit, m_bCheckReopn,
                 m_pURL, registered, queue, accepted>>

Stop ==                                                         \* 819-825
  /\ Call("stop") /\ m_stsPlay # "stop"
  /\ m_bForceClose' = TRUE /\ Goto("app", "stop.check")
  /\ UNCHANGED <<m_stsPlay, m_bOpening, m_bSeeking, m_bEOS, m_bExit, m_bCheckReopn,
                 m_mtFunc, m_pURL, media, mail, queue, frame, history>>

StopChecked ==                                                  \* 826-830
  /\ pc["app"] = "stop.check"
  /\ IF CheckFails THEN Return(FALSE)
                   ELSE Goto("app", "stop.lock") /\ UNCHANGED <<frame, failed>>
  /\ UNCHANGED <<m_stsPlay, flags, m_mtFunc, m_pURL, media, mail, queue,
                 accepted, closed>>

StopEnds ==                                                     \* 832-856
  /\ pc["app"] = "stop.lock" /\ Free("app")
  /\ SetRnd("stop") /\ m_stsPlay' = "stop" /\ m_bForceClose' = FALSE
  /\ Return(TRUE)
  /\ UNCHANGED <<m_bOpening, m_bSeeking, m_bEOS, m_bExit, m_bCheckReopn, m_mtFunc,
                 m_pURL, m_pBoxSource, eos, mail, queue, accepted, closed>>

(* Start and Pause test the flags first and take the lock later. *)
Start ==                                                        \* 763-772
  /\ Call("start") /\ m_stsPlay # "init" /\ ~Busy
  /\ Goto("app", "start.lock")
  /\ UNCHANGED <<m_stsPlay, flags, m_mtFunc, m_pURL, media, mail, queue, frame, history>>

StartEnds ==                                                    \* 774-787
  /\ pc["app"] = "start.lock" /\ m_mtFunc = Nil
  /\ SetRnd("run") /\ NoEOS /\ m_stsPlay' = "run" /\ Goto("app", "idle")
  /\ UNCHANGED <<flags, m_mtFunc, m_pURL, m_pBoxSource, mail, queue, frame, history>>

Pause ==                                                        \* 795-798
  /\ Call("pause") /\ m_stsPlay \notin {"init", "open", "pause"}
  /\ ~m_bSeeking /\ ~m_bCheckReopn /\ Goto("app", "pause.lock")
  /\ UNCHANGED <<m_stsPlay, flags, m_mtFunc, m_pURL, media, mail, queue, frame, history>>

PauseEnds ==                                                    \* 800-811
  /\ pc["app"] = "pause.lock" /\ m_mtFunc = Nil
  /\ SetRnd("pause") /\ m_stsPlay' = "pause" /\ Goto("app", "idle")
  /\ UNCHANGED <<flags, m_mtFunc, m_pURL, m_pBoxSource, eos, mail, queue, frame, history>>

(* SetPos, by the application or by the callback on the message thread: the *)
(* task is posted before m_bSeeking is set.  Its refusals are no steps.     *)
IsSeek(q) == q.id.what = "seek"
MaySeek == m_stsPlay # "init" /\ ~Busy /\ m_pBoxSource \in URL  \* 864-889

SeekPosts(t) ==                                                 \* 909
  /\ MaySeek /\ Len(SelectSeq(waiting, IsSeek)) < MaxSeek
  /\ Post(Job("seek", Nil, FALSE), FALSE) /\ Goto(t, "seek.flag")
  /\ UNCHANGED <<m_stsPlay, flags, m_mtFunc, m_pURL, media, mail, running, frame, history>>

SetPos == Call("setpos") /\ SeekPosts("app")

SeekReturn(t) == Goto(t, IF t = "app" THEN "idle" ELSE "received")

SeekFlag(t) ==                                                  \* 910-912
  /\ pc[t] = "seek.flag" /\ m_bSeeking' = TRUE
  /\ IF m_stsPlay = "pause" THEN Goto(t, "seek.wait") ELSE SeekReturn(t)
  /\ UNCHANGED <<m_stsPlay, m_bOpening, m_bEOS, m_bExit, m_bForceClose, m_bCheckReopn,
                 m_mtFunc, m_pURL, media, mail, queue, frame, history>>

SeekWait(t) ==                                                  \* 914-917
  /\ pc[t] = "seek.wait" /\ ~m_bSeeking /\ SeekReturn(t)
  /\ UNCHANGED <<m_stsPlay, flags, m_mtFunc, m_pURL, media, mail, queue, frame, history>>

AddCache ==                                                     \* 1182-1186
  /\ Call("addcache") /\ Len(waiting) < MaxTask
  /\ Post(Job("cache", Nil, FALSE), FALSE)
  /\ UNCHANGED <<m_stsPlay, flags, m_mtFunc, m_pURL, media, mail, running, pc, frame, history>>

(* The destructor. *)
Delete ==                                                       \* 122-126, 360-363
  /\ Call("delete")
  /\ m_bOpening' = FALSE /\ m_bExit' = TRUE
  /\ IF CloseNothing
     THEN Goto("app", "del.force") /\ UNCHANGED <<m_bForceClose, stack>>
     ELSE /\ m_bForceClose' = TRUE
          /\ Goto("app", "close.check") /\ stack' = <<"del.force">>
  /\ UNCHANGED <<m_stsPlay, m_bSeeking, m_bEOS, m_bCheckReopn, m_mtFunc, m_pURL,
                 media, mail, queue, arg, history>>

DeleteAborts ==                                                 \* 128
  /\ pc["app"] = "del.force" /\ m_bForceClose' = TRUE /\ Goto("app", "del.msg")
  /\ UNCHANGED <<m_stsPlay, m_bOpening, m_bSeeking, m_bEOS, m_bExit, m_bCheckReopn,
                 m_mtFunc, m_pURL, media, mail, queue, frame, history>>

(* RemNotify takes m_lckRecv, which the message thread holds in ReceiveMsg. *)
NoReceiver_NoLock == TRUE
NoReceiver == pc["msg"] = "idle"

DeleteUnregisters ==                                            \* 131-132
  /\ pc["app"] = "del.msg" /\ NoReceiver
  /\ registered' = FALSE /\ Goto("app", "del.thread")
  /\ UNCHANGED <<m_stsPlay, flags, m_mtFunc, m_pURL, media, msgs, queue, frame, history>>

(* CThreadWork::Stop: the event being fired ends, no other begins. *)
DeleteStops ==                                                  \* 137
  /\ pc["app"] = "del.thread" /\ Goto("app", "del.wait")
  /\ UNCHANGED <<m_stsPlay, flags, m_mtFunc, m_pURL, media, mail, queue, frame, history>>

DeleteEnds ==                                                   \* 138-174
  /\ pc["app"] = "del.wait" /\ running = <<>>
  /\ waiting' = <<>> /\ m_pBoxSource' = "null" /\ msgs' = 0
  /\ Goto("app", "deleted")
  /\ UNCHANGED <<m_stsPlay, flags, m_mtFunc, m_pURL, rnd, eos, registered, running,
                 frame, history>>

-----------------------------------------------------------------------------
(* The task worker *)

Does(what) == pc["work"] = "task" /\ Current.what = what
TaskDone == running' = <<>> /\ Goto("work", "idle")            \* 1897

TaskBegins ==                                                   \* 1762
  /\ pc["work"] = "idle" /\ pc["app"] \notin {"del.wait", "deleted"}
  /\ TQ!Begin /\ Goto("work", "task")
  /\ UNCHANGED <<m_stsPlay, flags, m_mtFunc, m_pURL, media, mail, frame, history>>

OpenCancelled_Silent ==
  /\ Does("open") /\ m_mtFunc = Nil /\ m_bForceClose /\ TaskDone
  /\ UNCHANGED <<m_stsPlay, flags, m_mtFunc, m_pURL, media, mail, waiting, frame, history>>

OpenCancelled ==                                                \* 1793-1799
  /\ Does("open") /\ m_mtFunc = Nil /\ m_bForceClose
  /\ m_bOpening' = FALSE /\ TaskDone
  /\ UNCHANGED <<m_stsPlay, m_bSeeking, m_bEOS, m_bExit, m_bForceClose, m_bCheckReopn,
                 m_mtFunc, m_pURL, media, mail, waiting, frame, history>>

(* OpenSource first closes what is open, under an abort request of its own, *)
(* and then clears the request, whoever made it.                            *)
SourceCloses == m_bForceClose' = TRUE /\ m_pBoxSource' = "closed"
SourceClears_Never == UNCHANGED m_bForceClose
SourceClears == m_bForceClose' = FALSE

OpenBegins ==                              \* 1801-1804; CBoxSource.cpp:59-63
  /\ Does("open") /\ m_mtFunc = Nil /\ ~m_bForceClose
  /\ m_mtFunc' = "work" /\ SourceCloses /\ Goto("work", "open.clear")
  /\ UNCHANGED <<m_stsPlay, m_bOpening, m_bSeeking, m_bEOS, m_bExit, m_bCheckReopn,
                 m_pURL, rnd, eos, mail, queue, frame, history>>

OpenAborts ==                                         \* CBoxSource.cpp:64
  /\ pc["work"] = "open.clear" /\ SourceClears /\ Goto("work", "open.io")
  /\ UNCHANGED <<m_stsPlay, m_bOpening, m_bSeeking, m_bEOS, m_bExit, m_bCheckReopn,
                 m_mtFunc, m_pURL, media, mail, queue, frame, history>>

(* The source does not open, or has no stream that can be played (then it  *)
(* stays open).  DoFastOpen sets the status all the same.                   *)
OpenFails ==                                    \* 457-468, 574-586, 712-717
  /\ pc["work"] = "open.io" /\ Goto("work", "failed")
  /\ m_pBoxSource' \in {"closed", Current.url}
  /\ m_stsPlay' = IF Current.same THEN "open" ELSE m_stsPlay
  /\ UNCHANGED <<flags, m_mtFunc, m_pURL, rnd, eos, mail, queue, frame, history>>

(* DoOpen creates a renderer for every stream it can decode. *)
OpenSucceeds ==                                 \* 457-468, 594-755
  /\ pc["work"] = "open.io" /\ Goto("work", "opened")
  /\ m_pBoxSource' = Current.url /\ m_stsPlay' = "open"
  /\ \/ Current.same /\ UNCHANGED <<rnd, eos>>
     \/ /\ ~Current.same
        /\ \E S \in Decodable :
              /\ rnd' = [r \in Stream |-> IF r \in S THEN "init" ELSE rnd[r]]
              /\ eos' = [r \in Stream |-> r \notin S /\ eos[r]]
  /\ UNCHANGED <<flags, m_mtFunc, m_pURL, mail, queue, frame, history>>

OpenFailed ==                                                   \* 1826, 1842
  /\ pc["work"] = "failed" /\ m_bOpening' = FALSE
  /\ m_mtFunc' = Nil /\ TaskDone
  /\ UNCHANGED <<m_stsPlay, m_bSeeking, m_bEOS, m_bExit, m_bForceClose, m_bCheckReopn,
                 m_pURL, media, mail, waiting, frame, history>>

OpenFlag ==                                                     \* 1826
  /\ pc["work"] = "opened" /\ m_bOpening' = FALSE /\ Goto("work", "done")
  /\ UNCHANGED <<m_stsPlay, m_bSeeking, m_bEOS, m_bExit, m_bForceClose, m_bCheckReopn,
                 m_mtFunc, m_pURL, media, mail, queue, frame, history>>

(* The OPEN_DONE callback may call Run, still inside m_mtFunc. *)
OpenDone ==                                                     \* 1837-1842
  /\ pc["work"] = "done" /\ m_mtFunc' = Nil /\ TaskDone
  /\ \/ /\ RunOnOpenDone /\ ~m_bForceClose /\ m_stsPlay # "init" /\ ~Busy
        /\ SetRnd("run") /\ NoEOS /\ m_stsPlay' = "run"
     \/ UNCHANGED <<rnd, eos, m_stsPlay>>
  /\ UNCHANGED <<flags, m_pURL, m_pBoxSource, mail, waiting, frame, history>>

SeekRenderers_Paused(bPause) ==
  IF m_pBoxSource = "null" \/ m_stsPlay = "init"
  THEN UNCHANGED <<rnd, eos>>
  ELSE NoEOS /\ IF m_stsPlay = "run" THEN SetRnd("pause") ELSE UNCHANGED rnd

(* DoSeek up to its wait: it pauses and restarts what runs; SetPos resets   *)
(* the end of stream of every renderer.  With bPause nothing is restarted.  *)
SeekRenderers(bPause) ==                                        \* 926-1030
  IF m_pBoxSource = "null" \/ m_stsPlay = "init"
  THEN UNCHANGED <<rnd, eos>>
  ELSE /\ NoEOS
       /\ IF m_stsPlay = "run" THEN SetRnd(IF bPause THEN "pause" ELSE "run")
                               ELSE UNCHANGED rnd
SeekWaits == m_stsPlay = "run" /\ m_pBoxSource # "null"         \* 979

SeekBegins ==                                                   \* 1847-1848
  /\ Does("seek") /\ m_mtFunc = Nil /\ m_mtFunc' = "work"
  /\ SeekRenderers(FALSE)
  /\ Goto("work", IF SeekWaits THEN "seek.loop" ELSE "seek.end")
  /\ UNCHANGED <<m_stsPlay, flags, m_pURL, m_pBoxSource, mail, queue, frame, history>>

(* A failed SetPos, the first frame, an end of stream, an abort request or *)
(* 10 seconds end the wait, in which renderers may reach the end.  The     *)
(* message thread returns without a notification.                          *)
SeekLoopEnds(t) ==                                              \* 1000-1020
  /\ pc[t] = "seek.loop"
  /\ Goto(t, IF t = "work" THEN "seek.end" ELSE "received")
  /\ UNCHANGED <<m_stsPlay, flags, m_mtFunc, m_pURL, media, mail, queue, frame, history>>

SeekEnds ==                                                     \* 1849-1853
  /\ pc["work"] = "seek.end" /\ m_mtFunc' = Nil /\ TaskDone
  /\ m_bSeeking' = FALSE /\ m_bEOS' = FALSE
  /\ UNCHANGED <<m_stsPlay, m_bOpening, m_bExit, m_bForceClose, m_bCheckReopn,
                 m_pURL, media, mail, waiting, frame, history>>

ReopenRefused ==                                                \* 478-482
  /\ Does("reopen") /\ m_mtFunc = Nil
  /\ m_pBoxSource = "null" \/ m_pURL = Nil
  /\ TaskDone
  /\ UNCHANGED <<m_stsPlay, flags, m_mtFunc, m_pURL, media, mail, waiting, frame, history>>

ReopenBegins ==                            \* 484-491; CBoxSource.cpp:59-63
  /\ Does("reopen") /\ m_mtFunc = Nil
  /\ m_pBoxSource # "null" /\ m_pURL # Nil
  /\ m_mtFunc' = "work" /\ m_bCheckReopn' = TRUE
  /\ SourceCloses /\ Goto("work", "reopen.clear")
  /\ UNCHANGED <<m_stsPlay, m_bOpening, m_bSeeking, m_bEOS, m_bExit, m_pURL,
                 rnd, eos, mail, queue, frame, history>>

ReopenAborts ==                                       \* CBoxSource.cpp:64
  /\ pc["work"] = "reopen.clear" /\ SourceClears /\ Goto("work", "reopen.io")
  /\ UNCHANGED <<m_stsPlay, m_bOpening, m_bSeeking, m_bEOS, m_bExit, m_bCheckReopn,
                 m_mtFunc, m_pURL, media, mail, queue, frame, history>>

(* The source is started when it opens; the renderers are left alone. *)
ReopenEnds ==                                                   \* 492-520
  /\ pc["work"] = "reopen.io" /\ m_pBoxSource' \in {"closed", m_pURL}
  /\ m_bCheckReopn' = FALSE /\ m_mtFunc' = Nil /\ TaskDone
  /\ UNCHANGED <<m_stsPlay, m_bOpening, m_bSeeking, m_bEOS, m_bExit, m_bForceClose,
                 m_pURL, rnd, eos, mail, waiting, frame, history>>

(* DoCheckStatus holds no lock: it looks at the status, then at the        *)
(* renderers and the flags, asks for a reopen when nothing was rendered     *)
(* since the last check, and posts itself again.                            *)
CheckStatus ==                                                  \* 525
  /\ Does("check") /\ m_stsPlay = "run" /\ Goto("work", "check.count")
  /\ UNCHANGED <<m_stsPlay, flags, m_mtFunc, m_pURL, media, mail, queue, frame, history>>

CheckIdle ==                                                    \* 525, 548
  /\ Does("check") /\ m_stsPlay # "run"
  /\ waiting' = Append(waiting, CheckJob) /\ TaskDone
  /\ UNCHANGED <<m_stsPlay, flags, m_mtFunc, m_pURL, media, mail, frame, history>>

CheckStalled ==                                                 \* 532-548
  /\ pc["work"] = "check.count"
  /\ Live /\ ~m_bEOS /\ ~m_bSeeking /\ ~m_bForceClose
  /\ Len(waiting) < MaxTask
  /\ waiting' = waiting \o <<ReopenJob, CheckJob>> /\ TaskDone
  /\ UNCHANGED <<m_stsPlay, flags, m_mtFunc, m_pURL, media, mail, frame, history>>

CheckPlays ==                                                   \* 527-548
  /\ pc["work"] = "check.count"
  /\ waiting' = Append(waiting, CheckJob) /\ TaskDone
  /\ UNCHANGED <<m_stsPlay, flags, m_mtFunc, m_pURL, media, mail, frame, history>>

(* Caching a URL takes as long as its IO, without m_mtFunc. *)
CacheBegins ==                                                  \* 1862-1865
  /\ Does("cache") /\ Goto("work", "caching")
  /\ m_pBoxSource' = IF m_pBoxSource = "null" THEN "closed" ELSE m_pBoxSource
  /\ UNCHANGED <<m_stsPlay, flags, m_mtFunc, m_pURL, rnd, eos, mail, queue, frame, history>>

CacheEnds ==                                                    \* 1866-1872
  /\ pc["work"] = "caching" /\ TaskDone
  /\ UNCHANGED <<m_stsPlay, flags, m_mtFunc, m_pURL, media, mail, waiting, frame, history>>

-----------------------------------------------------------------------------
(* The renderers and the message thread *)

(* A running renderer reads the end of its stream and notifies SNKA_EOS or  *)
(* SNKV_EOS.  It does nothing while the abort request is set.               *)
ReachesEOS(r) ==           \* CBoxVideoRnd.cpp:261, 338-344; CBoxAudioRnd.cpp:234
  /\ rnd[r] = "run" /\ ~eos[r] /\ ~m_bForceClose /\ m_pBoxSource \in URL
  /\ msgs < MaxMsg
  /\ eos' = [eos EXCEPT ![r] = TRUE] /\ msgs' = msgs + 1
  /\ UNCHANGED <<m_stsPlay, flags, m_mtFunc, m_pURL, m_pBoxSource, rnd, registered,
                 queue, pc, frame, history>>

HasMessage_Any == registered
HasMessage == registered /\ msgs > 0                            \* CMsgMng.cpp:200

Receive ==                                                      \* 1900
  /\ pc["msg"] = "idle" /\ HasMessage
  /\ msgs' = msgs - 1 /\ Goto("msg", "test")
  /\ UNCHANGED <<m_stsPlay, flags, m_mtFunc, m_pURL, media, registered, queue,
                 frame, history>>

(* The message is dropped while the engine opens, seeks or reopens. *)
TestFlags ==                                                    \* 1905, 2055
  /\ pc["msg"] = "test"
  /\ Goto("msg", IF m_bExit \/ Busy THEN "idle" ELSE "lock")
  /\ UNCHANGED <<m_stsPlay, flags, m_mtFunc, m_pURL, media, mail, queue, frame, history>>

Finished_NoRenderer == \A r \in Existing : eos[r]
Finished == Existing # {} /\ \A r \in Existing : eos[r]         \* 2062-2077

NotFinished ==                                                  \* 2101
  /\ pc["msg"] = "lock" /\ m_mtFunc = Nil /\ ~Finished
  /\ Goto("msg", "idle")
  /\ UNCHANGED <<m_stsPlay, flags, m_mtFunc, m_pURL, media, mail, queue, frame, history>>

(* At the end of all streams: seek to the start and go on (loop), or seek  *)
(* to the start and stay there (not over http), and report.                *)
Finish ==                                                       \* 2078-2091
  /\ pc["msg"] = "lock" /\ m_mtFunc = Nil /\ Finished
  /\ m_mtFunc' = "msg" /\ m_bEOS' = TRUE
  /\ \/ /\ TRUE \in Loops /\ SeekRenderers(FALSE)
        /\ Goto("msg", IF SeekWaits THEN "seek.loop" ELSE "received")
     \/ /\ FALSE \in Loops /\ m_pURL \notin Http
        /\ SeekRenderers(TRUE) /\ Goto("msg", "complete")
     \/ /\ FALSE \in Loops /\ m_pURL \in Http
        /\ UNCHANGED <<rnd, eos>> /\ Goto("msg", "complete")
  /\ UNCHANGED <<m_stsPlay, m_bOpening, m_bSeeking, m_bExit, m_bForceClose, m_bCheckReopn,
                 m_pURL, m_pBoxSource, mail, queue, frame, history>>

(* The PLAY_COMPLETE callback may call SetPos. *)
Complete ==                                                     \* 2093-2099
  /\ pc["msg"] = "complete"
  /\ \/ SeekOnComplete /\ SeekPosts("msg")
     \/ /\ Goto("msg", "received")
        /\ UNCHANGED <<m_stsPlay, flags, m_mtFunc, m_pURL, media, mail, queue,
                       frame, history>>

Received ==                                                     \* 2087, 2101
  /\ pc["msg"] = "received" /\ m_mtFunc' = Nil /\ Goto("msg", "idle")
  /\ UNCHANGED <<m_stsPlay, flags, m_pURL, media, mail, queue, frame, history>>

-----------------------------------------------------------------------------
Deleted == pc["app"] = "deleted" /\ UNCHANGED vars

AppCalls ==
  \/ \E u \in URL, same \in BOOLEAN : Open(u, same)
  \/ Close \/ Stop \/ Start \/ Pause \/ SetPos \/ AddCache \/ Delete
AppLocks == OpenPosts \/ CloseStops \/ StopEnds \/ StartEnds \/ PauseEnds
AppContinues ==
  \/ OpenRefused \/ OpenChecked \/ OpenFast \/ OpenCloses \/ OpenClears
  \/ CloseChecked \/ CloseEnds \/ StopChecked \/ SeekFlag("app") \/ SeekWait("app")
  \/ DeleteAborts \/ DeleteUnregisters \/ DeleteStops \/ DeleteEnds
Work ==
  \/ TaskBegins \/ OpenCancelled \/ OpenBegins \/ OpenAborts \/ OpenFails
  \/ OpenSucceeds \/ OpenFailed \/ OpenFlag \/ OpenDone \/ SeekBegins
  \/ SeekLoopEnds("work") \/ SeekEnds \/ ReopenRefused \/ ReopenBegins
  \/ ReopenAborts \/ ReopenEnds \/ CheckStatus \/ CheckIdle
  \/ CheckStalled \/ CheckPlays \/ CacheBegins \/ CacheEnds
Message ==
  \/ Receive \/ TestFlags \/ NotFinished \/ Finish \/ Complete \/ Received
  \/ SeekLoopEnds("msg") \/ SeekFlag("msg") \/ SeekWait("msg")

Next == AppCalls \/ AppLocks \/ AppContinues \/ Work \/ Message
          \/ (\E r \in Stream : ReachesEOS(r)) \/ Deleted

Spec == Init /\ [][Next]_vars

(* Every thread runs, time limits expire, and a mutex that is free again    *)
(* and again is eventually given to a thread that waits for it.             *)
Fairness == /\ WF_vars(AppContinues) /\ SF_vars(AppLocks)
            /\ SF_vars(Work) /\ SF_vars(Message)
LiveSpec == Spec /\ Fairness

-----------------------------------------------------------------------------
AppLabel == {"idle", "open.check", "open.url", "open.clear", "open.lock",
             "close.check", "close.lock", "close.body", "stop.check", "stop.lock",
             "start.lock", "pause.lock", "seek.flag", "seek.wait",
             "del.force", "del.msg", "del.thread", "del.wait", "deleted"}
WorkLabel == {"idle", "task", "open.clear", "open.io", "opened", "failed",
              "done", "seek.loop", "seek.end", "reopen.clear", "reopen.io",
              "check.count", "caching"}
MsgLabel == {"idle", "test", "lock", "seek.loop", "complete", "seek.flag",
             "seek.wait", "received"}
RndStatus == {"none", "init", "run", "pause", "stop"}

(* Every variable has its type. *)
TypeOK ==
  /\ m_stsPlay \in {"init", "open", "run", "pause", "stop"}
  /\ m_bOpening \in BOOLEAN /\ m_bSeeking \in BOOLEAN /\ m_bEOS \in BOOLEAN
  /\ m_bExit \in BOOLEAN /\ m_bForceClose \in BOOLEAN /\ m_bCheckReopn \in BOOLEAN
  /\ m_mtFunc \in Thread \cup {Nil}
  /\ m_pURL \in URL \cup {Nil} /\ m_pBoxSource \in URL \cup {"null", "closed"}
  /\ rnd \in [Stream -> RndStatus] /\ eos \in [Stream -> BOOLEAN]
  /\ msgs \in 0..MaxMsg /\ registered \in BOOLEAN
  /\ waiting \in Seq(TQ!Task) /\ running \in Seq(TQ!Task)
  /\ pc["app"] \in AppLabel /\ pc["work"] \in WorkLabel /\ pc["msg"] \in MsgLabel
  /\ DOMAIN pc = Thread
  /\ stack \in Seq({"open.clear", "close.body", "del.force"})
  /\ arg \in [url : URL \cup {Nil}, same : BOOLEAN]
  /\ accepted \in URL \cup {Nil} /\ closed \in BOOLEAN /\ failed \in BOOLEAN

(* DoOpen (681, 691) creates renderers without looking for old ones: no     *)
(* path of calls, tasks and failures leaves one behind to be lost.          *)
NoRendererLost ==
  pc["work"] = "open.io" /\ ~Current.same => Existing = {}

(* When nobody is inside m_mtFunc the status says what the renderers do,    *)
(* although Start, Pause, Stop, DoSeek and the end of stream all set both.  *)
StatusTellsRenderers ==
  m_mtFunc = Nil /\ m_stsPlay \in {"run", "pause", "stop"} =>
    \A r \in Existing : rnd[r] = m_stsPlay

(* What the application is told is about the source it has.  OPEN_DONE      *)
(* (1839) reports the source of the last Open that returned QC_ERR_NONE,    *)
(* whatever other calls were made meanwhile.  PLAY_COMPLETE (2098) is not   *)
(* reported while an Open is pending or after Close, even when the          *)
(* end-of-stream message passed the test of the flags (2055) before.        *)
ReportsAreCurrent ==
  /\ pc["work"] = "done" => m_pBoxSource = accepted
  /\ pc["msg"] = "complete" => ~m_bOpening /\ ~closed

(* A successful Open, Close or Stop leaves no abort request behind (the     *)
(* renderers would stay silent), except the one OpenSource makes and clears.*)
AbortCleared ==
  m_bForceClose /\ pc["app"] = "idle" /\ ~failed =>
    pc["work"] \in {"open.clear", "reopen.clear"}

(* When the destructor deletes the engine, neither the worker nor the       *)
(* message thread is inside it or can enter it.                             *)
QuietWhenDeleted ==
  pc["app"] = "deleted" => /\ pc["work"] = "idle" /\ pc["msg"] = "idle"
                           /\ m_mtFunc = Nil

(* SetPos in the PLAY_COMPLETE callback of a paused player waits (914), with *)
(* m_mtFunc held by its thread, for a SEEK task that needs m_mtFunc.         *)
CallbackDeadlock == pc["msg"] = "seek.wait" /\ m_bSeeking /\ m_mtFunc = "msg"

(* SetPos of a paused player waits (914) for a SEEK task that had ended      *)
(* before m_bSeeking was set (911).                                          *)
SeekTaskGone ==
  /\ pc["app"] = "seek.wait" /\ m_bSeeking
  /\ \A q \in Range(waiting) \cup Range(running) : ~IsSeek(q)

(* An accepted Open is answered: m_bOpening, which makes every other call    *)
(* fail, is cleared again.  Only a fast open, which is answered after Open   *)
(* returned, may not be: the deadlock of the callback keeps the worker from  *)
(* its task.                                                                 *)
OpenEnds == []<>~m_bOpening \/ <>[]CallbackDeadlock

(* Every call returns, the destructor included, but for the two waits of     *)
(* SetPos at 914 that nothing ends: its own for a task that is gone, and any *)
(* call's for the mutex of the callback that waits there.                    *)
CallsReturn ==
  []<>(pc["app"] \in {"idle", "deleted"}) \/ <>[]CallbackDeadlock \/ <>[]SeekTaskGone

(* SEEK_DONE follows a seek and Run is allowed after Pause: m_bSeeking,     *)
(* which makes Start and Pause fail, is cleared again.                      *)
SeekFinishes == m_bSeeking ~> ~m_bSeeking

(* A closed player has no open source.                                      *)
ClosedIsReleased == closed => m_pBoxSource \notin URL

(* A callback may call SetPos: the message thread returns from it.          *)
CallbackReturns == (pc["msg"] # "idle") ~> (pc["msg"] = "idle")
=============================================================================
