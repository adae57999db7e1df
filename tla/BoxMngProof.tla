----------------------------- MODULE BoxMngProof -----------------------------
(***************************************************************************)
(* Theorems about the player engine, for any set of sources and of calls   *)
(* of the application, whatever the callbacks do.                          *)
(***************************************************************************)
EXTENDS BoxMng, SequenceLemmas

-----------------------------------------------------------------------------
(* Where the application's call is, and who is inside m_mtFunc *)

(* The stack of a call made by Open, by the destructor, of the Stop made by *)
(* Close.                                                                   *)
ForOpen   == {<<"open.clear">>, <<"close.body", "open.clear">>}
ForDelete == {<<"del.force">>, <<"close.body", "del.force">>}
ForClose  == {<<"close.body">>, <<"close.body", "open.clear">>,
              <<"close.body", "del.force">>}

DelLabel   == {"del.force", "del.msg", "del.thread", "del.wait", "deleted"}
CloseLabel == {"close.check", "close.lock", "close.body"}
StopLabel  == {"stop.check", "stop.lock"}
OpenLabel  == {"task", "open.clear", "open.io", "opened", "failed", "done"}

(* The nested calls: Open and the destructor call Close, and Close calls    *)
(* Stop.  Only the destructor sets m_bExit.                                 *)
CallInv ==
  /\ stack \in {<<>>} \cup ForOpen \cup ForDelete \cup ForClose
  /\ stack # <<>> => pc["app"] \in CloseLabel \cup StopLabel
  /\ pc["app"] \in CloseLabel => stack \notin ForClose
  /\ pc["app"] \in StopLabel => stack = <<>> \/ stack \in ForClose
  /\ pc["app"] \in {"open.check", "open.url", "open.clear", "open.lock"} \/ stack \in ForOpen
       => arg.url \in URL
  /\ m_bExit <=> (pc["app"] \in DelLabel \/ stack \in ForDelete)

(* The work thread is in a handler while a task runs, in that of an open or *)
(* of a reopen with the URL it needs.                                       *)
TaskInv ==
  /\ pc["work"] = "idle" => running = <<>>
  /\ pc["work"] # "idle" => \E t \in TQ!Task : running = <<t>>
  /\ pc["work"] \in {"open.clear", "open.io", "opened", "failed", "done"}
       => Current.what = "open"
  /\ pc["work"] \in {"reopen.clear", "reopen.io"} => m_pURL \in URL

(* m_mtFunc is held exactly where the code is inside it. *)
LockInv ==
  /\ m_mtFunc = "app" <=> (pc["app"] = "close.body" \/ stack \in ForClose)
  /\ m_mtFunc = "work" <=> pc["work"] \in {"open.clear", "open.io", "opened", "failed", "done",
                                          "seek.loop", "seek.end", "reopen.clear", "reopen.io"}
  /\ m_mtFunc = "msg" <=> pc["msg"] \in {"seek.loop", "complete", "seek.flag", "seek.wait",
                                        "received"}

(* After RemNotify the message thread stays out; when the thread is         *)
(* stopped no task begins.                                                  *)
DeleteInv ==
  /\ pc["app"] \in {"del.thread", "del.wait", "deleted"} => ~registered /\ pc["msg"] = "idle"
  /\ pc["app"] = "deleted" => running = <<>>

ControlInv == TypeOK /\ CallInv /\ TaskInv /\ LockInv /\ DeleteInv

(* Who may have made an abort request that stands. *)
AbortInv ==
  m_bForceClose =>
    \/ pc["work"] \in {"open.clear", "reopen.clear"}
    \/ pc["app"] \in {"open.check"} \cup CloseLabel \cup StopLabel \cup DelLabel
    \/ failed /\ pc["app"] \in {"idle", "start.lock", "pause.lock", "seek.flag", "seek.wait"}

-----------------------------------------------------------------------------
(* The open that was accepted and is not answered yet *)

IsOpen(t) == t.id.what = "open"
OpenWaits == \E i \in 1..Len(waiting) : IsOpen(waiting[i])
OpenRuns  == \E t \in TQ!Task : running = <<t>> /\ IsOpen(t) /\ pc["work"] # "done"

(* There is at most one, and m_bOpening is set while there is one, until    *)
(* the destructor clears it.  When Open and Close have passed their checks  *)
(* there is none.                                                           *)
PendingInv ==
  /\ \A i, k \in 1..Len(waiting) : IsOpen(waiting[i]) /\ IsOpen(waiting[k]) => i = k
  /\ ~(OpenWaits /\ OpenRuns)
  /\ (OpenWaits \/ OpenRuns) /\ ~m_bExit => m_bOpening
  /\ m_bOpening =>
       \/ pc["app"] \in {"idle", "open.check", "start.lock", "pause.lock", "seek.flag", "seek.wait"}
       \/ pc["app"] \in {"close.check", "stop.check", "stop.lock"} /\ stack = <<>>

(* Renderers are created by one open only, which begins without any. *)
RendererInv ==
  /\ \A i \in 1..Len(waiting) : IsOpen(waiting[i]) /\ ~waiting[i].id.same => Existing = {}
  /\ \A t \in TQ!Task : running = <<t>> /\ IsOpen(t) /\ ~t.id.same
       => Existing = {} \/ pc["work"] \in {"opened", "done"}
  /\ pc["app"] \in {"open.clear", "open.lock"} => Existing = {}
  /\ m_pBoxSource = "null" /\ pc["app"] # "deleted" => Existing = {}

(* At the end of a source that is not read over http DoSeek pauses the      *)
(* renderers and the status stays "run" (2091), unless the player loops.    *)
PausedAtEnd == FALSE \in Loops /\ ~(URL \subseteq Http)
(* Whoever sets the status sets the renderers in the same locked section,   *)
(* and before the first Open there is neither a renderer nor an open.       *)
StatusInv ==
  /\ m_stsPlay \in {"run", "pause", "stop"} =>
       \A r \in Existing :
          rnd[r] = m_stsPlay \/ (PausedAtEnd /\ m_stsPlay = "run" /\ rnd[r] = "pause")
  /\ m_pURL = Nil => Existing = {} /\ ~OpenWaits /\ ~OpenRuns
                     /\ pc["app"] \notin {"open.url", "open.clear", "open.lock"}
                     /\ stack \notin ForOpen

(* A fast open (269) is accepted without m_mtFunc, while the handler of the *)
(* last open may be about to report OPEN_DONE.                              *)
NoFastOpen == "fastopen" \notin Calls

(* Where Open is, or returns to. *)
OpenPath == pc["app"] \in {"open.check", "open.url", "open.clear", "open.lock"}
              \/ stack \in ForOpen

(* The open that is pending is that of the last Open that was accepted; a   *)
(* closed player has none, and no renderer; PLAY_COMPLETE is reported under *)
(* m_mtFunc for renderers that exist.                                       *)
ReportInv ==
  /\ ~arg.same
  /\ \A i \in 1..Len(waiting) :
       IsOpen(waiting[i]) => waiting[i].id = Job("open", accepted, FALSE)
  /\ \A t \in TQ!Task : running = <<t>> /\ IsOpen(t) =>
       /\ t.id = Job("open", accepted, FALSE) \/ pc["work"] = "done"
       /\ pc["work"] \in OpenLabel
  /\ m_bOpening => OpenWaits \/ OpenRuns
  /\ closed => Existing = {} /\ ~OpenWaits /\ ~OpenRuns /\ ~OpenPath
  /\ pc["work"] \in {"opened", "done"} => m_pBoxSource = accepted
  /\ pc["msg"] = "complete" => ~m_bOpening /\ ~closed
-----------------------------------------------------------------------------
(* The return addresses of the nested calls *)
LEMMA ConcatOne ==
  ASSUME NEW a, NEW b
  PROVE  <<a>> \o <<b>> = <<a, b>> /\ <<a>> \o <<>> = <<a>>
<1> DEFINE S == {a, b}
           x == <<a>> \o <<b>>
           y == <<a, b>>
<1>1. /\ <<a>> \in Seq(S) /\ <<b>> \in Seq(S) /\ y \in Seq(S)
      /\ Len(<<a>>) = 1 /\ Len(<<b>>) = 1 /\ Len(y) = 2
  OBVIOUS
<1>2. x \in Seq(S) /\ Len(x) = 2
  BY <1>1, ConcatProperties
<1>3. x[1] = y[1] /\ x[2] = y[2]
  BY <1>1, ConcatProperties
<1>4. <<a>> \o <<>> = <<a>>
  BY <1>1, ConcatEmptySeq
<1> HIDE DEF S, x, y
<1>5. \A i \in 1..Len(x) : x[i] = y[i]
  BY <1>2, <1>3
<1>6. x = y
  BY <1>1, <1>2, <1>5, SeqEqual
<1> QED BY <1>4, <1>6 DEF x, y

(* The stacks of the nested calls, their first element and the rest. *)
LEMMA StackFacts ==
  /\ <<"open.clear">> \in ForOpen /\ <<"del.force">> \in ForDelete
  /\ <<"open.clear">> # <<"del.force">> /\ <<"open.clear">> # <<>> /\ <<"del.force">> # <<>>
  /\ ForOpen \cap ForDelete = {}
  /\ {<<>>, <<"open.clear">>, <<"del.force">>} \cap ForClose = {}
  /\ <<>> \notin ForOpen \cup ForDelete \cup ForClose
  /\ {<<>>} \cup ForOpen \cup ForDelete \cup ForClose
       \subseteq Seq({"open.clear", "close.body", "del.force"})
  /\ Head(<<"open.clear">>) = "open.clear" /\ Tail(<<"open.clear">>) = <<>>
  /\ Head(<<"del.force">>) = "del.force" /\ Tail(<<"del.force">>) = <<>>
  /\ \A s \in {<<>>} \cup ForOpen \cup ForDelete \cup ForClose :
       s \notin ForClose => s \in {<<>>, <<"open.clear">>, <<"del.force">>}
  /\ \A s \in ForClose :
       /\ Head(s) = "close.body" /\ Tail(s) \in {<<>>, <<"open.clear">>, <<"del.force">>}
       /\ s \in ForOpen <=> Tail(s) = <<"open.clear">>
       /\ s \in ForDelete <=> Tail(s) = <<"del.force">>
BY DEF ForOpen, ForDelete, ForClose

(* Close pushes its return address on the stack of its own call. *)
LEMMA PushFacts ==
  ASSUME NEW s \in {<<>>, <<"open.clear">>, <<"del.force">>}
  PROVE  /\ <<"close.body">> \o s \in ForClose
         /\ <<"close.body">> \o s \in ForOpen <=> s \in ForOpen
         /\ <<"close.body">> \o s \in ForDelete <=> s \in ForDelete
<1>1. <<"close.body">> \o s \in {<<"close.body">>, <<"close.body", "open.clear">>,
                                 <<"close.body", "del.force">>}
  BY ConcatOne
<1> QED BY ConcatOne, StackFacts DEF ForOpen, ForDelete, ForClose

(* What a call returns to, by who made it. *)
LEMMA ReturnFacts ==
  ASSUME TypeOK, CallInv, NEW ok \in BOOLEAN, Return(ok)
  PROVE  /\ stack \in ForClose =>
              /\ Goto("app", "close.body")
              /\ stack' \in {<<>>, <<"open.clear">>, <<"del.force">>}
              /\ stack' \in ForOpen <=> stack \in ForOpen
              /\ stack' \in ForDelete <=> stack \in ForDelete
              /\ UNCHANGED <<arg, failed>>
         /\ stack = <<>> => Goto("app", "idle") /\ stack' = <<>> /\ arg' = NoArg /\ failed' = ~ok
         /\ stack = <<"del.force">> => /\ Goto("app", "del.force") /\ stack' = <<>>
                                       /\ UNCHANGED <<arg, failed>>
         /\ stack = <<"open.clear">> =>
              /\ stack' = <<>>
              /\ IF ok THEN Goto("app", "open.clear") /\ UNCHANGED <<arg, failed>>
                       ELSE Goto("app", "idle") /\ arg' = NoArg /\ failed' = ~ok
<1>1. CASE stack \in ForClose
  BY <1>1, StackFacts DEF Return
<1>2. CASE stack = <<>>
  BY <1>2, StackFacts DEF Return
<1>3. CASE stack = <<"del.force">>
  BY <1>3, StackFacts DEF Return
<1>4. CASE stack = <<"open.clear">>
  BY <1>4, StackFacts DEF Return
<1> QED BY <1>1, <1>2, <1>3, <1>4, StackFacts DEF CallInv

-----------------------------------------------------------------------------
(* Types *)

FlagsType ==
  /\ m_bOpening \in BOOLEAN /\ m_bSeeking \in BOOLEAN /\ m_bEOS \in BOOLEAN
  /\ m_bExit \in BOOLEAN /\ m_bForceClose \in BOOLEAN /\ m_bCheckReopn \in BOOLEAN
  /\ registered \in BOOLEAN /\ closed \in BOOLEAN /\ failed \in BOOLEAN
PcType ==
  /\ pc["app"] \in AppLabel /\ pc["work"] \in WorkLabel /\ pc["msg"] \in MsgLabel
  /\ DOMAIN pc = Thread
DataType ==
  /\ m_stsPlay \in {"init", "open", "run", "pause", "stop"}
  /\ m_mtFunc \in Thread \cup {Nil}
  /\ m_pURL \in URL \cup {Nil} /\ m_pBoxSource \in URL \cup {"null", "closed"}
  /\ rnd \in [Stream -> RndStatus] /\ eos \in [Stream -> BOOLEAN]
  /\ msgs \in 0..MaxMsg
  /\ waiting \in Seq(TQ!Task) /\ running \in Seq(TQ!Task)
  /\ stack \in Seq({"open.clear", "close.body", "del.force"})
  /\ arg \in [url : URL \cup {Nil}, same : BOOLEAN] /\ accepted \in URL \cup {Nil}

(* The flags, the labels and the data: proved apart. *)
LEMMA TypeParts == TypeOK <=> FlagsType /\ PcType /\ DataType
BY DEF TypeOK, FlagsType, PcType, DataType

(* What all other parts of the invariant rest on. *)
BaseInv == TypeOK /\ CallInv /\ TaskInv

(* A return leaves the stack, the arguments and the history well typed. *)
LEMMA ReturnType ==
  ASSUME TypeOK, CallInv, NEW ok \in BOOLEAN, Return(ok)
  PROVE  /\ \E l \in {"idle", "open.clear", "close.body", "del.force"} :
               pc' = [pc EXCEPT !["app"] = l]
         /\ stack' \in Seq({"open.clear", "close.body", "del.force"})
         /\ arg' \in [url : URL \cup {Nil}, same : BOOLEAN]
         /\ failed' \in BOOLEAN
<1>1. arg \in [url : URL \cup {Nil}, same : BOOLEAN]
      /\ NoArg \in [url : URL \cup {Nil}, same : BOOLEAN]
      /\ failed \in BOOLEAN /\ (~ok) \in BOOLEAN
  BY DEF TypeOK, NoArg
<1>2. CASE stack \in ForClose
  BY <1>1, <1>2, ReturnFacts, StackFacts DEF Goto
<1>3. CASE stack = <<>>
  BY <1>1, <1>3, ReturnFacts, StackFacts DEF Goto
<1>4. CASE stack = <<"del.force">>
  BY <1>1, <1>4, ReturnFacts, StackFacts DEF Goto
<1>5. CASE stack = <<"open.clear">>
  BY <1>1, <1>5, ReturnFacts, StackFacts DEF Goto
<1> QED BY <1>2, <1>3, <1>4, <1>5, StackFacts DEF CallInv

(* The jobs are what the tasks carry. *)
LEMMA JobType ==
  /\ \A w \in {"check", "seek", "reopen", "cache"} : Job(w, Nil, FALSE) \in Jobs
  /\ \A u \in URL, s \in BOOLEAN : Job("open", u, s) \in Jobs
<1> DEFINE P == {Job(w, Nil, FALSE) : w \in {"check", "seek", "reopen", "cache"}}
           O == {Job("open", u, s) : u \in URL, s \in BOOLEAN}
<1>1. \A w \in {"check", "seek", "reopen", "cache"} : Job(w, Nil, FALSE) \in P
  OBVIOUS
<1>2. \A u \in URL, s \in BOOLEAN : Job("open", u, s) \in O
  OBVIOUS
<1>3. Jobs = P \cup O
  BY DEF Jobs
<1> HIDE DEF P, O
<1> QED BY <1>1, <1>2, <1>3

(* A task for a job, delayed or not. *)
LEMMA TaskType == \A j \in Jobs, d \in BOOLEAN : Task(j, d) \in TQ!Task
BY DEF TQ!Task, Task

(* An open carries the URL it was posted for. *)
LEMMA JobsType == \A t \in TQ!Task : t.id \in Jobs /\ (t.id.what = "open" => t.id.url \in URL)
BY DEF TQ!Task, Jobs, Job

(* Posting keeps the type of the queue. *)
LEMMA PostType ==
  ASSUME DataType, NEW j \in Jobs, NEW d \in BOOLEAN, Post(j, d)
  PROVE  waiting' \in Seq(TQ!Task)
BY TaskType DEF Post, DataType

(* A sequence of one. *)
LEMMA OneInSeq == ASSUME NEW S, NEW x \in S PROVE <<x>> \in Seq(S)
OBVIOUS

(* What a call of the application begins with keeps the types. *)
LEMMA AppCallsType ==
  ASSUME BaseInv, AppCalls
  PROVE  TypeOK'
<1> USE DEF BaseInv, flags, media, queue, mail, frame, history, Goto, Call
<1>0. FlagsType /\ PcType /\ DataType
  BY TypeParts
<1>1. FlagsType'
  <2> USE <1>0 DEF FlagsType
  <2>1. CASE \E u \in URL, same \in BOOLEAN : Open(u, same)
    BY <2>1 DEF Open
  <2>2. CASE Close
    BY <2>2 DEF Close
  <2>3. CASE Stop
    BY <2>3 DEF Stop
  <2>4. CASE Start
    BY <2>4 DEF Start
  <2>5. CASE Pause
    BY <2>5 DEF Pause
  <2>6. CASE SetPos
    BY <2>6 DEF SetPos, SeekPosts
  <2>7. CASE AddCache
    BY <2>7 DEF AddCache
  <2>8. CASE Delete
    BY <2>8 DEF Delete, CloseNothing
  <2> QED BY <2>1, <2>2, <2>3, <2>4, <2>5, <2>6, <2>7, <2>8 DEF AppCalls
<1>2. PcType'
  <2> USE <1>0 DEF PcType, AppLabel, WorkLabel, MsgLabel, Thread
  <2>1. CASE \E u \in URL, same \in BOOLEAN : Open(u, same)
    BY <2>1 DEF Open
  <2>2. CASE Close
    BY <2>2 DEF Close
  <2>3. CASE Stop
    BY <2>3 DEF Stop
  <2>4. CASE Start
    BY <2>4 DEF Start
  <2>5. CASE Pause
    BY <2>5 DEF Pause
  <2>6. CASE SetPos
    BY <2>6 DEF SetPos, SeekPosts
  <2>7. CASE AddCache
    BY <2>7 DEF AddCache
  <2>8. CASE Delete
    BY <2>8 DEF Delete, CloseNothing
  <2> QED BY <2>1, <2>2, <2>3, <2>4, <2>5, <2>6, <2>7, <2>8 DEF AppCalls
<1>3. DataType'
  <2> USE <1>0 DEF DataType, Thread
  <2>1. CASE \E u \in URL, same \in BOOLEAN : Open(u, same)
    BY <2>1 DEF Open
  <2>2. CASE Close
    BY <2>2 DEF Close
  <2>3. CASE Stop
    BY <2>3 DEF Stop
  <2>4. CASE Start
    BY <2>4 DEF Start
  <2>5. CASE Pause
    BY <2>5 DEF Pause
  <2>6. CASE SetPos
    BY <2>6, JobType, PostType DEF SetPos, SeekPosts
  <2>7. CASE AddCache
    BY <2>7, JobType, PostType DEF AddCache
  <2>8. CASE Delete
    BY <2>8, StackFacts DEF Delete, CloseNothing
  <2> QED BY <2>1, <2>2, <2>3, <2>4, <2>5, <2>6, <2>7, <2>8 DEF AppCalls
<1> QED BY <1>1, <1>2, <1>3 DEF TypeOK, FlagsType, PcType, DataType

(* What the application does inside m_mtFunc keeps the types. *)
LEMMA AppLocksType ==
  ASSUME BaseInv, AppLocks
  PROVE  TypeOK'
<1> USE DEF BaseInv, flags, media, queue, mail, frame, history, Goto, Call
<1>0. FlagsType /\ PcType /\ DataType
  BY TypeParts
<1>1. FlagsType'
  <2> USE <1>0 DEF FlagsType
  <2>1. CASE OpenPosts
    BY <2>1 DEF OpenPosts
  <2>2. CASE CloseStops
    BY <2>2 DEF CloseStops
  <2>3. CASE StopEnds
    BY <2>3, ReturnType DEF StopEnds, SetRnd, Existing, RndStatus
  <2>4. CASE StartEnds
    BY <2>4 DEF StartEnds, SetRnd, Existing, RndStatus, NoEOS
  <2>5. CASE PauseEnds
    BY <2>5 DEF PauseEnds, SetRnd, Existing, RndStatus
  <2> QED BY <2>1, <2>2, <2>3, <2>4, <2>5 DEF AppLocks
<1>2. PcType'
  <2> USE <1>0 DEF PcType, AppLabel, WorkLabel, MsgLabel, Thread
  <2>1. CASE OpenPosts
    BY <2>1 DEF OpenPosts
  <2>2. CASE CloseStops
    BY <2>2 DEF CloseStops
  <2>3. CASE StopEnds
    BY <2>3, ReturnType DEF StopEnds, SetRnd, Existing, RndStatus
  <2>4. CASE StartEnds
    BY <2>4 DEF StartEnds, SetRnd, Existing, RndStatus, NoEOS
  <2>5. CASE PauseEnds
    BY <2>5 DEF PauseEnds, SetRnd, Existing, RndStatus
  <2> QED BY <2>1, <2>2, <2>3, <2>4, <2>5 DEF AppLocks
<1>3. DataType'
  <2> USE <1>0 DEF DataType, Thread
  <2>1. CASE OpenPosts
    BY <2>1, JobType, PostType DEF OpenPosts, CallInv, NoArg
  <2>2. CASE CloseStops
    BY <2>2, StackFacts, PushFacts DEF CloseStops, CallInv, CloseLabel
  <2>3. CASE StopEnds
    BY <2>3, ReturnType DEF StopEnds, SetRnd, Existing, RndStatus
  <2>4. CASE StartEnds
    BY <2>4 DEF StartEnds, SetRnd, Existing, RndStatus, NoEOS
  <2>5. CASE PauseEnds
    BY <2>5 DEF PauseEnds, SetRnd, Existing, RndStatus
  <2> QED BY <2>1, <2>2, <2>3, <2>4, <2>5 DEF AppLocks
<1> QED BY <1>1, <1>2, <1>3 DEF TypeOK, FlagsType, PcType, DataType

(* Every other step of the application keeps the types. *)
LEMMA AppContinuesType ==
  ASSUME BaseInv, AppContinues
  PROVE  TypeOK'
<1> USE DEF BaseInv, flags, media, queue, mail, frame, history, Goto, Call
<1>0. FlagsType /\ PcType /\ DataType
  BY TypeParts
<1>1. FlagsType'
  <2> USE <1>0 DEF FlagsType
  <2>1. CASE OpenRefused
    BY <2>1, ReturnType DEF OpenRefused
  <2>2. CASE OpenChecked
    BY <2>2 DEF OpenChecked, CallInv
  <2>3. CASE OpenFast
    BY <2>3 DEF OpenFast, CallInv, NoArg
  <2>4. CASE OpenCloses
    BY <2>4 DEF OpenCloses, CloseNothing
  <2>5. CASE OpenClears
    BY <2>5 DEF OpenClears
  <2>6. CASE CloseChecked
    BY <2>6, ReturnType DEF CloseChecked
  <2>7. CASE CloseEnds
    BY <2>7, ReturnType DEF CloseEnds, NoEOS, RndStatus
  <2>8. CASE StopChecked
    BY <2>8, ReturnType DEF StopChecked
  <2>9. CASE SeekFlag("app")
    BY <2>9 DEF SeekFlag, SeekReturn
  <2>10. CASE SeekWait("app")
    BY <2>10 DEF SeekWait, SeekReturn
  <2>11. CASE DeleteAborts
    BY <2>11 DEF DeleteAborts
  <2>12. CASE DeleteUnregisters
    BY <2>12 DEF DeleteUnregisters
  <2>13. CASE DeleteStops
    BY <2>13 DEF DeleteStops
  <2>14. CASE DeleteEnds
    BY <2>14 DEF DeleteEnds
  <2> QED BY <2>1, <2>2, <2>3, <2>4, <2>5, <2>6, <2>7, <2>8, <2>9, <2>10,
          <2>11, <2>12, <2>13, <2>14 DEF AppContinues
<1>2. PcType'
  <2> USE <1>0 DEF PcType, AppLabel, WorkLabel, MsgLabel, Thread
  <2>1. CASE OpenRefused
    BY <2>1, ReturnType DEF OpenRefused
  <2>2. CASE OpenChecked
    BY <2>2 DEF OpenChecked, CallInv
  <2>3. CASE OpenFast
    BY <2>3 DEF OpenFast, CallInv, NoArg
  <2>4. CASE OpenCloses
    BY <2>4 DEF OpenCloses, CloseNothing
  <2>5. CASE OpenClears
    BY <2>5 DEF OpenClears
  <2>6. CASE CloseChecked
    BY <2>6, ReturnType DEF CloseChecked
  <2>7. CASE CloseEnds
    BY <2>7, ReturnType DEF CloseEnds, NoEOS, RndStatus
  <2>8. CASE StopChecked
    BY <2>8, ReturnType DEF StopChecked
  <2>9. CASE SeekFlag("app")
    BY <2>9 DEF SeekFlag, SeekReturn
  <2>10. CASE SeekWait("app")
    BY <2>10 DEF SeekWait, SeekReturn
  <2>11. CASE DeleteAborts
    BY <2>11 DEF DeleteAborts
  <2>12. CASE DeleteUnregisters
    BY <2>12 DEF DeleteUnregisters
  <2>13. CASE DeleteStops
    BY <2>13 DEF DeleteStops
  <2>14. CASE DeleteEnds
    BY <2>14 DEF DeleteEnds
  <2> QED BY <2>1, <2>2, <2>3, <2>4, <2>5, <2>6, <2>7, <2>8, <2>9, <2>10,
          <2>11, <2>12, <2>13, <2>14 DEF AppContinues
<1>3. DataType'
  <2> USE <1>0 DEF DataType, Thread
  <2>1. CASE OpenRefused
    BY <2>1, ReturnType DEF OpenRefused
  <2>2. CASE OpenChecked
    BY <2>2 DEF OpenChecked, CallInv
  <2>3. CASE OpenFast
    BY <2>3, JobType, PostType DEF OpenFast, CallInv, NoArg
  <2>4. CASE OpenCloses
    BY <2>4, StackFacts DEF OpenCloses, CloseNothing
  <2>5. CASE OpenClears
    BY <2>5 DEF OpenClears
  <2>6. CASE CloseChecked
    BY <2>6, ReturnType DEF CloseChecked
  <2>7. CASE CloseEnds
    <3>1. /\ stack' \in Seq({"open.clear", "close.body", "del.force"})
          /\ arg' \in [url : URL \cup {Nil}, same : BOOLEAN]
      BY <2>7, ReturnType DEF CloseEnds
    <3>2. msgs' \in 0..MaxMsg
      BY <2>7, BoundAssumption DEF CloseEnds
    <3>3. rnd' \in [Stream -> RndStatus] /\ eos' \in [Stream -> BOOLEAN]
      BY <2>7 DEF CloseEnds, NoEOS, RndStatus
    <3> QED BY <2>7, <3>1, <3>2, <3>3 DEF CloseEnds
  <2>8. CASE StopChecked
    BY <2>8, ReturnType DEF StopChecked
  <2>9. CASE SeekFlag("app")
    BY <2>9 DEF SeekFlag, SeekReturn
  <2>10. CASE SeekWait("app")
    BY <2>10 DEF SeekWait, SeekReturn
  <2>11. CASE DeleteAborts
    BY <2>11 DEF DeleteAborts
  <2>12. CASE DeleteUnregisters
    BY <2>12 DEF DeleteUnregisters
  <2>13. CASE DeleteStops
    BY <2>13 DEF DeleteStops
  <2>14. CASE DeleteEnds
    BY <2>14, BoundAssumption DEF DeleteEnds
  <2> QED BY <2>1, <2>2, <2>3, <2>4, <2>5, <2>6, <2>7, <2>8, <2>9, <2>10,
          <2>11, <2>12, <2>13, <2>14 DEF AppContinues
<1> QED BY <1>1, <1>2, <1>3 DEF TypeOK, FlagsType, PcType, DataType

(* The worker takes one task out of the queue. *)
LEMMA BeginType ==
  ASSUME DataType, TQ!Begin
  PROVE  \E i \in 1..Len(waiting) :
           /\ waiting[i] \in TQ!Task /\ running' = <<waiting[i]>> /\ running' \in Seq(TQ!Task)
           /\ waiting' = RemoveAt(waiting, i) /\ waiting' \in Seq(TQ!Task)
<1>1. PICK i \in 1..Len(waiting) : running' = <<waiting[i]>> /\ waiting' = RemoveAt(waiting, i)
  BY DEF TQ!Begin, TQ!RemoveAt, RemoveAt
<1>2. waiting \in Seq(TQ!Task)
  BY DEF DataType
<1>3. waiting[i] \in TQ!Task /\ RemoveAt(waiting, i) \in Seq(TQ!Task)
  BY <1>2, RemoveAtProperties
<1>4. <<waiting[i]>> \in Seq(TQ!Task)
  BY <1>3, OneInSeq
<1> QED BY <1>1, <1>3, <1>4

(* The task that runs carries a job, an open a URL. *)
LEMMA CurrentType ==
  ASSUME TaskInv, pc["work"] # "idle"
  PROVE  Current \in Jobs /\ (Current.what = "open" => Current.url \in URL)
<1>1. PICK t \in TQ!Task : running = <<t>>
  BY DEF TaskInv
<1>2. Current = t.id
  BY <1>1 DEF Current
<1> QED BY <1>2, JobsType

(* The tasks of DoCheckStatus. *)
LEMMA CheckJobType ==
  /\ CheckJob \in TQ!Task /\ ReopenJob \in TQ!Task
  /\ <<ReopenJob, CheckJob>> \in Seq(TQ!Task)
<1>1. CheckJob \in TQ!Task /\ ReopenJob \in TQ!Task
  BY JobType, TaskType DEF CheckJob, ReopenJob
<1> QED BY <1>1

(* What changes the renderers together keeps their type. *)
LEMMA SeekRenderersType ==
  ASSUME rnd \in [Stream -> RndStatus], eos \in [Stream -> BOOLEAN], NEW p \in BOOLEAN,
         SeekRenderers(p) \/ (SetRnd("run") /\ NoEOS) \/ UNCHANGED <<rnd, eos>>
  PROVE  rnd' \in [Stream -> RndStatus] /\ eos' \in [Stream -> BOOLEAN]
BY DEF SeekRenderers, SetRnd, NoEOS, RndStatus

(* Every step of the worker keeps the types. *)
LEMMA WorkType ==
  ASSUME BaseInv, Work
  PROVE  TypeOK'
<1> USE DEF BaseInv, flags, media, queue, mail, frame, history, Goto, Call
<1>0. FlagsType /\ PcType /\ DataType
  BY TypeParts
<1>1. FlagsType'
  <2> USE <1>0 DEF FlagsType
  <2>1. CASE TaskBegins
    BY <2>1 DEF TaskBegins
  <2>2. CASE OpenCancelled
    BY <2>2 DEF OpenCancelled, Does, TaskDone
  <2>3. CASE OpenBegins
    BY <2>3 DEF OpenBegins, Does, SourceCloses
  <2>4. CASE OpenAborts
    BY <2>4 DEF OpenAborts, SourceClears
  <2>5. CASE OpenFails
    BY <2>5 DEF OpenFails
  <2>6. CASE OpenSucceeds
    BY <2>6 DEF OpenSucceeds
  <2>7. CASE OpenFailed
    BY <2>7 DEF OpenFailed, TaskDone
  <2>8. CASE OpenFlag
    BY <2>8 DEF OpenFlag
  <2>9. CASE OpenDone
    BY <2>9 DEF OpenDone, TaskDone, SetRnd, NoEOS, RndStatus
  <2>10. CASE SeekBegins
    BY <2>10 DEF SeekBegins, Does, SeekRenderers, SetRnd, NoEOS, RndStatus
  <2>11. CASE SeekLoopEnds("work")
    BY <2>11 DEF SeekLoopEnds
  <2>12. CASE SeekEnds
    BY <2>12 DEF SeekEnds, TaskDone
  <2>13. CASE ReopenRefused
    BY <2>13 DEF ReopenRefused, Does, TaskDone
  <2>14. CASE ReopenBegins
    BY <2>14 DEF ReopenBegins, Does, SourceCloses
  <2>15. CASE ReopenAborts
    BY <2>15 DEF ReopenAborts, SourceClears
  <2>16. CASE ReopenEnds
    BY <2>16 DEF ReopenEnds, TaskDone
  <2>17. CASE CheckStatus
    BY <2>17 DEF CheckStatus, Does
  <2>18. CASE CheckIdle
    BY <2>18 DEF CheckIdle, Does, TaskDone
  <2>19. CASE CheckStalled
    BY <2>19 DEF CheckStalled, TaskDone
  <2>20. CASE CheckPlays
    BY <2>20 DEF CheckPlays, TaskDone
  <2>21. CASE CacheBegins
    BY <2>21 DEF CacheBegins, Does
  <2>22. CASE CacheEnds
    BY <2>22 DEF CacheEnds, TaskDone
  <2> QED BY <2>1, <2>2, <2>3, <2>4, <2>5, <2>6, <2>7, <2>8, <2>9, <2>10,
          <2>11, <2>12, <2>13, <2>14, <2>15, <2>16, <2>17, <2>18, <2>19,
          <2>20, <2>21, <2>22 DEF Work
<1>2. PcType'
  <2> USE <1>0 DEF PcType, AppLabel, WorkLabel, MsgLabel, Thread
  <2>1. CASE TaskBegins
    BY <2>1 DEF TaskBegins
  <2>2. CASE OpenCancelled
    BY <2>2 DEF OpenCancelled, Does, TaskDone
  <2>3. CASE OpenBegins
    BY <2>3 DEF OpenBegins, Does, SourceCloses
  <2>4. CASE OpenAborts
    BY <2>4 DEF OpenAborts, SourceClears
  <2>5. CASE OpenFails
    BY <2>5 DEF OpenFails
  <2>6. CASE OpenSucceeds
    BY <2>6 DEF OpenSucceeds
  <2>7. CASE OpenFailed
    BY <2>7 DEF OpenFailed, TaskDone
  <2>8. CASE OpenFlag
    BY <2>8 DEF OpenFlag
  <2>9. CASE OpenDone
    BY <2>9 DEF OpenDone, TaskDone, SetRnd, NoEOS, RndStatus
  <2>10. CASE SeekBegins
    BY <2>10 DEF SeekBegins, Does, SeekRenderers, SetRnd, NoEOS, RndStatus
  <2>11. CASE SeekLoopEnds("work")
    BY <2>11 DEF SeekLoopEnds
  <2>12. CASE SeekEnds
    BY <2>12 DEF SeekEnds, TaskDone
  <2>13. CASE ReopenRefused
    BY <2>13 DEF ReopenRefused, Does, TaskDone
  <2>14. CASE ReopenBegins
    BY <2>14 DEF ReopenBegins, Does, SourceCloses
  <2>15. CASE ReopenAborts
    BY <2>15 DEF ReopenAborts, SourceClears
  <2>16. CASE ReopenEnds
    BY <2>16 DEF ReopenEnds, TaskDone
  <2>17. CASE CheckStatus
    BY <2>17 DEF CheckStatus, Does
  <2>18. CASE CheckIdle
    BY <2>18 DEF CheckIdle, Does, TaskDone
  <2>19. CASE CheckStalled
    BY <2>19 DEF CheckStalled, TaskDone
  <2>20. CASE CheckPlays
    BY <2>20 DEF CheckPlays, TaskDone
  <2>21. CASE CacheBegins
    BY <2>21 DEF CacheBegins, Does
  <2>22. CASE CacheEnds
    BY <2>22 DEF CacheEnds, TaskDone
  <2> QED BY <2>1, <2>2, <2>3, <2>4, <2>5, <2>6, <2>7, <2>8, <2>9, <2>10,
          <2>11, <2>12, <2>13, <2>14, <2>15, <2>16, <2>17, <2>18, <2>19,
          <2>20, <2>21, <2>22 DEF Work
<1>3. DataType'
  <2> USE <1>0 DEF DataType, Thread
  <2>1. CASE TaskBegins
    BY <2>1, BeginType DEF TaskBegins
  <2>2. CASE OpenCancelled
    BY <2>2 DEF OpenCancelled, Does, TaskDone
  <2>3. CASE OpenBegins
    BY <2>3 DEF OpenBegins, Does, SourceCloses
  <2>4. CASE OpenAborts
    BY <2>4 DEF OpenAborts, SourceClears
  <2>5. CASE OpenFails
    BY <2>5, CurrentType DEF OpenFails, TaskInv
  <2>6. CASE OpenSucceeds
    BY <2>6, CurrentType DEF OpenSucceeds, TaskInv, RndStatus
  <2>7. CASE OpenFailed
    BY <2>7 DEF OpenFailed, TaskDone
  <2>8. CASE OpenFlag
    BY <2>8 DEF OpenFlag
  <2>9. CASE OpenDone
    BY <2>9, SeekRenderersType DEF OpenDone, TaskDone
  <2>10. CASE SeekBegins
    BY <2>10, SeekRenderersType DEF SeekBegins, Does
  <2>11. CASE SeekLoopEnds("work")
    BY <2>11 DEF SeekLoopEnds
  <2>12. CASE SeekEnds
    BY <2>12 DEF SeekEnds, TaskDone
  <2>13. CASE ReopenRefused
    BY <2>13 DEF ReopenRefused, Does, TaskDone
  <2>14. CASE ReopenBegins
    BY <2>14 DEF ReopenBegins, Does, SourceCloses
  <2>15. CASE ReopenAborts
    BY <2>15 DEF ReopenAborts, SourceClears
  <2>16. CASE ReopenEnds
    BY <2>16 DEF ReopenEnds, TaskInv, TaskDone
  <2>17. CASE CheckStatus
    BY <2>17 DEF CheckStatus, Does
  <2>18. CASE CheckIdle
    BY <2>18, CheckJobType DEF CheckIdle, Does, TaskDone
  <2>19. CASE CheckStalled
    BY <2>19, CheckJobType DEF CheckStalled, TaskDone
  <2>20. CASE CheckPlays
    BY <2>20, CheckJobType DEF CheckPlays, TaskDone
  <2>21. CASE CacheBegins
    BY <2>21 DEF CacheBegins, Does
  <2>22. CASE CacheEnds
    BY <2>22 DEF CacheEnds, TaskDone
  <2> QED BY <2>1, <2>2, <2>3, <2>4, <2>5, <2>6, <2>7, <2>8, <2>9, <2>10,
          <2>11, <2>12, <2>13, <2>14, <2>15, <2>16, <2>17, <2>18, <2>19,
          <2>20, <2>21, <2>22 DEF Work
<1> QED BY <1>1, <1>2, <1>3 DEF TypeOK, FlagsType, PcType, DataType

(* Every step of the message thread keeps the types. *)
LEMMA MessageType ==
  ASSUME BaseInv, Message
  PROVE  TypeOK'
<1> USE DEF BaseInv, flags, media, queue, mail, frame, history, Goto, Call
<1>0. FlagsType /\ PcType /\ DataType
  BY TypeParts
<1>1. FlagsType'
  <2> USE <1>0 DEF FlagsType
  <2>1. CASE Receive
    BY <2>1 DEF Receive, HasMessage
  <2>2. CASE TestFlags
    BY <2>2 DEF TestFlags
  <2>3. CASE NotFinished
    BY <2>3 DEF NotFinished
  <2>4. CASE Finish
    BY <2>4 DEF Finish, SeekRenderers, SetRnd, NoEOS, RndStatus
  <2>5. CASE Complete
    BY <2>5 DEF Complete, SeekPosts
  <2>6. CASE Received
    BY <2>6 DEF Received
  <2>7. CASE SeekLoopEnds("msg")
    BY <2>7 DEF SeekLoopEnds
  <2>8. CASE SeekFlag("msg")
    BY <2>8 DEF SeekFlag, SeekReturn
  <2>9. CASE SeekWait("msg")
    BY <2>9 DEF SeekWait, SeekReturn
  <2> QED BY <2>1, <2>2, <2>3, <2>4, <2>5, <2>6, <2>7, <2>8, <2>9 DEF Message
<1>2. PcType'
  <2> USE <1>0 DEF PcType, AppLabel, WorkLabel, MsgLabel, Thread
  <2>1. CASE Receive
    BY <2>1 DEF Receive, HasMessage
  <2>2. CASE TestFlags
    BY <2>2 DEF TestFlags
  <2>3. CASE NotFinished
    BY <2>3 DEF NotFinished
  <2>4. CASE Finish
    BY <2>4 DEF Finish, SeekRenderers, SetRnd, NoEOS, RndStatus
  <2>5. CASE Complete
    BY <2>5 DEF Complete, SeekPosts
  <2>6. CASE Received
    BY <2>6 DEF Received
  <2>7. CASE SeekLoopEnds("msg")
    BY <2>7 DEF SeekLoopEnds
  <2>8. CASE SeekFlag("msg")
    BY <2>8 DEF SeekFlag, SeekReturn
  <2>9. CASE SeekWait("msg")
    BY <2>9 DEF SeekWait, SeekReturn
  <2> QED BY <2>1, <2>2, <2>3, <2>4, <2>5, <2>6, <2>7, <2>8, <2>9 DEF Message
<1>3. DataType'
  <2> USE <1>0 DEF DataType, Thread
  <2>1. CASE Receive
    BY <2>1, BoundAssumption DEF Receive, HasMessage
  <2>2. CASE TestFlags
    BY <2>2 DEF TestFlags
  <2>3. CASE NotFinished
    BY <2>3 DEF NotFinished
  <2>4. CASE Finish
    BY <2>4, SeekRenderersType DEF Finish
  <2>5. CASE Complete
    BY <2>5, JobType, PostType DEF Complete, SeekPosts
  <2>6. CASE Received
    BY <2>6 DEF Received
  <2>7. CASE SeekLoopEnds("msg")
    BY <2>7 DEF SeekLoopEnds
  <2>8. CASE SeekFlag("msg")
    BY <2>8 DEF SeekFlag, SeekReturn
  <2>9. CASE SeekWait("msg")
    BY <2>9 DEF SeekWait, SeekReturn
  <2> QED BY <2>1, <2>2, <2>3, <2>4, <2>5, <2>6, <2>7, <2>8, <2>9 DEF Message
<1> QED BY <1>1, <1>2, <1>3 DEF TypeOK, FlagsType, PcType, DataType

-----------------------------------------------------------------------------
(* Who moves *)
LEMMA AppStays ==
  ASSUME TypeOK, Work \/ Message
  PROVE  /\ pc'["app"] = pc["app"] /\ DOMAIN pc' = Thread
         /\ UNCHANGED <<stack, arg, m_bExit, m_pURL, registered>>
<1>1. DOMAIN pc = Thread
  BY DEF TypeOK
<1>2. CASE Work
  BY <1>1, <1>2 DEF Work, Thread, Goto, TaskDone, flags, frame, mail, TaskBegins,
    OpenCancelled, OpenBegins, OpenAborts, OpenFails, OpenSucceeds, OpenFailed, OpenFlag,
    OpenDone, SeekBegins, SeekLoopEnds, SeekEnds, ReopenRefused, ReopenBegins, ReopenAborts,
    ReopenEnds, CheckStatus, CheckIdle, CheckStalled, CheckPlays, CacheBegins, CacheEnds
<1>3. CASE Message
  BY <1>1, <1>3 DEF Message, Thread, Goto, flags, frame, mail, Receive, TestFlags, NotFinished,
    Finish, Complete, Received, SeekLoopEnds, SeekFlag, SeekWait, SeekReturn, SeekPosts
<1> QED BY <1>2, <1>3

(* The message thread does not move the worker. *)
LEMMA WorkStays ==
  ASSUME TypeOK, Message
  PROVE  pc'["work"] = pc["work"] /\ running' = running
BY DEF TypeOK, Message, Thread, Goto, flags, frame, mail, queue, Receive, TestFlags,
   NotFinished,
    Finish, Complete, Received, SeekLoopEnds, SeekFlag, SeekWait, SeekReturn, SeekPosts

(* The application moves neither the worker nor the message thread. *)
LEMMA AppOnly ==
  ASSUME TypeOK, CallInv, AppCalls \/ AppLocks \/ AppContinues
  PROVE  pc'["work"] = pc["work"] /\ pc'["msg"] = pc["msg"] /\ running' = running
<1>1. DOMAIN pc = Thread
  BY DEF TypeOK
<1>2. CASE AppCalls
  BY <1>1, <1>2 DEF AppCalls, Thread, Goto, queue, Open, Close, Stop, Start, Pause, SetPos,
     SeekPosts, AddCache, Delete
<1>3. CASE AppLocks
  BY <1>1, <1>3, ReturnType DEF AppLocks, Thread, Goto, queue, OpenPosts, CloseStops, StopEnds,
     StartEnds, PauseEnds
<1>4. CASE AppContinues
  BY <1>1, <1>4, ReturnType DEF AppContinues, Thread, Goto, queue,
  OpenRefused, OpenChecked, OpenFast, OpenCloses, OpenClears
  , CloseChecked, CloseEnds, StopChecked, SeekFlag, SeekWait
  , DeleteAborts, DeleteUnregisters, DeleteStops, DeleteEnds, SeekReturn
<1> QED BY <1>2, <1>3, <1>4

-----------------------------------------------------------------------------
(* The calls, the tasks, the mutex and the destructor *)
LEMMA AppCallsCall ==
  ASSUME TypeOK, CallInv, AppCalls
  PROVE  CallInv'
<1>0. DOMAIN pc = Thread
  BY DEF TypeOK
<1> USE <1>0, StackFacts DEF CallInv, flags, frame, Goto, Call, CloseLabel, StopLabel,
      DelLabel, Thread
<1>1. CASE \E u \in URL, same \in BOOLEAN : Open(u, same)
  BY <1>1 DEF Open
<1>2. CASE Close
  BY <1>2 DEF Close
<1>3. CASE Stop
  BY <1>3 DEF Stop
<1>4. CASE Start
  BY <1>4 DEF Start
<1>5. CASE Pause
  BY <1>5 DEF Pause
<1>6. CASE SetPos
  BY <1>6 DEF SetPos, SeekPosts
<1>7. CASE AddCache
  BY <1>7 DEF AddCache
<1>8. CASE Delete
  BY <1>8, StackFacts DEF Delete
<1> QED BY <1>1, <1>2, <1>3, <1>4, <1>5, <1>6, <1>7, <1>8 DEF AppCalls

(* The nested calls inside m_mtFunc: Close calls Stop, Stop returns. *)
LEMMA AppLocksCall ==
  ASSUME TypeOK, CallInv, AppLocks
  PROVE  CallInv'
<1>0. DOMAIN pc = Thread
  BY DEF TypeOK
<1> USE <1>0, StackFacts DEF CallInv, flags, frame, Goto, Call, CloseLabel, StopLabel,
      DelLabel, Thread
<1>1. CASE OpenPosts
  BY <1>1, StackFacts DEF OpenPosts
<1>2. CASE CloseStops
  <2>1. stack \in {<<>>, <<"open.clear">>, <<"del.force">>}
    BY <1>2 DEF CloseStops
  <2>2. CASE m_stsPlay = "stop"
    BY <1>2, <2>1, <2>2 DEF CloseStops
  <2>3. CASE m_stsPlay # "stop"
    <3>1. /\ stack' \in ForClose
          /\ stack' \in ForOpen <=> stack \in ForOpen
          /\ stack' \in ForDelete <=> stack \in ForDelete
      <4>1. stack' = <<"close.body">> \o stack
        BY <1>2, <2>3 DEF CloseStops
      <4> QED BY <2>1, <4>1, PushFacts
    <3> QED BY <1>2, <2>1, <2>3, <3>1 DEF CloseStops
  <2> QED BY <2>2, <2>3
<1>3. CASE StopEnds
  BY <1>3, StackFacts, ReturnFacts DEF StopEnds
<1>4. CASE StartEnds
  BY <1>4 DEF StartEnds
<1>5. CASE PauseEnds
  BY <1>5 DEF PauseEnds
<1> QED BY <1>1, <1>2, <1>3, <1>4, <1>5 DEF AppLocks

(* The nested calls outside: Open and the destructor call Close. *)
LEMMA AppContinuesCall ==
  ASSUME TypeOK, CallInv, AppContinues
  PROVE  CallInv'
<1>0. DOMAIN pc = Thread
  BY DEF TypeOK
<1> USE <1>0, StackFacts DEF CallInv, flags, frame, Goto, Call, CloseLabel, StopLabel,
      DelLabel, Thread
<1>1. CASE OpenRefused
  BY <1>1, StackFacts, ReturnFacts DEF OpenRefused
<1>2. CASE OpenChecked
  BY <1>2 DEF OpenChecked
<1>3. CASE OpenFast
  BY <1>3, StackFacts DEF OpenFast
<1>4. CASE OpenCloses
  BY <1>4, StackFacts DEF OpenCloses
<1>5. CASE OpenClears
  BY <1>5 DEF OpenClears
<1>6. CASE CloseChecked
  BY <1>6, StackFacts, ReturnFacts DEF CloseChecked
<1>7. CASE CloseEnds
  BY <1>7, StackFacts, ReturnFacts DEF CloseEnds
<1>8. CASE StopChecked
  BY <1>8, StackFacts, ReturnFacts DEF StopChecked
<1>9. CASE SeekFlag("app")
  BY <1>9 DEF SeekFlag, SeekReturn
<1>10. CASE SeekWait("app")
  BY <1>10 DEF SeekWait, SeekReturn
<1>11. CASE DeleteAborts
  BY <1>11, StackFacts DEF DeleteAborts
<1>12. CASE DeleteUnregisters
  BY <1>12 DEF DeleteUnregisters
<1>13. CASE DeleteStops
  BY <1>13 DEF DeleteStops
<1>14. CASE DeleteEnds
  BY <1>14 DEF DeleteEnds
<1> QED BY <1>1, <1>2, <1>3, <1>4, <1>5, <1>6, <1>7, <1>8, <1>9, <1>10,
        <1>11, <1>12, <1>13, <1>14 DEF AppContinues

(* Nobody but the application changes where its call is. *)
LEMMA OthersCall ==
  ASSUME TypeOK, CallInv, Work \/ Message \/ (\E r \in Stream : ReachesEOS(r))
  PROVE  CallInv'
<1>1. CASE Work \/ Message
  BY <1>1, AppStays DEF CallInv
<1>2. CASE \E r \in Stream : ReachesEOS(r)
  BY <1>2 DEF CallInv, ReachesEOS, flags, frame
<1> QED BY <1>1, <1>2

(* The worker is in the handler of the task that runs. *)
LEMMA TaskStep ==
  ASSUME BaseInv, Next
  PROVE  TaskInv'
<1>0. DOMAIN pc = Thread /\ DataType
  BY TypeParts DEF BaseInv, TypeOK
<1> USE DEF BaseInv
<1>1. CASE AppCalls \/ AppLocks \/ AppContinues
  <2>1. m_pURL' = m_pURL \/ m_pURL' \in URL
    <3>1. CASE AppCalls
      BY <3>1 DEF AppCalls, Open, Close, Stop, Start, Pause, SetPos, SeekPosts, AddCache, Delete
    <3>2. CASE AppLocks
      BY <3>2 DEF AppLocks, OpenPosts, CloseStops, StopEnds, StartEnds, PauseEnds
    <3>3. CASE AppContinues
      BY <3>3 DEF AppContinues, OpenRefused, OpenChecked, OpenFast, OpenCloses, OpenClears,
        CloseChecked, CloseEnds, StopChecked, SeekFlag, SeekWait, DeleteAborts,
        DeleteUnregisters, DeleteStops, DeleteEnds, CallInv
    <3> QED BY <1>1, <3>1, <3>2, <3>3
  <2> QED BY <1>1, <2>1, AppOnly DEF TaskInv, Current
<1>2. CASE Work
  <2> USE <1>0 DEF TaskInv, Thread, Goto, TaskDone, queue, Current
  <2>1. CASE TaskBegins
    BY <2>1, BeginType DEF TaskBegins
  <2>2. CASE OpenCancelled \/ OpenFailed \/ OpenDone \/ SeekEnds \/ ReopenRefused \/ ReopenEnds
             \/ CheckIdle \/ CheckStalled \/ CheckPlays \/ CacheEnds
    BY <2>2 DEF OpenCancelled, OpenFailed, OpenDone, SeekEnds, ReopenRefused, ReopenEnds,
      CheckIdle, CheckStalled, CheckPlays, CacheEnds
  <2>3. CASE OpenBegins \/ OpenAborts \/ OpenFails \/ OpenSucceeds \/ OpenFlag
    BY <2>3 DEF OpenBegins, OpenAborts, OpenFails, OpenSucceeds, OpenFlag, Does
  <2>4. CASE ReopenBegins \/ ReopenAborts
    BY <2>4, <1>0 DEF ReopenBegins, ReopenAborts, Does, DataType
  <2>5. CASE SeekBegins \/ SeekLoopEnds("work") \/ CheckStatus \/ CacheBegins
    BY <2>5 DEF SeekBegins, SeekLoopEnds, CheckStatus, CacheBegins, Does
  <2> QED BY <1>2, <2>1, <2>2, <2>3, <2>4, <2>5 DEF Work
<1>3. CASE Message
  BY <1>3, WorkStays, AppStays DEF TaskInv, Current
<1>4. CASE (\E r \in Stream : ReachesEOS(r)) \/ Deleted
  BY <1>4 DEF TaskInv, Current, ReachesEOS, Deleted, vars, queue
<1> QED BY <1>1, <1>2, <1>3, <1>4 DEF Next

(* m_mtFunc is taken and given back where LockInv says. *)
LEMMA LockStep ==
  ASSUME BaseInv, LockInv, Next
  PROVE  LockInv'
<1>0. DOMAIN pc = Thread /\ Nil \notin Thread
  BY URLAssumption DEF BaseInv, TypeOK
<1> USE DEF BaseInv, LockInv
<1>1. CASE AppCalls
  BY <1>1, <1>0, AppOnly, StackFacts DEF AppCalls, Thread, Goto, frame, CallInv, Call,
     Open, Close, Stop, Start, Pause, SetPos, SeekPosts, AddCache, Delete, CloseLabel, StopLabel
<1>2. CASE AppLocks
  <2> USE <1>0 DEF Thread, Goto, frame, CallInv, CloseLabel, StopLabel, Free
  <2>1. CASE OpenPosts
    BY <2>1, StackFacts DEF OpenPosts
  <2>2. CASE CloseStops
    BY <2>2, AppLocksCall, AppOnly, StackFacts, PushFacts DEF CloseStops, AppLocks
  <2>3. CASE StopEnds
    BY <2>3, StackFacts, ReturnFacts DEF StopEnds
  <2>4. CASE StartEnds
    BY <2>4, StackFacts DEF StartEnds
  <2>5. CASE PauseEnds
    BY <2>5, StackFacts DEF PauseEnds
  <2> QED BY <1>2, <2>1, <2>2, <2>3, <2>4, <2>5 DEF AppLocks
<1>3. CASE AppContinues
  <2> USE <1>0, StackFacts DEF Thread, Goto, frame, CallInv, CloseLabel, StopLabel
  <2>1. CASE CloseEnds
    BY <2>1, ReturnFacts DEF CloseEnds
  <2>2. CASE OpenRefused \/ CloseChecked \/ StopChecked
    BY <2>2, ReturnFacts DEF OpenRefused, CloseChecked, StopChecked
  <2>3. CASE OpenChecked \/ OpenFast \/ OpenCloses \/ OpenClears
    BY <2>3 DEF OpenChecked, OpenFast, OpenCloses, OpenClears
  <2>4. CASE SeekFlag("app") \/ SeekWait("app") \/ DeleteAborts
             \/ DeleteUnregisters \/ DeleteStops \/ DeleteEnds
    BY <2>4 DEF SeekFlag, SeekWait, SeekReturn, DeleteAborts, DeleteUnregisters,
       DeleteStops, DeleteEnds
  <2> QED BY <1>3, <2>1, <2>2, <2>3, <2>4 DEF AppContinues
<1>4. CASE Work
  BY <1>0, <1>4, AppStays DEF Work, Thread, Goto, TaskDone, TaskBegins, Does,
    OpenCancelled, OpenBegins, OpenAborts, OpenFails, OpenSucceeds, OpenFailed, OpenFlag,
    OpenDone, SeekBegins, SeekLoopEnds, SeekEnds, ReopenRefused, ReopenBegins, ReopenAborts,
    ReopenEnds, CheckStatus, CheckIdle, CheckStalled, CheckPlays, CacheBegins, CacheEnds
<1>5. CASE Message
  BY <1>0, <1>5, AppStays, WorkStays DEF Message, Thread, Goto, Receive, TestFlags, NotFinished,
    Finish, Complete, Received, SeekLoopEnds, SeekFlag, SeekWait, SeekReturn, SeekPosts
<1>6. CASE (\E r \in Stream : ReachesEOS(r)) \/ Deleted
  BY <1>6 DEF ReachesEOS, Deleted, vars, frame
<1> QED BY <1>1, <1>2, <1>3, <1>4, <1>5, <1>6 DEF Next

(* What the destructor has stopped stays stopped. *)
LEMMA DeleteStep ==
  ASSUME BaseInv, DeleteInv, Next
  PROVE  DeleteInv'
<1>0. DOMAIN pc = Thread
  BY DEF BaseInv, TypeOK
<1> USE DEF BaseInv, DeleteInv
<1>1. CASE AppCalls \/ AppLocks
  <2>1. pc'["app"] \notin {"del.thread", "del.wait", "deleted"}
    BY <1>1, <1>0, StackFacts, ReturnFacts DEF Goto, Thread, AppCalls, AppLocks, Call,
       Open, Close, Stop, Start, Pause, SetPos,
     SeekPosts, AddCache, Delete, OpenPosts, CloseStops, StopEnds, StartEnds, PauseEnds, CallInv
  <2> QED BY <2>1
<1>2. CASE AppContinues
  <2> USE <1>0, StackFacts DEF Thread, Goto, mail, queue
  <2>1. CASE OpenRefused \/ CloseChecked \/ StopChecked \/ CloseEnds
    BY <2>1, ReturnFacts DEF CallInv, OpenRefused, CloseChecked, StopChecked, CloseEnds
  <2>2. CASE OpenChecked \/ OpenFast \/ OpenCloses \/ OpenClears
    BY <2>2 DEF OpenChecked, OpenFast, OpenCloses, OpenClears
  <2>3. CASE SeekFlag("app") \/ SeekWait("app") \/ DeleteAborts
             \/ DeleteUnregisters \/ DeleteStops \/ DeleteEnds
    BY <2>3 DEF SeekFlag, SeekWait, SeekReturn, DeleteAborts, DeleteUnregisters,
       NoReceiver, DeleteStops, DeleteEnds
  <2> QED BY <1>2, <2>1, <2>2, <2>3 DEF AppContinues
<1>4. CASE Work
  <2>1. /\ pc'["msg"] = pc["msg"]
        /\ running' \in {running, <<>>} \/ pc["app"] \notin {"del.wait", "deleted"}
    BY <1>0, <1>4 DEF Work, Thread, Goto, TaskDone, TaskBegins, queue,
      OpenCancelled, OpenBegins, OpenAborts, OpenFails, OpenSucceeds, OpenFailed, OpenFlag,
      OpenDone, SeekBegins, SeekLoopEnds, SeekEnds, ReopenRefused, ReopenBegins, ReopenAborts,
      ReopenEnds, CheckStatus, CheckIdle, CheckStalled, CheckPlays, CacheBegins, CacheEnds
  <2> QED BY <1>4, <2>1, AppStays
<1>5. CASE Message
  BY <1>0, <1>5, AppStays, WorkStays DEF Message, Thread, Goto, Receive, HasMessage,
     TestFlags, NotFinished,
    Finish, Complete, Received, SeekLoopEnds, SeekFlag, SeekWait, SeekReturn, SeekPosts
<1>6. CASE (\E r \in Stream : ReachesEOS(r)) \/ Deleted
  BY <1>6 DEF ReachesEOS, Deleted, vars, mail, queue
<1> QED BY <1>1, <1>2, <1>4, <1>5, <1>6 DEF Next

-----------------------------------------------------------------------------
(* The queue and the open that is pending *)

(* A step that posts other tasks, or none, leaves the waiting opens alone.  *)
KeepsOpens ==
  /\ \A i \in 1..Len(waiting') :
       IsOpen(waiting'[i]) => i \in 1..Len(waiting) /\ waiting'[i] = waiting[i]
  /\ OpenWaits => OpenWaits'

(* Posting a task that is no open. *)
LEMMA PostKeeps ==
  ASSUME DataType, NEW t \in TQ!Task, ~IsOpen(t), waiting' = Append(waiting, t)
  PROVE  KeepsOpens
<1>1. waiting \in Seq(TQ!Task) /\ Len(waiting) \in Nat
  BY DEF DataType
<1>2. /\ Len(waiting') = Len(waiting) + 1 /\ waiting'[Len(waiting) + 1] = t
      /\ \A i \in 1..Len(waiting) : waiting'[i] = waiting[i]
  BY <1>1, AppendProperties
<1> QED BY <1>1, <1>2 DEF KeepsOpens, OpenWaits, IsOpen

(* Posting nothing. *)
LEMMA NoPostKeeps ==
  ASSUME UNCHANGED waiting
  PROVE  KeepsOpens
BY DEF KeepsOpens, OpenWaits, IsOpen

(* The tasks that are no open. *)
LEMMA NotOpenJobs ==
  /\ ~IsOpen(CheckJob) /\ ~IsOpen(ReopenJob)
  /\ \A w \in {"seek", "cache"}, d \in BOOLEAN : ~IsOpen(Task(Job(w, Nil, FALSE), d))
BY DEF IsOpen, CheckJob, ReopenJob, Task, Job

(* Posting a reopen and the next check. *)
LEMMA StalledKeeps ==
  ASSUME DataType, waiting' = waiting \o <<ReopenJob, CheckJob>>
  PROVE  KeepsOpens
<1>1. waiting \in Seq(TQ!Task) /\ Len(waiting) \in Nat
  BY DEF DataType
<1> DEFINE two == <<ReopenJob, CheckJob>>
<1>2. two \in Seq(TQ!Task) /\ Len(two) = 2 /\ two[1] = ReopenJob /\ two[2] = CheckJob
  BY CheckJobType
<1> HIDE DEF two
<1>3. /\ Len(waiting') = Len(waiting) + 2
      /\ \A i \in 1..(Len(waiting) + 2) :
           waiting'[i] = IF i <= Len(waiting) THEN waiting[i] ELSE two[i - Len(waiting)]
  BY <1>1, <1>2, ConcatProperties DEF two
<1>4. \A i \in 1..(Len(waiting) + 2) : i > Len(waiting) => ~IsOpen(waiting'[i])
  <2> SUFFICES ASSUME NEW i \in 1..(Len(waiting) + 2), i > Len(waiting) PROVE ~IsOpen(waiting'[i])
    OBVIOUS
  <2>1. waiting'[i] = two[i - Len(waiting)] /\ (i - Len(waiting) = 1 \/ i - Len(waiting) = 2)
    BY <1>1, <1>3
  <2> QED BY <2>1, <1>2, NotOpenJobs
<1>5. \A i \in 1..Len(waiting) : waiting'[i] = waiting[i] /\ i \in 1..Len(waiting')
  BY <1>1, <1>3
<1>6. \A i \in 1..Len(waiting') :
       IsOpen(waiting'[i]) => i \in 1..Len(waiting) /\ waiting'[i] = waiting[i]
  BY <1>1, <1>3, <1>4, <1>5
<1>7. OpenWaits => \E i \in 1..Len(waiting') : IsOpen(waiting'[i])
  BY <1>5 DEF OpenWaits
<1> QED BY <1>6, <1>7 DEF KeepsOpens, OpenWaits

(* What a step does to the queue. *)
QueueStep ==
  \/ KeepsOpens /\ running' \in {running, <<>>}
  \/ TaskBegins \/ OpenFast \/ OpenPosts \/ DeleteEnds

(* Every step does one of these. *)
LEMMA QueueSteps ==
  ASSUME BaseInv, Next
  PROVE  QueueStep
<1>0. DataType
  BY TypeParts DEF BaseInv
<1> USE <1>0
<1>1. CASE SetPos \/ Complete \/ AddCache
  <2>1. UNCHANGED running
    BY <1>1 DEF SetPos, Complete, SeekPosts, AddCache, queue
  <2>2. \/ UNCHANGED waiting \/ Post(Job("seek", Nil, FALSE), FALSE)
        \/ Post(Job("cache", Nil, FALSE), FALSE)
    BY <1>1 DEF SetPos, Complete, SeekPosts, AddCache, queue
  <2>3. KeepsOpens
    BY <2>2, PostKeeps, NoPostKeeps, NotOpenJobs, JobType, TaskType DEF Post
  <2> QED BY <2>1, <2>3 DEF QueueStep
<1>2. CASE CheckIdle \/ CheckPlays \/ CheckStalled
  <2>1. running' = <<>> /\ (waiting' = Append(waiting, CheckJob)
                            \/ waiting' = waiting \o <<ReopenJob, CheckJob>>)
    BY <1>2 DEF CheckIdle, CheckPlays, CheckStalled, TaskDone
  <2>2. KeepsOpens
    BY <2>1, PostKeeps, StalledKeeps, NotOpenJobs, CheckJobType
  <2> QED BY <2>1, <2>2 DEF QueueStep
<1>3. CASE OpenCancelled \/ OpenFailed \/ OpenDone \/ SeekEnds \/ ReopenRefused
           \/ ReopenEnds \/ CacheEnds
  <2>1. running' = <<>> /\ UNCHANGED waiting
    BY <1>3 DEF OpenCancelled, OpenFailed, OpenDone, SeekEnds, ReopenRefused, ReopenEnds,
       CacheEnds, TaskDone
  <2> QED BY <2>1, NoPostKeeps DEF QueueStep
<1>4. ASSUME ~(SetPos \/ Complete \/ AddCache \/ CheckIdle \/ CheckPlays \/ CheckStalled),
             ~(OpenCancelled \/ OpenFailed \/ OpenDone \/ SeekEnds \/ ReopenRefused \/ ReopenEnds
               \/ CacheEnds),
             ~(TaskBegins \/ OpenFast \/ OpenPosts \/ DeleteEnds)
      PROVE  UNCHANGED queue
  <2>1. CASE AppCalls \/ AppLocks
    BY <2>1, <1>4 DEF AppCalls, AppLocks, Open, Close, Stop, Start, Pause, Delete,
       CloseStops, StopEnds, StartEnds, PauseEnds
  <2>2. CASE AppContinues
    BY <2>2, <1>4 DEF AppContinues, OpenRefused, OpenChecked, OpenCloses, OpenClears,
        CloseChecked, CloseEnds, StopChecked, SeekFlag, SeekWait, DeleteAborts,
        DeleteUnregisters, DeleteStops
  <2>3. CASE Work
    BY <2>3, <1>4 DEF Work, OpenBegins, OpenAborts, OpenFails, OpenSucceeds, OpenFlag,
       SeekBegins, SeekLoopEnds,
        ReopenBegins, ReopenAborts, CheckStatus, CacheBegins
  <2>4. CASE Message
    BY <2>4, <1>4 DEF Message, Receive, TestFlags, NotFinished, Finish, Received,
       SeekLoopEnds, SeekFlag, SeekWait
  <2>5. CASE (\E r \in Stream : ReachesEOS(r)) \/ Deleted
    BY <2>5 DEF ReachesEOS, Deleted, vars
  <2> QED BY <2>1, <2>2, <2>3, <2>4, <2>5 DEF Next
<1> QED BY <1>1, <1>2, <1>3, <1>4, NoPostKeeps DEF QueueStep, queue

(* What is left in the queue when a task begins. *)
LEMMA BeginFacts ==
  ASSUME DataType, TaskBegins
  PROVE  \E i \in 1..Len(waiting) :
           /\ running = <<>> /\ running' = <<waiting[i]>> /\ waiting[i] \in TQ!Task
           /\ Len(waiting) \in Nat /\ Len(waiting') = Len(waiting) - 1
           /\ \A k \in 1..Len(waiting') : waiting'[k] = waiting[IF k < i THEN k ELSE k + 1]
<1>1. PICK i \in 1..Len(waiting) : running' = <<waiting[i]>> /\ waiting' = RemoveAt(waiting, i)
                                   /\ waiting[i] \in TQ!Task
  BY BeginType DEF TaskBegins
<1>2. running = <<>> /\ waiting \in Seq(TQ!Task)
  BY DEF TaskBegins, TQ!Begin, DataType
<1>3. Len(waiting) \in Nat /\ Len(waiting') = Len(waiting) - 1
      /\ \A k \in 1..(Len(waiting) - 1) :
           waiting'[k] = IF k < i THEN waiting[k] ELSE waiting[k + 1]
  <2>1. /\ Len(RemoveAt(waiting, i)) = Len(waiting) - 1
        /\ \A k \in 1..(Len(waiting) - 1) :
             RemoveAt(waiting, i)[k] = IF k < i THEN waiting[k] ELSE waiting[k + 1]
    BY <1>2, RemoveAtProperties
  <2> QED BY <1>1, <1>2, <2>1
<1>4. \A k \in 1..Len(waiting') : waiting'[k] = waiting[IF k < i THEN k ELSE k + 1]
  BY <1>3
<1> QED BY <1>1, <1>2, <1>3, <1>4

(* What is in the queue when a task was posted. *)
LEMMA AppendOpen ==
  ASSUME DataType, NEW t \in TQ!Task, waiting' = Append(waiting, t)
  PROVE  /\ Len(waiting) \in Nat /\ Len(waiting') = Len(waiting) + 1
         /\ waiting'[Len(waiting) + 1] = t
         /\ \A i \in 1..Len(waiting) : waiting'[i] = waiting[i]
BY AppendProperties DEF DataType

(* How a step changes m_bOpening. *)
LEMMA OpeningSteps ==
  ASSUME BaseInv, Next
  PROVE  \/ UNCHANGED m_bOpening /\ (m_bExit => m_bExit')
         \/ OpenFast \/ OpenPosts \/ OpenCancelled \/ OpenFailed \/ OpenFlag \/ Delete
<1>1. CASE AppCalls \/ AppLocks
    BY <1>1 DEF AppCalls, AppLocks, Open, Close, Stop, Start, Pause, Delete, CloseStops,
       StopEnds, StartEnds, PauseEnds,
       SetPos, AddCache, SeekPosts, flags
<1>2. CASE AppContinues
    BY <1>2 DEF AppContinues, OpenRefused, OpenChecked, OpenCloses, OpenClears,
        CloseChecked, CloseEnds, StopChecked, SeekFlag, SeekWait, DeleteAborts,
        DeleteUnregisters, DeleteStops, DeleteEnds, flags
<1>3. CASE Work
    BY <1>3 DEF Work, TaskBegins, OpenBegins, OpenAborts, OpenFails, OpenSucceeds,
       OpenDone, SeekBegins, SeekLoopEnds,
        SeekEnds, ReopenRefused, ReopenBegins, ReopenAborts, ReopenEnds, CheckStatus,
        CheckIdle, CheckStalled, CheckPlays, CacheBegins, CacheEnds, flags
<1>4. CASE Message
    BY <1>4 DEF Message, Receive, TestFlags, NotFinished, Finish, Complete, Received,
       SeekLoopEnds, SeekFlag, SeekWait, SeekPosts, flags
<1>5. CASE (\E r \in Stream : ReachesEOS(r)) \/ Deleted
    BY <1>5 DEF ReachesEOS, Deleted, vars, flags
<1> QED BY <1>1, <1>2, <1>3, <1>4, <1>5 DEF Next

(* The handler of an open is over when its task is. *)
LEMMA RunsBack ==
  ASSUME BaseInv, Next, running' \in {running, <<>>}
  PROVE  OpenRuns' => OpenRuns
<1>1. pc["work"] = "done" /\ running' = running /\ running # <<>> => pc'["work"] = "done"
  <2>0. DOMAIN pc = Thread
    BY DEF BaseInv, TypeOK
  <2>1. CASE AppCalls \/ AppLocks \/ AppContinues
    BY <2>1, AppOnly DEF BaseInv
  <2>2. CASE Work
    BY <2>2, <2>0 DEF Work, Thread, Goto, TaskDone, Does, TaskBegins, TQ!Begin,
      OpenCancelled, OpenBegins, OpenAborts, OpenFails, OpenSucceeds, OpenFailed, OpenFlag,
      OpenDone, SeekBegins, SeekLoopEnds, SeekEnds, ReopenRefused, ReopenBegins, ReopenAborts,
      ReopenEnds, CheckStatus, CheckIdle, CheckStalled, CheckPlays, CacheBegins, CacheEnds
  <2>3. CASE Message
    BY <2>3, WorkStays DEF BaseInv
  <2>4. CASE (\E r \in Stream : ReachesEOS(r)) \/ Deleted
    BY <2>4 DEF ReachesEOS, Deleted, vars
  <2> QED BY <2>1, <2>2, <2>3, <2>4 DEF Next
<1>2. \A t \in TQ!Task : <<t>> # <<>>
  OBVIOUS
<1> QED BY <1>1, <1>2 DEF OpenRuns

(* While an open is pending the application is not past the checks.         *)
MayOpen ==
  \/ pc["app"] \in {"idle", "open.check", "start.lock", "pause.lock", "seek.flag", "seek.wait"}
  \/ pc["app"] \in {"close.check", "stop.check", "stop.lock"} /\ stack = <<>>

(* The checks of Open, Close and Stop hold back who waits for an open. *)
LEMMA MayOpenStep ==
  ASSUME BaseInv, Next, m_bOpening, m_bOpening', MayOpen
  PROVE  MayOpen'
<1>0. DOMAIN pc = Thread
  BY DEF BaseInv, TypeOK
<1> USE DEF MayOpen
<1>1. CASE AppCalls \/ AppLocks
  BY <1>1, <1>0, StackFacts, ReturnFacts DEF AppCalls, AppLocks, BaseInv, CallInv,
     CloseLabel, StopLabel, frame, Open, Close, Stop, Start,
     Pause, Delete, OpenPosts, CloseStops, StopEnds, StartEnds, PauseEnds, Thread, Goto,
       SetPos, AddCache, SeekPosts, Call
<1>2. CASE AppContinues
  <2> USE <1>0, StackFacts DEF BaseInv, CallInv, CloseLabel, StopLabel, Thread, Goto,
        frame, CheckFails
  <2>1. CASE OpenRefused \/ CloseChecked \/ StopChecked \/ CloseEnds
    BY <2>1, ReturnFacts DEF OpenRefused, CloseChecked, StopChecked, CloseEnds
  <2>2. CASE OpenChecked \/ OpenFast \/ OpenCloses \/ OpenClears
    BY <2>2 DEF OpenChecked, OpenFast, OpenCloses, OpenClears
  <2>3. CASE SeekFlag("app") \/ SeekWait("app") \/ DeleteAborts
             \/ DeleteUnregisters \/ DeleteStops \/ DeleteEnds
    BY <2>3 DEF SeekFlag, SeekWait, SeekReturn, DeleteAborts, DeleteUnregisters,
       DeleteStops, DeleteEnds
  <2> QED BY <1>2, <2>1, <2>2, <2>3 DEF AppContinues
<1>3. CASE Work \/ Message
  BY <1>3, AppStays DEF BaseInv
<1>4. CASE (\E r \in Stream : ReachesEOS(r)) \/ Deleted
  BY <1>4 DEF ReachesEOS, Deleted, vars, frame
<1> QED BY <1>1, <1>2, <1>3, <1>4 DEF Next

(* At most one open is pending, and m_bOpening tells. *)
LEMMA PendingStep ==
  ASSUME BaseInv, PendingInv, Next
  PROVE  PendingInv'
<1>0. DataType
  BY TypeParts DEF BaseInv
<1>a. (OpenWaits \/ OpenRuns) /\ ~m_bExit => m_bOpening
  BY DEF PendingInv
<1>b. m_bOpening => MayOpen
  BY DEF PendingInv, MayOpen
<1>1. CASE KeepsOpens /\ running' \in {running, <<>>}
  <2>1. OpenRuns' => OpenRuns
    BY <1>1, RunsBack
  <2>2. OpenWaits' => OpenWaits
    BY <1>1 DEF KeepsOpens, OpenWaits
  <2>3. \A i, k \in 1..Len(waiting') : IsOpen(waiting'[i]) /\ IsOpen(waiting'[k]) => i = k
    BY <1>1 DEF KeepsOpens, PendingInv
  <2>4. ~(OpenWaits' /\ OpenRuns')
    BY <2>1, <2>2 DEF PendingInv
  <2>5. ASSUME OpenWaits' \/ OpenRuns', ~m_bExit' PROVE m_bOpening'
    <3>1. CASE OpenFast \/ OpenPosts
      BY <3>1 DEF OpenFast, OpenPosts
    <3>2. CASE OpenCancelled \/ OpenFailed \/ OpenFlag
      <4>1. OpenRuns
        BY <3>2 DEF OpenCancelled, OpenFailed, OpenFlag, Does, BaseInv, TaskInv,
           OpenRuns, IsOpen, Current
      <4>2. ~OpenWaits'
        BY <4>1, <2>2 DEF PendingInv
      <4>3. ~OpenRuns'
        <5>1. CASE OpenCancelled \/ OpenFailed
          <6>1. running' = <<>>
            BY <5>1 DEF OpenCancelled, OpenFailed, TaskDone
          <6>2. \A t \in TQ!Task : <<t>> # <<>>
            OBVIOUS
          <6> QED BY <6>1, <6>2 DEF OpenRuns
        <5>2. CASE OpenFlag
          BY <5>2 DEF OpenFlag, OpenRuns, Goto, BaseInv, TypeOK, Thread
        <5> QED BY <3>2, <5>1, <5>2
      <4> QED BY <4>2, <4>3, <2>5
    <3>3. CASE Delete
      BY <3>3, <2>5 DEF Delete
    <3>4. CASE UNCHANGED m_bOpening /\ (m_bExit => m_bExit')
      BY <3>4, <2>1, <2>2, <2>5, <1>a
    <3> QED BY <3>1, <3>2, <3>3, <3>4, OpeningSteps
  <2>6. m_bOpening' => MayOpen'
    <3>1. CASE m_bOpening
      BY <3>1, <1>b, MayOpenStep
    <3>2. CASE OpenFast \/ OpenPosts
      BY <3>2 DEF OpenFast, OpenPosts, MayOpen, BaseInv, TypeOK, Thread, Goto
    <3>3. CASE OpenCancelled \/ OpenFailed \/ OpenFlag \/ Delete
      BY <3>3 DEF OpenCancelled, OpenFailed, OpenFlag, Delete
    <3> QED BY <3>1, <3>2, <3>3, OpeningSteps
  <2> QED BY <2>3, <2>4, <2>5, <2>6 DEF PendingInv, MayOpen
<1>2. CASE TaskBegins
  <2>1. PICK i \in 1..Len(waiting) :
           /\ running = <<>> /\ running' = <<waiting[i]>> /\ waiting[i] \in TQ!Task
           /\ Len(waiting) \in Nat /\ Len(waiting') = Len(waiting) - 1
           /\ \A k \in 1..Len(waiting') : waiting'[k] = waiting[IF k < i THEN k ELSE k + 1]
    BY <1>0, <1>2, BeginFacts
  <2> DEFINE was(k) == IF k < i THEN k ELSE k + 1
  <2>2. \A k \in 1..Len(waiting') :
           was(k) \in 1..Len(waiting) /\ was(k) # i /\ waiting'[k] = waiting[was(k)]
    BY <2>1
  <2>3. \A k, l \in 1..Len(waiting') : was(k) = was(l) => k = l
    BY <2>1
  <2>4. /\ m_bOpening' = m_bOpening /\ m_bExit' = m_bExit
        /\ pc'["app"] = pc["app"] /\ stack' = stack
    BY <1>2 DEF TaskBegins, flags, frame, Goto, BaseInv, TypeOK, Thread
  <2> HIDE DEF was
  <2>5. \A k, l \in 1..Len(waiting') : IsOpen(waiting'[k]) /\ IsOpen(waiting'[l]) => k = l
    BY <2>2, <2>3 DEF PendingInv
  <2>6. OpenRuns' => IsOpen(waiting[i])
    BY <2>1 DEF OpenRuns
  <2>7. ~(OpenWaits' /\ OpenRuns')
    BY <2>2, <2>6 DEF PendingInv, OpenWaits
  <2>8. OpenWaits' \/ OpenRuns' => OpenWaits
    BY <2>2, <2>6 DEF OpenWaits
  <2> QED BY <2>4, <2>5, <2>7, <2>8 DEF PendingInv
<1>3. CASE OpenFast \/ OpenPosts
  <2>1. ~m_bOpening /\ ~m_bExit
    BY <1>3, <1>b, StackFacts DEF OpenFast, OpenPosts, MayOpen, BaseInv, CallInv,
       DelLabel, CloseLabel, StopLabel
  <2>2. ~OpenWaits /\ ~OpenRuns
    BY <2>1, <1>a
  <2>3. PICK t \in TQ!Task : waiting' = Append(waiting, t)
    <3>1. arg.url \in URL
      BY <1>3 DEF OpenFast, OpenPosts, BaseInv, CallInv
    <3> QED BY <1>3, <3>1, JobType, TaskType DEF OpenFast, OpenPosts, Post
  <2>4. \A i \in 1..Len(waiting') : IsOpen(waiting'[i]) => i = Len(waiting')
    BY <1>0, <2>2, <2>3, AppendOpen DEF OpenWaits
  <2>5. ~OpenRuns' /\ m_bOpening' /\ pc'["app"] = "idle"
    BY <1>3, <2>2 DEF OpenFast, OpenPosts, OpenRuns, BaseInv, TypeOK, Thread, Goto
  <2> QED BY <2>4, <2>5 DEF PendingInv
<1>4. CASE DeleteEnds
  <2>1. waiting' = <<>> /\ running' = <<>> /\ m_bOpening' = m_bOpening
    BY <1>4 DEF DeleteEnds, flags
  <2>2. ~OpenWaits' /\ ~OpenRuns'
    BY <2>1 DEF OpenWaits, OpenRuns
  <2>3. ~m_bOpening
    BY <1>4, <1>b DEF DeleteEnds, MayOpen
  <2> QED BY <2>1, <2>2, <2>3 DEF PendingInv, OpenWaits
<1> QED BY <1>1, <1>2, <1>3, <1>4, QueueSteps DEF QueueStep

-----------------------------------------------------------------------------
(* The abort request *)
LEMMA RestType ==
  ASSUME BaseInv, (\E r \in Stream : ReachesEOS(r)) \/ Deleted
  PROVE  TypeOK'
<1>1. CASE Deleted
  BY <1>1 DEF Deleted, vars, flags, media, queue, mail, frame, history, BaseInv, TypeOK
<1>2. ASSUME NEW r \in Stream, ReachesEOS(r) PROVE TypeOK'
  <2>1. eos' \in [Stream -> BOOLEAN]
    BY <1>2 DEF ReachesEOS, BaseInv, TypeOK
  <2>2. msgs' \in 0..MaxMsg
    BY <1>2, BoundAssumption DEF ReachesEOS, BaseInv, TypeOK
  <2> QED BY <1>2, <2>1, <2>2 DEF ReachesEOS, flags, queue, frame, history, BaseInv, TypeOK
<1> QED BY <1>1, <1>2

(* The steps that make or withdraw an abort request, and those after which  *)
(* the application is where it may have made one.                           *)
LEMMA AbortStep ==
  ASSUME BaseInv, AbortInv, Next
  PROVE  AbortInv'
<1>0. DOMAIN pc = Thread
  BY DEF BaseInv, TypeOK
<1> USE DEF BaseInv, AbortInv
<1>1. CASE AppCalls
  <2>1. pc'["work"] = pc["work"]
    BY <1>1, AppOnly
  <2> QED BY <1>1, <2>1, <1>0 DEF AppCalls, CloseLabel, StopLabel, DelLabel, Thread, Goto,
        flags, history,
      Call, Open, Close, Stop, Start, Pause, SetPos, SeekPosts, AddCache, Delete
<1>2. CASE AppLocks
  <2>1. pc'["work"] = pc["work"]
    BY <1>2, AppOnly
  <2> QED BY <1>2, <2>1, <1>0 DEF AppLocks, CloseLabel, StopLabel, DelLabel, Thread, Goto,
        flags, history,
      OpenPosts, CloseStops, StopEnds, StartEnds, PauseEnds
<1>3. CASE AppContinues
  <2>0. pc'["work"] = pc["work"]
    BY <1>3, AppOnly
  <2> USE <1>0, <2>0, StackFacts DEF CallInv, CloseLabel, StopLabel, DelLabel, Thread,
        Goto, flags, frame, history
  <2>1. CASE OpenRefused \/ CloseChecked \/ StopChecked \/ CloseEnds
    BY <2>1, ReturnFacts DEF OpenRefused, CloseChecked, StopChecked, CloseEnds
  <2>2. CASE OpenChecked \/ OpenFast \/ OpenCloses \/ OpenClears
    BY <2>2 DEF OpenChecked, OpenFast, OpenCloses, OpenClears
  <2>3. CASE SeekFlag("app") \/ SeekWait("app") \/ DeleteAborts
             \/ DeleteUnregisters \/ DeleteStops \/ DeleteEnds
    BY <2>3 DEF SeekFlag, SeekWait, SeekReturn, DeleteAborts, DeleteUnregisters,
       DeleteStops, DeleteEnds
  <2> QED BY <1>3, <2>1, <2>2, <2>3 DEF AppContinues
<1>4. CASE Work
  <2>1. pc'["app"] = pc["app"] /\ failed' = failed
    BY <1>4, AppStays DEF Work, history, TaskBegins,
      OpenCancelled, OpenBegins, OpenAborts, OpenFails, OpenSucceeds, OpenFailed, OpenFlag,
      OpenDone, SeekBegins, SeekLoopEnds, SeekEnds, ReopenRefused, ReopenBegins, ReopenAborts,
      ReopenEnds, CheckStatus, CheckIdle, CheckStalled, CheckPlays, CacheBegins, CacheEnds
  <2> QED BY <1>0, <1>4, <2>1 DEF Work, Thread, Goto, TaskDone, flags, Does, TaskBegins,
        SourceCloses, SourceClears,
      OpenCancelled, OpenBegins, OpenAborts, OpenFails, OpenSucceeds, OpenFailed, OpenFlag,
      OpenDone, SeekBegins, SeekLoopEnds, SeekEnds, ReopenRefused, ReopenBegins, ReopenAborts,
      ReopenEnds, CheckStatus, CheckIdle, CheckStalled, CheckPlays, CacheBegins, CacheEnds
<1>5. CASE Message
  <2>1. pc'["app"] = pc["app"] /\ pc'["work"] = pc["work"]
    BY <1>5, AppStays, WorkStays
  <2> QED BY <1>5, <2>1 DEF Message, flags, history, Receive, TestFlags, NotFinished,
      Finish, Complete, Received, SeekLoopEnds, SeekFlag, SeekWait, SeekPosts
<1>6. CASE (\E r \in Stream : ReachesEOS(r)) \/ Deleted
  BY <1>6 DEF ReachesEOS, Deleted, vars, flags, history
<1> QED BY <1>1, <1>2, <1>3, <1>4, <1>5, <1>6 DEF Next

-----------------------------------------------------------------------------
(* The renderers *)

(* How a step changes the renderers there are. *)
LEMMA ExistingSteps ==
  ASSUME BaseInv, Next
  PROVE  \/ Existing' = Existing \/ (CloseEnds /\ Existing' = {})
         \/ (OpenSucceeds /\ ~Current.same)
<1>0. /\ Existing' \subseteq Stream
      /\ \A s \in {"run", "pause", "stop"} : SetRnd(s) => Existing' = Existing
      /\ (\A r \in Stream : rnd'[r] = "none") => Existing' = {}
      /\ UNCHANGED rnd => Existing' = Existing
  BY DEF Existing, SetRnd
<1>1. \A p \in BOOLEAN : SeekRenderers(p) => Existing' = Existing
  BY <1>0 DEF SeekRenderers
<1>2. CASE StopEnds \/ StartEnds \/ PauseEnds
  BY <1>2, <1>0 DEF StopEnds, StartEnds, PauseEnds
<1>3. CASE CloseEnds
  BY <1>3, <1>0 DEF CloseEnds
<1>4. CASE OpenDone \/ SeekBegins \/ Finish
  BY <1>4, <1>0, <1>1 DEF OpenDone, SeekBegins, Finish
<1>5. CASE OpenSucceeds
  BY <1>5, <1>0 DEF OpenSucceeds
<1>6. ASSUME ~(StopEnds \/ StartEnds \/ PauseEnds \/ CloseEnds \/ OpenDone \/ SeekBegins),
             ~(Finish \/ OpenSucceeds)
      PROVE  UNCHANGED rnd
  <2>1. CASE AppCalls \/ AppLocks
    BY <2>1, <1>6 DEF AppCalls, AppLocks, Open, Close, Stop, Start, Pause, Delete,
       OpenPosts, CloseStops, SetPos, AddCache, SeekPosts, media
  <2>2. CASE AppContinues
    BY <2>2, <1>6 DEF AppContinues, OpenRefused, OpenChecked, OpenFast, OpenCloses,
       OpenClears, CloseChecked, StopChecked, SeekFlag, SeekWait, DeleteAborts,
       DeleteUnregisters, DeleteStops, DeleteEnds, media
  <2>3. CASE Work
    BY <2>3, <1>6 DEF Work, TaskBegins, OpenCancelled, OpenBegins, OpenAborts, OpenFails,
       OpenFailed, OpenFlag, SeekLoopEnds, SeekEnds, ReopenRefused, ReopenBegins,
       ReopenAborts, ReopenEnds, CheckStatus, CheckIdle, CheckStalled, CheckPlays,
       CacheBegins, CacheEnds, media
  <2>4. CASE Message
    BY <2>4, <1>6 DEF Message, Receive, TestFlags, NotFinished, Complete, Received,
       SeekLoopEnds, SeekFlag, SeekWait, SeekPosts, media
  <2>5. CASE (\E r \in Stream : ReachesEOS(r)) \/ Deleted
    BY <2>5 DEF ReachesEOS, Deleted, vars, media
  <2> QED BY <2>1, <2>2, <2>3, <2>4, <2>5 DEF Next
<1> QED BY <1>0, <1>2, <1>3, <1>4, <1>5, <1>6

(* Only the destructor releases the source object, and it ends there. *)
LEMMA SourceSteps ==
  ASSUME BaseInv, Next
  PROVE  /\ pc["app"] = "deleted" => pc'["app"] = "deleted"
         /\ m_pBoxSource' = "null" => m_pBoxSource = "null" \/ pc'["app"] = "deleted"
<1>0. DOMAIN pc = Thread /\ "null" \notin URL
  BY URLAssumption DEF BaseInv, TypeOK
<1> USE DEF BaseInv
<1>1. CASE AppCalls \/ AppLocks
  BY <1>1, <1>0 DEF AppCalls, AppLocks, Open, Close, Stop, Start, Pause, Delete, Call,
     OpenPosts, CloseStops, StopEnds, StartEnds, PauseEnds, SetPos, AddCache, SeekPosts, media
<1>2. CASE AppContinues
  BY <1>2, <1>0 DEF AppContinues, OpenRefused, OpenChecked, OpenFast, OpenCloses,
     OpenClears, CloseChecked, CloseEnds, StopChecked, SeekFlag, SeekWait, DeleteAborts,
     DeleteUnregisters, DeleteStops, DeleteEnds, media, Goto, Thread
<1>3. CASE Work
  <2>1. pc'["app"] = pc["app"]
    BY <1>3, AppStays
  <2>2. CASE OpenFails \/ OpenSucceeds
    <3>1. Current.what = "open" /\ Current.url \in URL
      BY <2>2, CurrentType DEF OpenFails, OpenSucceeds, TaskInv
    <3> QED BY <2>2, <2>1, <3>1, <1>0 DEF OpenFails, OpenSucceeds
  <2>3. CASE ReopenEnds
    BY <2>3, <2>1, <1>0 DEF ReopenEnds, TaskInv
  <2>4. CASE ~(OpenFails \/ OpenSucceeds \/ ReopenEnds)
    BY <1>3, <2>1, <2>4 DEF Work, TaskBegins, OpenCancelled, OpenBegins, OpenAborts,
       OpenFailed, OpenFlag, OpenDone, SeekBegins, SeekLoopEnds, SeekEnds, ReopenRefused,
       ReopenBegins, ReopenAborts, CheckStatus, CheckIdle, CheckStalled, CheckPlays,
       CacheBegins, CacheEnds, media, SourceCloses
  <2> QED BY <2>2, <2>3, <2>4
<1>4. CASE Message
  <2>1. pc'["app"] = pc["app"]
    BY <1>4, AppStays
  <2> QED BY <1>4, <2>1 DEF Message, Receive, TestFlags, NotFinished, Finish, Complete,
     Received, SeekLoopEnds, SeekFlag, SeekWait, SeekPosts, media
<1>5. CASE (\E r \in Stream : ReachesEOS(r)) \/ Deleted
  BY <1>5 DEF ReachesEOS, Deleted, vars, media
<1> QED BY <1>1, <1>2, <1>3, <1>4, <1>5 DEF Next

(* How Open comes to the point where it creates nothing any more. *)
LEMMA ClearSteps ==
  ASSUME BaseInv, Next, pc'["app"] \in {"open.clear", "open.lock"}
  PROVE  \/ pc["app"] \in {"open.clear", "open.lock"} \/ CloseEnds
         \/ (OpenCloses /\ CloseNothing)
<1>0. DOMAIN pc = Thread
  BY DEF BaseInv, TypeOK
<1> USE <1>0 DEF BaseInv
<1>1. CASE AppCalls
  BY <1>1 DEF AppCalls, Open, Close, Stop, Start, Pause, Delete, Call, SetPos, AddCache,
     SeekPosts, Goto, Thread
<1>2. CASE AppLocks
  BY <1>2, ReturnFacts, StackFacts DEF AppLocks, OpenPosts, CloseStops, StopEnds,
     StartEnds, PauseEnds, Goto, Thread, CallInv, CloseLabel, StopLabel
<1>3. CASE AppContinues
  <2> USE StackFacts DEF Thread, Goto, frame, CallInv, CloseLabel, StopLabel
  <2>1. CASE OpenRefused \/ CloseChecked \/ StopChecked
    BY <2>1, ReturnFacts DEF OpenRefused, CloseChecked, StopChecked
  <2>2. CASE OpenChecked \/ OpenFast \/ OpenCloses \/ OpenClears
    BY <2>2 DEF OpenChecked, OpenFast, OpenCloses, OpenClears
  <2>3. CASE SeekFlag("app") \/ SeekWait("app") \/ DeleteAborts \/ DeleteUnregisters
              \/ DeleteStops \/ DeleteEnds
    BY <2>3 DEF SeekFlag, SeekWait, SeekReturn, DeleteAborts, DeleteUnregisters,
       DeleteStops, DeleteEnds
  <2> QED BY <1>3, <2>1, <2>2, <2>3 DEF AppContinues
<1>4. CASE Work \/ Message
  BY <1>4, AppStays
<1>5. CASE (\E r \in Stream : ReachesEOS(r)) \/ Deleted
  BY <1>5 DEF ReachesEOS, Deleted, vars
<1> QED BY <1>1, <1>2, <1>3, <1>4, <1>5 DEF Next

(* An open that has succeeded is over when its task is. *)
LEMMA SucceededStays ==
  ASSUME BaseInv, Next, pc["work"] \in {"opened", "done"}, running' \notin {<<>>}
  PROVE  pc'["work"] \in {"opened", "done"}
<1>0. DOMAIN pc = Thread
  BY DEF BaseInv, TypeOK
<1>1. CASE AppCalls \/ AppLocks \/ AppContinues
  BY <1>1, AppOnly DEF BaseInv
<1>2. CASE Work
  BY <1>0, <1>2 DEF Work, Thread, Goto, TaskDone, Does, TaskBegins, TQ!Begin,
    OpenCancelled, OpenBegins, OpenAborts, OpenFails, OpenSucceeds, OpenFailed, OpenFlag,
    OpenDone, SeekBegins, SeekLoopEnds, SeekEnds, ReopenRefused, ReopenBegins, ReopenAborts,
    ReopenEnds, CheckStatus, CheckIdle, CheckStalled, CheckPlays, CacheBegins, CacheEnds
<1>3. CASE Message
  BY <1>3, WorkStays DEF BaseInv
<1>4. CASE (\E r \in Stream : ReachesEOS(r)) \/ Deleted
  BY <1>4 DEF ReachesEOS, Deleted, vars
<1> QED BY <1>1, <1>2, <1>3, <1>4 DEF Next

(* The handler that creates renderers serves the only open there is, and    *)
(* the application is not at the end of Open.                               *)
LEMMA SucceedsAlone ==
  ASSUME BaseInv, PendingInv, OpenSucceeds
  PROVE  /\ OpenRuns /\ ~OpenWaits /\ m_pBoxSource' \in URL
         /\ pc["app"] \notin {"open.clear", "open.lock", "open.url"}
         /\ pc'["work"] = "opened" /\ UNCHANGED <<waiting, running>> /\ pc'["app"] = pc["app"]
<1>1. PICK t \in TQ!Task : running = <<t>>
  BY DEF OpenSucceeds, BaseInv, TaskInv
<1>2. Current = t.id /\ Current.what = "open" /\ Current.url \in URL
  BY <1>1, CurrentType DEF OpenSucceeds, BaseInv, TaskInv, Current
<1>3. OpenRuns /\ ~OpenWaits
  BY <1>1, <1>2 DEF OpenRuns, IsOpen, OpenSucceeds, PendingInv
<1>4. pc["app"] \in {"open.clear", "open.lock", "open.url"} => ~m_bExit
  BY StackFacts DEF BaseInv, CallInv, DelLabel, CloseLabel, StopLabel
<1>5. pc["app"] \notin {"open.clear", "open.lock", "open.url"}
  BY <1>3, <1>4 DEF PendingInv
<1> QED BY <1>2, <1>3, <1>5 DEF OpenSucceeds, queue, Goto, BaseInv, TypeOK, Thread

(* An open that creates renderers finds none. *)
LEMMA RendererStep ==
  ASSUME BaseInv, PendingInv, RendererInv, Next
  PROVE  RendererInv'
<1>0. DataType /\ DOMAIN pc = Thread /\ "null" \notin URL
  BY TypeParts, URLAssumption DEF BaseInv, TypeOK
<1>1. CASE OpenSucceeds
  <2>1. ~OpenWaits' /\ pc'["work"] = "opened" /\ m_pBoxSource' # "null"
        /\ pc'["app"] \notin {"open.clear", "open.lock"}
    BY <1>0, <1>1, SucceedsAlone DEF OpenWaits, IsOpen
  <2> QED BY <2>1 DEF RendererInv, OpenWaits
<1>2. CASE CloseEnds
  <2>1. Existing' = {}
    BY <1>2 DEF CloseEnds, Existing
  <2> QED BY <2>1 DEF RendererInv
<1>3. CASE ~OpenSucceeds /\ ~CloseEnds
  <2>1. Existing' = Existing
    BY <1>3, ExistingSteps
  <2>2. pc'["app"] \in {"open.clear", "open.lock"} => Existing = {}
    <3>1. ASSUME OpenCloses, CloseNothing PROVE Existing = {}
      BY <3>1 DEF OpenCloses, CloseNothing, RendererInv
    <3> QED BY <1>3, <3>1, ClearSteps DEF RendererInv
  <2>3. m_pBoxSource' = "null" /\ pc'["app"] # "deleted" => Existing = {}
    BY SourceSteps DEF RendererInv
  <2> DEFINE Creates(t) == IsOpen(t) /\ ~t.id.same
  <2>4. /\ \A i \in 1..Len(waiting') : Creates(waiting'[i]) => Existing = {}
        /\ \A t \in TQ!Task : running' = <<t>> /\ Creates(t)
             => Existing = {} \/ pc'["work"] \in {"opened", "done"}
    <3>1. CASE KeepsOpens /\ running' \in {running, <<>>}
      <4>1. \A i \in 1..Len(waiting') : Creates(waiting'[i]) => Existing = {}
        BY <3>1 DEF KeepsOpens, RendererInv
      <4>2. ASSUME NEW t \in TQ!Task, running' = <<t>>, Creates(t)
            PROVE  Existing = {} \/ pc'["work"] \in {"opened", "done"}
        <5>1. running = <<t>> /\ running' # <<>>
          BY <3>1, <4>2
        <5>2. Existing = {} \/ pc["work"] \in {"opened", "done"}
          BY <5>1, <4>2 DEF RendererInv
        <5> QED BY <5>1, <5>2, SucceededStays
      <4> QED BY <4>1, <4>2
    <3>2. CASE TaskBegins
      <4>1. PICK i \in 1..Len(waiting) :
               /\ running' = <<waiting[i]>> /\ waiting[i] \in TQ!Task
               /\ Len(waiting) \in Nat /\ Len(waiting') = Len(waiting) - 1
               /\ \A k \in 1..Len(waiting') : waiting'[k] = waiting[IF k < i THEN k ELSE k + 1]
        BY <1>0, <3>2, BeginFacts
      <4>2. \A k \in 1..Len(waiting') : \E l \in 1..Len(waiting) : waiting'[k] = waiting[l]
        <5> TAKE k \in 1..Len(waiting')
        <5>1. (IF k < i THEN k ELSE k + 1) \in 1..Len(waiting)
          BY <4>1
        <5> QED BY <4>1, <5>1
      <4> HIDE DEF Creates
      <4>3. \A l \in 1..Len(waiting) : Creates(waiting[l]) => Existing = {}
        BY DEF RendererInv, Creates
      <4>4. \A t : running' = <<t>> => t = waiting[i]
        BY <4>1
      <4> QED BY <4>2, <4>3, <4>4
    <3>3. CASE OpenFast \/ OpenPosts
      <4>1. PICK t \in TQ!Task : waiting' = Append(waiting, t) /\ (Creates(t) => Existing = {})
        <5>1. arg.url \in URL
          BY <3>3 DEF OpenFast, OpenPosts, BaseInv, CallInv
        <5> DEFINE t(same) == Task(Job("open", arg.url, same), FALSE)
        <5>2. \A same \in BOOLEAN : t(same) \in TQ!Task /\ t(same).id.same = same
          BY <5>1, JobType, TaskType DEF Task, Job
        <5>3. \E same \in BOOLEAN : waiting' = Append(waiting,
        t(same)) /\ (~same => Existing = {})
          BY <3>3 DEF OpenFast, OpenPosts, Post, RendererInv
        <5> QED BY <5>2, <5>3
      <4>2. running' = running /\ pc'["work"] = pc["work"]
        BY <3>3, <1>0 DEF OpenFast, OpenPosts, Goto, Thread
      <4>3. \A i \in 1..Len(waiting') :
               (i \in 1..Len(waiting) /\ waiting'[i] = waiting[i]) \/ waiting'[i] = t
        BY <1>0, <4>1, AppendOpen
      <4> HIDE DEF Creates
      <4>4. \A l \in 1..Len(waiting) : Creates(waiting[l]) => Existing = {}
        BY DEF RendererInv, Creates
      <4>5. \A t1 \in TQ!Task : running = <<t1>> /\ Creates(t1)
             => Existing = {} \/ pc["work"] \in {"opened", "done"}
        BY DEF RendererInv, Creates
      <4> QED BY <4>1, <4>2, <4>3, <4>4, <4>5
    <3>4. CASE DeleteEnds
      <4>1. waiting' = <<>> /\ running' = <<>>
        BY <3>4 DEF DeleteEnds
      <4>2. \A t \in TQ!Task : <<t>> # <<>>
        OBVIOUS
      <4> QED BY <4>1, <4>2
    <3> QED BY <3>1, <3>2, <3>3, <3>4, QueueSteps DEF QueueStep
  <2> QED BY <2>1, <2>2, <2>3, <2>4 DEF RendererInv
<1> QED BY <1>1, <1>2, <1>3

-----------------------------------------------------------------------------
(* The status *)

(* How a step changes the status and the renderers' own. *)
LEMMA StatusSteps ==
  ASSUME BaseInv, StatusInv, Next
  PROVE  \/ UNCHANGED <<rnd, m_stsPlay>>
         \/ m_stsPlay' \in {"init", "open"}
         \/ \E s \in {"run", "pause", "stop"} : SetRnd(s) /\ m_stsPlay' = s
         \/ PausedAtEnd /\ m_stsPlay = "run" /\ m_stsPlay' = "run" /\ SetRnd("pause")
<1>1. CASE StopEnds \/ StartEnds \/ PauseEnds
  BY <1>1 DEF StopEnds, StartEnds, PauseEnds
<1>2. CASE CloseEnds \/ OpenFast \/ OpenSucceeds
  BY <1>2 DEF CloseEnds, OpenFast, OpenSucceeds
<1>3. CASE OpenFails
  BY <1>3 DEF OpenFails
<1>4. CASE OpenDone
  BY <1>4 DEF OpenDone
<1>5. CASE SeekBegins
  BY <1>5 DEF SeekBegins, SeekRenderers
<1>6. CASE Finish
  <2>1. UNCHANGED m_stsPlay
    BY <1>6 DEF Finish
  <2>2. Existing # {}
    BY <1>6 DEF Finish, Finished
  <2>3. m_pURL \in URL
    BY <2>2 DEF BaseInv, TypeOK, StatusInv
  <2>4. CASE SeekRenderers(FALSE)
    BY <2>1, <2>4 DEF SeekRenderers
  <2>5. CASE FALSE \in Loops /\ m_pURL \notin Http /\ SeekRenderers(TRUE)
    BY <2>1, <2>3, <2>5 DEF SeekRenderers, PausedAtEnd
  <2> QED BY <1>6, <2>1, <2>4, <2>5 DEF Finish
<1>7. ASSUME ~(StopEnds \/ StartEnds \/ PauseEnds \/ CloseEnds \/ OpenFast),
             ~(OpenSucceeds \/ OpenFails \/ OpenDone \/ SeekBegins \/ Finish)
      PROVE  UNCHANGED <<rnd, m_stsPlay>>
  <2>1. CASE AppCalls \/ AppLocks
    BY <2>1, <1>7 DEF AppCalls, AppLocks, Open, Close, Stop, Start, Pause, Delete,
       OpenPosts, CloseStops, SetPos, AddCache, SeekPosts, media
  <2>2. CASE AppContinues
    BY <2>2, <1>7 DEF AppContinues, OpenRefused, OpenChecked, OpenCloses,
       OpenClears, CloseChecked, StopChecked, SeekFlag, SeekWait, DeleteAborts,
       DeleteUnregisters, DeleteStops, DeleteEnds, media
  <2>3. CASE Work
    BY <2>3, <1>7 DEF Work, TaskBegins, OpenCancelled, OpenBegins, OpenAborts,
       OpenFailed, OpenFlag, SeekLoopEnds, SeekEnds, ReopenRefused, ReopenBegins,
       ReopenAborts, ReopenEnds, CheckStatus, CheckIdle, CheckStalled, CheckPlays,
       CacheBegins, CacheEnds, media
  <2>4. CASE Message
    BY <2>4, <1>7 DEF Message, Receive, TestFlags, NotFinished, Complete, Received,
       SeekLoopEnds, SeekFlag, SeekWait, SeekPosts, media
  <2>5. CASE (\E r \in Stream : ReachesEOS(r)) \/ Deleted
    BY <2>5 DEF ReachesEOS, Deleted, vars, media
  <2> QED BY <2>1, <2>2, <2>3, <2>4, <2>5 DEF Next
<1> QED BY <1>1, <1>2, <1>3, <1>4, <1>5, <1>6, <1>7

(* Before the first Open there is nothing to play, and what Open needs it   *)
(* gets from its first step.                                                *)
LEMMA NoURLSteps ==
  ASSUME BaseInv, Next, m_pURL' = Nil
  PROVE  /\ m_pURL = Nil
         /\ pc'["app"] \in {"open.url", "open.clear", "open.lock"}
              => pc["app"] \in {"open.url", "open.clear", "open.lock"} \/ stack \in ForOpen
         /\ stack' \in ForOpen => stack \in ForOpen \/ pc["app"] = "open.url"
<1>0. DOMAIN pc = Thread /\ Nil \notin URL
  BY URLAssumption DEF BaseInv, TypeOK
<1> USE <1>0, StackFacts DEF BaseInv, Thread, Goto, frame, CallInv, CloseLabel, StopLabel
<1>1. CASE AppCalls
  BY <1>1 DEF AppCalls, Open, Close, Stop, Start, Pause, Delete, Call, SetPos, AddCache,
     SeekPosts
<1>2. CASE AppLocks
  <2>1. CASE CloseStops
    BY <2>1, PushFacts DEF CloseStops
  <2>2. CASE StopEnds
    BY <2>2, ReturnFacts DEF StopEnds
  <2>3. CASE OpenPosts \/ StartEnds \/ PauseEnds
    BY <2>3 DEF OpenPosts, StartEnds, PauseEnds
  <2> QED BY <1>2, <2>1, <2>2, <2>3 DEF AppLocks
<1>3. CASE AppContinues
  <2>1. CASE OpenRefused \/ CloseChecked \/ StopChecked \/ CloseEnds
    BY <2>1, ReturnFacts DEF OpenRefused, CloseChecked, StopChecked, CloseEnds
  <2>2. CASE OpenChecked \/ OpenFast \/ OpenCloses \/ OpenClears
    BY <2>2 DEF OpenChecked, OpenFast, OpenCloses, OpenClears
  <2>3. CASE SeekFlag("app") \/ SeekWait("app") \/ DeleteAborts \/ DeleteUnregisters
              \/ DeleteStops \/ DeleteEnds
    BY <2>3 DEF SeekFlag, SeekWait, SeekReturn, DeleteAborts, DeleteUnregisters,
       DeleteStops, DeleteEnds
  <2> QED BY <1>3, <2>1, <2>2, <2>3 DEF AppContinues
<1>4. CASE Work \/ Message
  BY <1>4, AppStays
<1>5. CASE (\E r \in Stream : ReachesEOS(r)) \/ Deleted
  BY <1>5 DEF ReachesEOS, Deleted, vars
<1> QED BY <1>1, <1>2, <1>3, <1>4, <1>5 DEF Next

(* Where an open comes from. *)
LEMMA OpenComes ==
  ASSUME BaseInv, Next, OpenWaits' \/ OpenRuns'
  PROVE  \/ OpenWaits \/ OpenRuns
         \/ pc["app"] \in {"open.url", "open.lock"} /\ (OpenFast \/ OpenPosts)
<1>0. DataType
  BY TypeParts DEF BaseInv
<1>1. CASE KeepsOpens /\ running' \in {running, <<>>}
  BY <1>1, RunsBack DEF KeepsOpens, OpenWaits
<1>2. CASE TaskBegins
  <2>1. PICK i \in 1..Len(waiting) :
           /\ running' = <<waiting[i]>>
           /\ Len(waiting) \in Nat /\ Len(waiting') = Len(waiting) - 1
           /\ \A k \in 1..Len(waiting') : waiting'[k] = waiting[IF k < i THEN k ELSE k + 1]
    BY <1>0, <1>2, BeginFacts
  <2>2. \A k \in 1..Len(waiting') : \E l \in 1..Len(waiting) : waiting'[k] = waiting[l]
    <3> TAKE k \in 1..Len(waiting')
    <3>1. (IF k < i THEN k ELSE k + 1) \in 1..Len(waiting)
      BY <2>1
    <3> QED BY <2>1, <3>1
  <2> QED BY <2>1, <2>2 DEF OpenWaits, OpenRuns
<1>3. CASE OpenFast \/ OpenPosts
  BY <1>3 DEF OpenFast, OpenPosts
<1>4. CASE DeleteEnds
  <2>1. waiting' = <<>> /\ running' = <<>>
    BY <1>4 DEF DeleteEnds
  <2>2. \A t \in TQ!Task : <<t>> # <<>>
    OBVIOUS
  <2> QED BY <2>1, <2>2 DEF OpenWaits, OpenRuns
<1> QED BY <1>1, <1>2, <1>3, <1>4, QueueSteps DEF QueueStep

(* The status and the renderers change together. *)
LEMMA StatusStep ==
  ASSUME BaseInv, PendingInv, StatusInv, Next
  PROVE  StatusInv'
<1>1. m_stsPlay' \in {"run", "pause", "stop"} =>
        \A r \in Existing' : \/ rnd'[r] = m_stsPlay'
                             \/ PausedAtEnd /\ m_stsPlay' = "run" /\ rnd'[r] = "pause"
  <2>1. CASE UNCHANGED <<rnd, m_stsPlay>>
    BY <2>1 DEF StatusInv, Existing
  <2>2. CASE \E s \in {"run", "pause", "stop"} : SetRnd(s) /\ m_stsPlay' = s
    BY <2>2 DEF SetRnd, Existing
  <2>3. CASE PausedAtEnd /\ m_stsPlay = "run" /\ m_stsPlay' = "run" /\ SetRnd("pause")
    BY <2>3 DEF SetRnd, Existing
  <2> QED BY <2>1, <2>2, <2>3, StatusSteps
<1>2. ASSUME m_pURL' = Nil
      PROVE  /\ Existing' = {} /\ ~OpenWaits' /\ ~OpenRuns'
             /\ pc'["app"] \notin {"open.url", "open.clear", "open.lock"} /\ stack' \notin ForOpen
  <2>1. m_pURL = Nil
    BY <1>2, NoURLSteps
  <2>2. Existing = {} /\ ~OpenWaits /\ ~OpenRuns
        /\ pc["app"] \notin {"open.url", "open.clear", "open.lock"} /\ stack \notin ForOpen
    BY <2>1 DEF StatusInv
  <2>3. Existing' = {}
    BY <2>2, ExistingSteps, SucceedsAlone
  <2>4. ~OpenWaits' /\ ~OpenRuns'
    BY <2>2, OpenComes
  <2> QED BY <1>2, <2>2, <2>3, <2>4, NoURLSteps
<1> QED BY <1>1, <1>2 DEF StatusInv, PausedAtEnd

-----------------------------------------------------------------------------
(* The reports *)

(* Without FastOpen no Open keeps the renderers. *)
LEMMA SameStep ==
  ASSUME NoFastOpen, BaseInv, ~arg.same, Next
  PROVE  ~arg'.same
<1> USE DEF BaseInv, frame
<1>0. arg \in [url : URL \cup {Nil}, same : BOOLEAN] /\ ~NoArg.same
  BY DEF TypeOK, NoArg
<1>r. \A ok \in BOOLEAN : Return(ok) => arg' \in {arg, NoArg}
  BY DEF Return
<1>1. CASE AppCalls
  <2>1. ASSUME NEW u \in URL, NEW same \in BOOLEAN, Open(u, same) PROVE ~arg'.same
    BY <2>1 DEF Open, Call, NoFastOpen
  <2> QED BY <1>1, <2>1 DEF AppCalls, Close, Stop, Start, Pause, Delete, SetPos, AddCache, SeekPosts
<1>2. CASE AppLocks
  <2>1. CASE StopEnds
    BY <2>1, <1>0, <1>r DEF StopEnds
  <2>2. CASE CloseStops \/ StartEnds \/ PauseEnds
    BY <2>2 DEF CloseStops, StartEnds, PauseEnds
  <2>3. CASE OpenPosts
    BY <2>3, <1>0 DEF OpenPosts
  <2> QED BY <1>2, <2>1, <2>2, <2>3 DEF AppLocks
<1>3. CASE AppContinues
  <2>1. CASE OpenRefused \/ CloseChecked \/ StopChecked \/ CloseEnds
    BY <1>0, <2>1, <1>r DEF OpenRefused, CloseChecked, StopChecked, CloseEnds
  <2>2. CASE OpenCloses
    BY <2>2, <1>0 DEF OpenCloses
  <2>3. CASE OpenChecked \/ OpenFast \/ OpenClears
    BY <2>3, <1>0 DEF OpenChecked, OpenFast, OpenClears
  <2>4. CASE SeekFlag("app") \/ SeekWait("app") \/ DeleteAborts \/ DeleteUnregisters
              \/ DeleteStops \/ DeleteEnds
    BY <2>4, <1>0 DEF SeekFlag, SeekWait, DeleteAborts, DeleteUnregisters, DeleteStops,
       DeleteEnds
  <2> QED BY <1>3, <2>1, <2>2, <2>3, <2>4 DEF AppContinues
<1>4. CASE Work \/ Message
  BY <1>4, AppStays
<1>5. CASE (\E r \in Stream : ReachesEOS(r)) \/ Deleted
  BY <1>5 DEF ReachesEOS, Deleted, vars
<1> QED BY <1>1, <1>2, <1>3, <1>4, <1>5 DEF Next

(* An Open begins by forgetting that the player was closed. *)
LEMMA OpenPathSteps ==
  ASSUME BaseInv, Next, OpenPath'
  PROVE  OpenPath \/ ~closed'
<1>0. DOMAIN pc = Thread
  BY DEF BaseInv, TypeOK
<1> USE <1>0, StackFacts DEF BaseInv, Thread, Goto, frame, CallInv, CloseLabel, StopLabel, OpenPath
<1>1. CASE AppCalls
  BY <1>1 DEF AppCalls, Open, Close, Stop, Start, Pause, Delete, Call, SetPos, AddCache,
     SeekPosts
<1>2. CASE AppLocks
  <2>1. CASE CloseStops
    BY <2>1, PushFacts DEF CloseStops
  <2>2. CASE StopEnds
    BY <2>2, ReturnFacts DEF StopEnds
  <2>3. CASE OpenPosts \/ StartEnds \/ PauseEnds
    BY <2>3 DEF OpenPosts, StartEnds, PauseEnds
  <2> QED BY <1>2, <2>1, <2>2, <2>3 DEF AppLocks
<1>3. CASE AppContinues
  <2>1. CASE OpenRefused \/ CloseChecked \/ StopChecked \/ CloseEnds
    BY <2>1, ReturnFacts DEF OpenRefused, CloseChecked, StopChecked, CloseEnds
  <2>2. CASE OpenChecked \/ OpenFast \/ OpenCloses \/ OpenClears
    BY <2>2 DEF OpenChecked, OpenFast, OpenCloses, OpenClears
  <2>3. CASE SeekFlag("app") \/ SeekWait("app") \/ DeleteAborts \/ DeleteUnregisters
              \/ DeleteStops \/ DeleteEnds
    BY <2>3 DEF SeekFlag, SeekWait, SeekReturn, DeleteAborts, DeleteUnregisters,
       DeleteStops, DeleteEnds
  <2> QED BY <1>3, <2>1, <2>2, <2>3 DEF AppContinues
<1>4. CASE Work \/ Message
  BY <1>4, AppStays
<1>5. CASE (\E r \in Stream : ReachesEOS(r)) \/ Deleted
  BY <1>5 DEF ReachesEOS, Deleted, vars
<1> QED BY <1>1, <1>2, <1>3, <1>4, <1>5 DEF Next

(* Which steps change what ReportInv is about. *)
LEMMA HistorySteps ==
  ASSUME BaseInv, Next
  PROVE  /\ accepted' = accepted \/ OpenFast \/ OpenPosts
         /\ closed' = closed \/ closed' = FALSE \/ CloseEnds
         /\ \/ m_pBoxSource' = m_pBoxSource \/ CloseEnds \/ DeleteEnds
            \/ pc["work"] \in {"open.io", "reopen.io", "task"}
<1>1. CASE AppCalls
  BY <1>1 DEF AppCalls, Open, Close, Stop, Start, Pause, Delete, SetPos, AddCache, SeekPosts,
     history, media
<1>2. CASE OpenFast \/ OpenPosts
  BY <1>2 DEF OpenFast, OpenPosts, media
<1>3. CASE CloseStops \/ StopEnds \/ StartEnds \/ PauseEnds
  <2>1. CASE CloseStops \/ StartEnds \/ PauseEnds
    BY <2>1 DEF CloseStops, StartEnds, PauseEnds, history, media
  <2>2. CASE StopEnds
    BY <2>2 DEF StopEnds
  <2> QED BY <1>3, <2>1, <2>2
<1>4. CASE CloseEnds \/ DeleteEnds
  BY <1>4 DEF CloseEnds, DeleteEnds, history
<1>5. CASE OpenRefused \/ OpenChecked \/ OpenCloses \/ OpenClears \/ CloseChecked \/ StopChecked
  BY <1>5 DEF OpenRefused, OpenChecked, OpenCloses, OpenClears, CloseChecked, StopChecked,
     history, media
<1>6. CASE SeekFlag("app") \/ SeekWait("app") \/ DeleteAborts \/ DeleteUnregisters \/ DeleteStops
  BY <1>6 DEF SeekFlag, SeekWait, DeleteAborts, DeleteUnregisters, DeleteStops, history, media
<1>7. CASE Work
  <2>1. CASE TaskBegins \/ OpenCancelled \/ OpenBegins \/ OpenAborts \/ OpenFails \/ OpenSucceeds
             \/ OpenFailed \/ OpenFlag \/ OpenDone
    BY <2>1 DEF TaskBegins, OpenCancelled, OpenBegins, OpenAborts, OpenFails, OpenSucceeds,
       OpenFailed, OpenFlag, OpenDone, history, media, Does
  <2>2. CASE SeekBegins \/ SeekLoopEnds("work") \/ SeekEnds \/ ReopenRefused \/ ReopenBegins
             \/ ReopenAborts \/ ReopenEnds
    BY <2>2 DEF SeekBegins, SeekLoopEnds, SeekEnds, ReopenRefused, ReopenBegins, ReopenAborts,
       ReopenEnds, history, media, Does
  <2>3. CASE CheckStatus \/ CheckIdle \/ CheckStalled \/ CheckPlays \/ CacheBegins \/ CacheEnds
    BY <2>3 DEF CheckStatus, CheckIdle, CheckStalled, CheckPlays, CacheBegins, CacheEnds,
       history, media, Does
  <2> QED BY <1>7, <2>1, <2>2, <2>3 DEF Work
<1>8. CASE Message
  BY <1>8 DEF Message, Receive, TestFlags, NotFinished, Finish, Complete, Received,
     SeekLoopEnds, SeekFlag, SeekWait, SeekPosts, history, media
<1>9. CASE (\E r \in Stream : ReachesEOS(r)) \/ Deleted
  BY <1>9 DEF ReachesEOS, Deleted, vars, history, media
<1> QED BY <1>1, <1>2, <1>3, <1>4, <1>5, <1>6, <1>7, <1>8, <1>9 DEF Next, AppLocks, AppContinues

(* How the handler of an open moves, and how it is over. *)
LEMMA HandlerSteps ==
  ASSUME BaseInv, Next
  PROVE  /\ pc["work"] \in OpenLabel /\ Current.what = "open" /\ running' = running
              => pc'["work"] \in OpenLabel
         /\ pc["work"] = "done" /\ running' = running => pc'["work"] = "done"
         /\ pc'["work"] \in {"opened", "done"} => pc["work"] \in {"opened", "done"} \/ OpenSucceeds
         /\ pc'["work"] = "done" => pc["work"] = "done" \/ OpenFlag
         /\ pc["work"] \in OpenLabel /\ Current.what = "open" /\ running' # running
              => OpenCancelled \/ OpenFailed \/ pc["work"] = "done"
         /\ TaskBegins => pc["work"] = "idle" /\ pc'["work"] = "task"
<1>0. DOMAIN pc = Thread
  BY DEF BaseInv, TypeOK
<1>1. CASE AppCalls \/ AppLocks \/ AppContinues
  BY <1>0, <1>1, AppOnly DEF BaseInv, TaskBegins, Goto, Thread
<1>2. CASE Work
  <2>1. pc["work"] # "idle" => running # <<>>
    <3>1. \A t \in TQ!Task : <<t>> # <<>>
      OBVIOUS
    <3> QED BY <3>1 DEF BaseInv, TaskInv
  <2>2. CASE TaskBegins
    BY <2>2, <1>0 DEF TaskBegins, Goto, Thread, OpenLabel
  <2>3. CASE OpenCancelled \/ OpenBegins \/ OpenAborts \/ OpenFails \/ OpenSucceeds \/ OpenFailed
             \/ OpenFlag \/ OpenDone
    BY <2>1, <2>3, <1>0 DEF Goto, Thread, OpenLabel, Does, TaskDone, queue, TaskBegins,
       OpenCancelled, OpenBegins,
       OpenAborts, OpenFails, OpenSucceeds, OpenFailed, OpenFlag, OpenDone
  <2>4. CASE SeekBegins \/ SeekLoopEnds("work") \/ SeekEnds \/ ReopenRefused \/ ReopenBegins
             \/ ReopenAborts \/ ReopenEnds
    BY <2>1, <2>4, <1>0 DEF Goto, Thread, OpenLabel, Does, TaskDone, queue, TaskBegins,
       SeekBegins, SeekLoopEnds,
       SeekEnds, ReopenRefused, ReopenBegins, ReopenAborts, ReopenEnds
  <2>5. CASE CheckStatus \/ CheckIdle \/ CheckStalled \/ CheckPlays \/ CacheBegins \/ CacheEnds
    BY <2>1, <2>5, <1>0 DEF Goto, Thread, OpenLabel, Does, TaskDone, queue, TaskBegins,
       CheckStatus, CheckIdle,
       CheckStalled, CheckPlays, CacheBegins, CacheEnds
  <2> QED BY <1>2, <2>2, <2>3, <2>4, <2>5 DEF Work
<1>3. CASE Message
  BY <1>0, <1>3, WorkStays DEF BaseInv, TaskBegins, Goto, Thread
<1>4. CASE (\E r \in Stream : ReachesEOS(r)) \/ Deleted
  BY <1>0, <1>4 DEF ReachesEOS, Deleted, vars, queue, TaskBegins, Goto, Thread
<1> QED BY <1>1, <1>2, <1>3, <1>4 DEF Next

(* The message thread reports the end of what is played. *)
LEMMA CompleteSteps ==
  ASSUME BaseInv, Next, pc'["msg"] = "complete"
  PROVE  pc["msg"] = "complete" \/ Finish
<1>0. DOMAIN pc = Thread
  BY DEF BaseInv, TypeOK
<1>1. CASE AppCalls \/ AppLocks \/ AppContinues
  BY <1>1, AppOnly DEF BaseInv
<1>2. CASE Work
  BY <1>0, <1>2 DEF Work, Thread, Goto, TaskDone, TaskBegins,
    OpenCancelled, OpenBegins, OpenAborts, OpenFails, OpenSucceeds, OpenFailed, OpenFlag,
    OpenDone, SeekBegins, SeekLoopEnds, SeekEnds, ReopenRefused, ReopenBegins, ReopenAborts,
    ReopenEnds, CheckStatus, CheckIdle, CheckStalled, CheckPlays, CacheBegins, CacheEnds
<1>3. CASE Message
  BY <1>0, <1>3 DEF Message, Thread, Goto, Receive, TestFlags, NotFinished,
    Complete, Received, SeekLoopEnds, SeekFlag, SeekWait, SeekReturn, SeekPosts
<1>4. CASE (\E r \in Stream : ReachesEOS(r)) \/ Deleted
  BY <1>4 DEF ReachesEOS, Deleted, vars
<1> QED BY <1>1, <1>2, <1>3, <1>4 DEF Next

(* An Open is accepted when no other is pending and no handler of one runs. *)
LEMMA PostsAlone ==
  ASSUME BaseInv, LockInv, PendingInv, OpenPosts
  PROVE  /\ ~OpenWaits /\ \A t \in TQ!Task : running = <<t>> => ~IsOpen(t)
         /\ pc["work"] \notin {"opened", "done"} /\ pc["msg"] # "complete"
         /\ UNCHANGED <<running, m_pBoxSource, closed>>
         /\ pc'["work"] = pc["work"] /\ pc'["msg"] = pc["msg"]
<1>1. ~m_bOpening /\ ~m_bExit
  BY StackFacts DEF OpenPosts, PendingInv, BaseInv, CallInv, DelLabel, CloseLabel, StopLabel
<1>2. ~OpenWaits /\ ~OpenRuns
  BY <1>1 DEF PendingInv
<1>3. pc["work"] \notin {"opened", "done"} /\ pc["msg"] # "complete"
  BY URLAssumption DEF OpenPosts, LockInv, Thread
<1>4. \A t \in TQ!Task : running = <<t>> => ~IsOpen(t)
  BY <1>2, <1>3 DEF OpenRuns
<1> QED BY <1>2, <1>3, <1>4 DEF OpenPosts, media, Goto, BaseInv, TypeOK, Thread

(* The open that is pending is that of the last Open accepted. *)
LEMMA ReportStep ==
  ASSUME NoFastOpen, BaseInv, LockInv, PendingInv, RendererInv, ReportInv, Next
  PROVE  ReportInv'
<1>0. DataType /\ DOMAIN pc = Thread /\ Nil \notin Thread
  BY TypeParts, URLAssumption DEF BaseInv, TypeOK
<1>a. ~arg'.same
  BY SameStep DEF ReportInv
<1>b. ~OpenFast
  BY DEF OpenFast, CanOpenFast, ReportInv
<1>c. \A t \in TQ!Task : <<t>> # <<>>
  OBVIOUS
<1>1. CASE OpenPosts
  <2>1. arg.url \in URL /\ OpenPath
    BY <1>1 DEF OpenPosts, BaseInv, CallInv, OpenPath
  <2> DEFINE t == Task(Job("open", arg.url, FALSE), FALSE)
  <2>2. t \in TQ!Task /\ t.id = Job("open", arg.url, FALSE) /\ IsOpen(t)
    BY <2>1, JobType, TaskType DEF Task, Job, IsOpen
  <2>3. waiting' = Append(waiting, t) /\ accepted' = arg.url
    BY <1>1 DEF OpenPosts, Post
  <2> HIDE DEF t
  <2>4. /\ \A i \in 1..Len(waiting') : IsOpen(waiting'[i]) => waiting'[i] = t
        /\ OpenWaits'
    BY <1>0, <1>1, <2>2, <2>3, AppendOpen, PostsAlone DEF OpenWaits
  <2>5. ~closed'
    BY <1>1, <2>1, PostsAlone DEF ReportInv
  <2> QED BY <1>1, <1>a, <2>2, <2>3, <2>4, <2>5, PostsAlone DEF ReportInv
<1>2. CASE ~OpenPosts
  <2>0. accepted' = accepted
    BY <1>2, <1>b, HistorySteps
  <2>1. m_bOpening' => m_bOpening /\ ~(OpenCancelled \/ OpenFailed \/ OpenFlag)
    <3>1. CASE OpenCancelled \/ OpenFailed \/ OpenFlag \/ Delete
      BY <3>1 DEF OpenCancelled, OpenFailed, OpenFlag, Delete
    <3> QED BY <3>1, <1>2, <1>b, OpeningSteps
  <2>2. closed' => Existing' = {} /\ ~OpenWaits' /\ ~OpenRuns' /\ ~OpenPath'
    <3>1. CASE CloseEnds
      <4>1. closed' => stack = <<>>
        BY <3>1 DEF CloseEnds
      <4>2. stack = <<>> => ~m_bExit /\ ~OpenPath
        BY <3>1, StackFacts DEF CloseEnds, BaseInv, CallInv, DelLabel, OpenPath
      <4>3. stack = <<>> => ~OpenWaits /\ ~OpenRuns
        BY <3>1, <4>2 DEF CloseEnds, PendingInv
      <4>4. Existing' = {}
        BY <3>1 DEF CloseEnds, Existing
      <4> QED BY <1>2, <1>b, <4>1, <4>2, <4>3, <4>4, OpenComes, OpenPathSteps
    <3>2. CASE ~CloseEnds
      <4>1. closed' => closed
        BY <3>2, HistorySteps
      <4>2. closed => Existing' = {}
        BY <3>2, ExistingSteps, SucceedsAlone DEF ReportInv
      <4> QED BY <1>2, <1>b, <4>1, <4>2, OpenComes, OpenPathSteps DEF ReportInv
    <3> QED BY <3>1, <3>2
  <2>3. pc'["work"] \in {"opened", "done"} => m_pBoxSource' = accepted'
    <3>1. CASE OpenSucceeds
      <4>1. PICK t \in TQ!Task : running = <<t>>
        BY <3>1 DEF OpenSucceeds, BaseInv, TaskInv
      <4>2. Current = t.id /\ IsOpen(t) /\ pc["work"] # "done"
        BY <3>1, <4>1 DEF OpenSucceeds, BaseInv, TaskInv, Current, IsOpen
      <4>3. Current.url = accepted
        BY <4>1, <4>2 DEF ReportInv, Job
      <4> QED BY <2>0, <3>1, <4>3 DEF OpenSucceeds
    <3>2. CASE pc["work"] \in {"opened", "done"}
      <4>1. ~CloseEnds /\ ~DeleteEnds
        BY <3>2, <1>0, <1>c DEF CloseEnds, DeleteEnds, LockInv, BaseInv, TaskInv
      <4> QED BY <2>0, <3>2, <4>1, HistorySteps DEF ReportInv
    <3> QED BY <3>1, <3>2, HandlerSteps
  <2>4. pc'["msg"] = "complete" => ~m_bOpening' /\ ~closed'
    <3>1. CASE pc["msg"] = "complete"
      <4>1. ~CloseEnds
        BY <3>1, <1>0 DEF CloseEnds, LockInv
      <4> QED BY <2>1, <3>1, <4>1, HistorySteps DEF ReportInv
    <3>2. CASE Finish
      <4>1. Existing # {} /\ m_mtFunc = Nil
        BY <3>2 DEF Finish, Finished
      <4>2. ~closed /\ ~closed'
        BY <4>1, <3>2 DEF ReportInv, Finish, history
      <4>3. ~OpenWaits
        BY <4>1 DEF OpenWaits, ReportInv, RendererInv, Job
      <4>4. ~OpenRuns
        <5>1. pc["work"] \notin {"opened", "done"}
          BY <4>1, <1>0 DEF LockInv, Thread
        <5>2. ASSUME NEW t \in TQ!Task, running = <<t>>, IsOpen(t) PROVE ~t.id.same
          BY <5>1, <5>2 DEF ReportInv, Job
        <5> QED BY <4>1, <5>1, <5>2 DEF OpenRuns, RendererInv
      <4> QED BY <2>1, <4>2, <4>3, <4>4 DEF ReportInv
    <3> QED BY <3>1, <3>2, CompleteSteps
  <2> DEFINE Expected(t) == IsOpen(t) => t.id = Job("open", accepted, FALSE)
  <2>p. \A i \in 1..Len(waiting) : Expected(waiting[i])
    BY DEF ReportInv
  <2>5. /\ \A i \in 1..Len(waiting') : Expected(waiting'[i])
        /\ \A t \in TQ!Task : running' = <<t>> /\ IsOpen(t) =>
             /\ t.id = Job("open", accepted, FALSE) \/ pc'["work"] = "done"
             /\ pc'["work"] \in OpenLabel
        /\ m_bOpening' => OpenWaits' \/ OpenRuns'
    <3>1. CASE KeepsOpens /\ running' \in {running, <<>>}
      <4>1. \A i \in 1..Len(waiting') : Expected(waiting'[i])
        BY <3>1, <2>p DEF KeepsOpens
      <4>2. \A t \in TQ!Task : running = <<t>> => Current = t.id
        BY DEF Current
      <4>3. ASSUME NEW t \in TQ!Task, running' = <<t>>, IsOpen(t)
            PROVE  /\ t.id = Job("open", accepted, FALSE) \/ pc'["work"] = "done"
                   /\ pc'["work"] \in OpenLabel
        <5>1. running = <<t>> /\ running' = running
          BY <3>1, <4>3, <1>c
        <5>2. /\ t.id = Job("open", accepted, FALSE) \/ pc["work"] = "done"
              /\ pc["work"] \in OpenLabel
          BY <4>3, <5>1 DEF ReportInv
        <5> QED BY <4>2, <4>3, <5>1, <5>2, HandlerSteps DEF IsOpen
      <4>4. ASSUME m_bOpening', ~OpenWaits' PROVE OpenRuns'
        <5>1. m_bOpening /\ ~OpenWaits /\ ~(OpenCancelled \/ OpenFailed \/ OpenFlag)
          BY <2>1, <3>1, <4>4 DEF KeepsOpens
        <5>2. PICK t \in TQ!Task : running = <<t>> /\ IsOpen(t) /\ pc["work"] # "done"
          BY <5>1 DEF ReportInv, OpenRuns
        <5>3. Current.what = "open" /\ pc["work"] \in OpenLabel
          BY <5>2, <4>2 DEF ReportInv, IsOpen
        <5>4. running' = running /\ pc'["work"] # "done"
          BY <5>1, <5>2, <5>3, HandlerSteps
        <5> QED BY <5>2, <5>4 DEF OpenRuns
      <4> QED BY <4>1, <4>3, <4>4
    <3>2. CASE TaskBegins
      <4>1. PICK i \in 1..Len(waiting) :
               /\ running = <<>> /\ running' = <<waiting[i]>> /\ waiting[i] \in TQ!Task
               /\ Len(waiting) \in Nat /\ Len(waiting') = Len(waiting) - 1
               /\ \A k \in 1..Len(waiting') : waiting'[k] = waiting[IF k < i THEN k ELSE k + 1]
        BY <1>0, <3>2, BeginFacts
      <4>2. pc'["work"] = "task" /\ m_bOpening' = m_bOpening
        BY <3>2, HandlerSteps DEF TaskBegins, flags
      <4>3. \A k \in 1..Len(waiting') : \E l \in 1..Len(waiting) : waiting'[k] = waiting[l]
        <5> TAKE k \in 1..Len(waiting')
        <5>1. (IF k < i THEN k ELSE k + 1) \in 1..Len(waiting)
          BY <4>1
        <5> QED BY <4>1, <5>1
      <4>4. \A l \in 1..Len(waiting) : l = i \/ \E k \in 1..Len(waiting') : waiting'[k] = waiting[l]
        <5> TAKE l \in 1..Len(waiting)
        <5>1. CASE l < i
          <6>1. l \in 1..Len(waiting') /\ waiting'[l] = waiting[l]
            BY <4>1, <5>1
          <6> QED BY <6>1
        <5>2. CASE l > i
          <6>1. l - 1 \in 1..Len(waiting') /\ ~(l - 1 < i) /\ (l - 1) + 1 = l
            BY <4>1, <5>2
          <6>2. waiting'[l - 1] = waiting[l]
            BY <4>1, <6>1
          <6> QED BY <6>1, <6>2
        <5> QED BY <4>1, <5>1, <5>2
      <4>5. \A t : running' = <<t>> => t = waiting[i]
        BY <4>1
      <4>6. ~OpenRuns
        BY <4>1, <1>c DEF OpenRuns
      <4>7. m_bOpening' => OpenWaits' \/ OpenRuns'
        <5>1. SUFFICES ASSUME m_bOpening' PROVE OpenWaits' \/ OpenRuns'
          OBVIOUS
        <5>2. PICK l \in 1..Len(waiting) : IsOpen(waiting[l])
          BY <5>1, <4>2, <4>6 DEF ReportInv, OpenWaits
        <5>3. CASE l = i
          BY <4>1, <4>2, <5>2, <5>3 DEF OpenRuns
        <5>4. CASE l # i
          BY <4>4, <5>2, <5>4 DEF OpenWaits
        <5> QED BY <5>3, <5>4
      <4>8. \A i1 \in 1..Len(waiting') : Expected(waiting'[i1])
        <5> HIDE DEF Expected
        <5> QED BY <2>p, <4>3
      <4> QED BY <2>p, <4>2, <4>5, <4>7, <4>8 DEF OpenLabel
    <3>3. CASE DeleteEnds
      <4>1. waiting' = <<>> /\ running' = <<>> /\ ~m_bOpening'
        BY <3>3 DEF DeleteEnds, flags, PendingInv
      <4> QED BY <4>1, <1>c
    <3> QED BY <3>1, <3>2, <3>3, <1>2, <1>b, QueueSteps DEF QueueStep
  <2> QED BY <1>a, <2>0, <2>2, <2>3, <2>4, <2>5 DEF ReportInv
<1> QED BY <1>1, <1>2

-----------------------------------------------------------------------------
(* The theorems *)

(* What holds whatever the application and the callbacks do. *)
EngineInv == BaseInv /\ LockInv /\ DeleteInv /\ AbortInv /\ PendingInv /\ RendererInv /\ StatusInv

(* The constructor has posted the first check and nothing else. *)
LEMMA InitQueue ==
  ASSUME Init
  PROVE  /\ waiting \in Seq(TQ!Task) /\ running \in Seq(TQ!Task)
         /\ ~OpenWaits /\ ~OpenRuns /\ \A i \in 1..Len(waiting) : ~IsOpen(waiting[i])
         /\ \A t \in TQ!Task : running # <<t>>
         /\ Existing = {} /\ pc = [t \in Thread |-> "idle"]
<1>1. waiting = <<CheckJob>> /\ running = <<>> /\ Existing = {} /\ pc = [t \in Thread |-> "idle"]
  BY DEF Init, Existing
<1>2. waiting \in Seq(TQ!Task) /\ running \in Seq(TQ!Task)
  BY <1>1, CheckJobType, OneInSeq
<1>3. \A i \in 1..Len(waiting) : ~IsOpen(waiting[i])
  BY <1>1, NotOpenJobs
<1>4. \A t \in TQ!Task : running # <<t>>
  BY <1>1
<1> QED BY <1>1, <1>2, <1>3, <1>4 DEF OpenWaits, OpenRuns

(* The invariant holds when the constructor returns. *)
LEMMA InitInv == Init => EngineInv /\ (NoFastOpen => ReportInv)
<1> SUFFICES ASSUME Init PROVE EngineInv /\ ReportInv
  OBVIOUS
<1>1. /\ stack = <<>> /\ arg = [url |-> Nil, same |-> FALSE]
      /\ m_bExit = FALSE /\ m_bOpening = FALSE /\ m_bForceClose = FALSE
      /\ closed = FALSE /\ m_mtFunc = Nil /\ m_pBoxSource = "null"
      /\ m_stsPlay = "init"
      /\ pc["app"] = "idle" /\ pc["work"] = "idle" /\ pc["msg"] = "idle"
  BY DEF Init, NoArg, Thread
<1>2. TypeOK
  <2>1. msgs \in 0..MaxMsg
    BY BoundAssumption DEF Init
  <2>2. rnd \in [Stream -> RndStatus] /\ eos \in [Stream -> BOOLEAN]
    BY DEF Init, RndStatus
  <2>3. FlagsType
    BY DEF Init, FlagsType
  <2>4. PcType
    BY InitQueue DEF PcType, AppLabel, WorkLabel, MsgLabel, Thread
  <2>5. /\ m_stsPlay \in {"init", "open", "run", "pause", "stop"} /\ m_mtFunc \in Thread \cup {Nil}
        /\ m_pURL \in URL \cup {Nil} /\ m_pBoxSource \in URL \cup {"null", "closed"}
        /\ accepted \in URL \cup {Nil} /\ stack \in Seq({"open.clear", "close.body", "del.force"})
        /\ arg \in [url : URL \cup {Nil}, same : BOOLEAN]
    BY <1>1 DEF Init
  <2> QED BY <2>1, <2>2, <2>3, <2>4, <2>5, InitQueue, TypeParts DEF DataType
<1>3. CallInv
  BY <1>1, StackFacts DEF CallInv, CloseLabel, StopLabel, DelLabel
<1>4. TaskInv
  BY <1>1 DEF Init, TaskInv
<1>5. LockInv
  BY <1>1, StackFacts, URLAssumption DEF LockInv, Thread
<1>6. DeleteInv /\ AbortInv
  BY <1>1 DEF DeleteInv, AbortInv
<1>7. PendingInv
  BY <1>1, InitQueue DEF PendingInv
<1>8. RendererInv
  BY InitQueue DEF RendererInv
<1>9. StatusInv
  BY <1>1, InitQueue, StackFacts DEF StatusInv
<1>10. ReportInv
  BY <1>1, InitQueue DEF ReportInv
<1> QED BY <1>2, <1>3, <1>4, <1>5, <1>6, <1>7, <1>8, <1>9, <1>10 DEF EngineInv, BaseInv

(* Every step keeps the types, the calls and the tasks. *)
LEMMA BaseStep ==
  ASSUME BaseInv, Next
  PROVE  BaseInv'
<1>1. CASE AppCalls
  BY <1>1, AppCallsType, AppCallsCall, TaskStep DEF BaseInv
<1>2. CASE AppLocks
  BY <1>2, AppLocksType, AppLocksCall, TaskStep DEF BaseInv
<1>3. CASE AppContinues
  BY <1>3, AppContinuesType, AppContinuesCall, TaskStep DEF BaseInv
<1>4. CASE Work
  BY <1>4, WorkType, OthersCall, TaskStep DEF BaseInv
<1>5. CASE Message
  BY <1>5, MessageType, OthersCall, TaskStep DEF BaseInv
<1>6. CASE \E r \in Stream : ReachesEOS(r)
  BY <1>6, RestType, OthersCall, TaskStep DEF BaseInv
<1>7. CASE Deleted
  BY <1>7, RestType, TaskStep DEF BaseInv, Deleted, vars, frame, flags, CallInv
<1> QED BY <1>1, <1>2, <1>3, <1>4, <1>5, <1>6, <1>7 DEF Next

(* A stuttering step keeps the invariant. *)
LEMMA Stutter ==
  ASSUME UNCHANGED vars
  PROVE  (EngineInv => EngineInv') /\ (ReportInv => ReportInv')
<1>1. BaseInv => BaseInv'
  BY DEF vars, flags, media, mail, queue, frame, history, BaseInv, TypeOK, CallInv,
     TaskInv, Current
<1>2. LockInv /\ DeleteInv /\ AbortInv => (LockInv /\ DeleteInv /\ AbortInv)'
  BY DEF vars, flags, media, mail, queue, frame, history, LockInv, DeleteInv, AbortInv
<1>3. UNCHANGED <<OpenWaits, OpenRuns, Existing, OpenPath>>
  BY DEF vars, media, queue, frame, OpenWaits, OpenRuns, Existing, OpenPath
<1>4. PendingInv /\ RendererInv => (PendingInv /\ RendererInv)'
  BY <1>3 DEF vars, flags, media, queue, frame, PendingInv, RendererInv
<1>5. StatusInv => StatusInv'
  BY <1>3 DEF vars, media, frame, StatusInv
<1>6. ReportInv => ReportInv'
  BY <1>3 DEF vars, flags, media, queue, frame, history, ReportInv
<1> QED BY <1>1, <1>2, <1>4, <1>5, <1>6 DEF EngineInv

(* The invariant is inductive. *)
LEMMA EngineStep == EngineInv /\ [Next]_vars => EngineInv'
BY Stutter, BaseStep, LockStep, DeleteStep, AbortStep, PendingStep, RendererStep, StatusStep
   DEF EngineInv

(* The invariant holds in every state of the engine. *)
LEMMA EngineInvariant == Spec => []EngineInv
<1>1. Init => EngineInv
  BY InitInv
<1> QED BY <1>1, EngineStep, PTL DEF Spec

(* Every variable of the engine keeps its type. *)
THEOREM TypeCorrect == Spec => []TypeOK
<1>1. EngineInv => TypeOK
  BY DEF EngineInv, BaseInv
<1> QED BY <1>1, EngineInvariant, PTL

(* DoOpen (681, 691) never overwrites a renderer that exists. *)
THEOREM NoRendererLostCorrect == Spec => []NoRendererLost
<1>1. ASSUME EngineInv PROVE NoRendererLost
  <2>1. SUFFICES ASSUME pc["work"] = "open.io", ~Current.same PROVE Existing = {}
    BY DEF NoRendererLost
  <2>2. PICK t \in TQ!Task : running = <<t>>
    BY <1>1, <2>1 DEF EngineInv, BaseInv, TaskInv
  <2>3. Current = t.id /\ IsOpen(t)
    BY <1>1, <2>1, <2>2 DEF EngineInv, BaseInv, TaskInv, Current, IsOpen
  <2> QED BY <1>1, <2>1, <2>2, <2>3 DEF EngineInv, RendererInv
<1> QED BY <1>1, EngineInvariant, PTL

(* The status and the renderers agree whenever m_mtFunc is free, unless the *)
(* end of a source that is not read over http pauses the renderers (2091).  *)
THEOREM StatusTellsRenderersCorrect ==
  ASSUME ~PausedAtEnd
  PROVE  Spec => []StatusTellsRenderers
<1>1. EngineInv => StatusTellsRenderers
  BY DEF EngineInv, StatusInv, StatusTellsRenderers
<1> QED BY <1>1, EngineInvariant, PTL

(* OPEN_DONE and PLAY_COMPLETE are about what was opened last, if Open is   *)
(* not called with the flag of the fast open.                               *)
THEOREM ReportsAreCurrentCorrect ==
  ASSUME NoFastOpen
  PROVE  Spec => []ReportsAreCurrent
<1> DEFINE Inv == EngineInv /\ ReportInv
<1>1. Init => Inv
  BY InitInv
<1>2. Inv /\ [Next]_vars => Inv'
  BY EngineStep, Stutter, ReportStep DEF EngineInv
<1>3. Inv => ReportsAreCurrent
  BY DEF ReportInv, ReportsAreCurrent
<1> QED BY <1>1, <1>2, <1>3, PTL DEF Spec

(* A call that succeeds takes back the abort request it made. *)
THEOREM AbortClearedCorrect == Spec => []AbortCleared
<1>1. EngineInv => AbortCleared
  BY DEF EngineInv, AbortInv, AbortCleared, CloseLabel, StopLabel, DelLabel
<1> QED BY <1>1, EngineInvariant, PTL

(* The destructor frees the engine when no thread is inside it. *)
THEOREM QuietWhenDeletedCorrect == Spec => []QuietWhenDeleted
<1>1. ASSUME EngineInv PROVE QuietWhenDeleted
  <2>1. SUFFICES ASSUME pc["app"] = "deleted"
                 PROVE  pc["work"] = "idle" /\ pc["msg"] = "idle" /\ m_mtFunc = Nil
    BY DEF QuietWhenDeleted
  <2>2. running = <<>> /\ pc["msg"] = "idle"
    BY <1>1, <2>1 DEF EngineInv, DeleteInv
  <2>3. pc["work"] = "idle"
    <3>1. \A t \in TQ!Task : <<t>> # <<>>
      OBVIOUS
    <3> QED BY <1>1, <2>2, <3>1 DEF EngineInv, BaseInv, TaskInv
  <2>4. stack = <<>>
    BY <1>1, <2>1 DEF EngineInv, BaseInv, CallInv, CloseLabel, StopLabel
  <2>5. m_mtFunc \notin Thread
    BY <1>1, <2>1, <2>2, <2>3, <2>4, StackFacts DEF EngineInv, LockInv, Thread
  <2> QED BY <1>1, <2>2, <2>3, <2>5 DEF EngineInv, BaseInv, TypeOK
<1> QED BY <1>1, EngineInvariant, PTL
=============================================================================
