----------------------------- MODULE SourceProof ------------------------------
(***************************************************************************)
(* Proofs about Source, for every file, size of the buffers, and sequence  *)
(* of seeks, flushes and reads that fail.                                  *)
(*                                                                         *)
(*   SourceInv  the types; who holds m_lckSeek and m_lckReader; the        *)
(*              buffers of a type are in a list, in the hands of the read  *)
(*              thread or of a reader, and a buffer that a decoder uses is *)
(*              near the end of m_lstEmpty: TypeOK, Conserved, InUseKept   *)
(*   EndInv     what tells the end agrees with where the parser is:        *)
(*              FinishIsEnd, unless SetPos(0) led the parser astray        *)
(*   AudioInv   what was read, what is buffered and what the parser reads  *)
(*              next follow each other: AudioContinuous                    *)
(*   VideoInv   the same for the video, whose gaps end with a key frame:   *)
(*              VideoDecodable                                             *)
(*                                                                         *)
(* BuffMngProof proves what the operators of BuffMng do to the lists.      *)
(***************************************************************************)
EXTENDS Source, BuffMngProof

(* The locks, and what a pass of the read thread knows. *)
LockInv ==
  /\ worker.pc # "idle" => m_lckSeek = "worker"
  /\ engine.pc \in {"base", "parser"} => m_lckSeek = "engine"
  /\ \A t \in Type : /\ reader[t].pc # "idle" => m_lckReader = t
                     /\ reader[t].pc = "idle" => reader[t].rc = "none"
  /\ worker.pc \in {"parse", "fetch"} => m_nMediaType \in Type
  /\ worker.pc = "fetch" /\ worker.f.flag # "head" => next[m_nMediaType] < N

(* TypeOK, in parts: most steps are about one. *)
FlagsOK ==
  /\ m_bEO \in [Type -> BOOLEAN] /\ m_bNewPos \in [Type -> BOOLEAN]
  /\ m_bNeedBuffing \in BOOLEAN /\ m_bReadVideoHead \in BOOLEAN
  /\ ended \in [Type -> BOOLEAN] /\ cut \in [Type -> BOOLEAN]
  /\ astray \in BOOLEAN /\ crashed \in BOOLEAN

WorkerOK ==
  worker \in [pc : {"idle", "parse", "fetch", "end"},
              f : Frame \cup {Null}, again : BOOLEAN, used : BOOLEAN]
ReaderOK ==
  reader \in [Type -> [pc : {"idle", "read", "eo", "wait", "got", "end"},
                       rc : {"none", "frame", "retry", "finish", "crash"},
                       f : Frame \cup {Null}, other : BOOLEAN]]
EngineOK ==
  /\ engine \in [pc : {"idle", "lock", "base", "parser"}, pos : Nat]
  /\ m_nMediaType \in Type \cup {"none"}
  /\ m_lckSeek \in {"worker", "engine", "none"} /\ m_lckReader \in Type \cup {"none"}

DataOK ==
  /\ m_llSrcSeekPos \in Nat /\ m_nBuffRead \in 0..(BuffReads + 1)
  /\ next \in [Type -> 0..N] /\ m_nHadReadVideo \in 0..4
  /\ seeks \in 0..MaxSeek /\ failed \in 0..MaxFails
  /\ fails \in [Type -> 0..nKeepFrames] /\ last \in [Type -> Nat \cup {-1}]
  /\ jump \in [Type -> {"no", "seek", "flush"}]

LEMMA TypeParts == TypeOK <=> BuffTypeOK /\ FlagsOK /\ WorkerOK /\ ReaderOK /\ EngineOK /\ DataOK
BY DEF TypeOK, FlagsOK, WorkerOK, ReaderOK, EngineOK, DataOK

LEMMA TargetKey ==
  ASSUME NEW p \in Nat
  PROVE  Target(p) \in 0..N /\ Target(p) \in Key \cup {N}
<1> DEFINE keys == {k \in Key : k < p}
<1>1. keys \subseteq 0..(N - 1) /\ N \in Nat \ {0}
  BY FileAssumption
<1>2. keys # {} => LastOf(keys) \in keys
  <2> HIDE DEF keys
  <2>1. N - 1 \in Nat
    BY <1>1
  <2> QED BY <1>1, <2>1, LastOfPositions
<1>3. KeyBefore(p) = IF keys = {} THEN 0 ELSE LastOf(keys)
  BY DEF KeyBefore
<1> HIDE DEF keys
<1>4. KeyBefore(p) \in 0..N /\ KeyBefore(p) \in Key
  <2>1. N \in Nat /\ N >= 1 /\ \A k \in keys : k \in 0..(N - 1)
    BY <1>1
  <2>2. KeyBefore(p) = 0 \/ KeyBefore(p) \in keys
    BY <1>2, <1>3
  <2>3. keys \subseteq Key /\ 0 \in Key
    BY FileAssumption DEF keys
  <2> QED BY <2>1, <2>2, <2>3
<1> QED BY <1>1, <1>4 DEF Target

(* The steps, by what they have in common. *)
LEMMA NextSteps ==
  ASSUME Next
  PROVE  \/ BeginPass /\ UNCHANGED <<failed, crashed>>
         \/ ParseEnd /\ UNCHANGED <<failed, crashed>>
         \/ Parse /\ UNCHANGED <<failed, crashed>>
         \/ SendFrame /\ UNCHANGED <<failed, crashed>>
         \/ SetEOS /\ UNCHANGED <<failed, crashed>>
         \/ FetchRetry /\ UNCHANGED crashed
         \/ FetchEnd /\ UNCHANGED crashed
         \/ \E t \in Type : \/ BeginRead(t) /\ UNCHANGED <<failed, crashed>>
                            \/ AskEnd(t) /\ UNCHANGED <<failed, crashed>>
                            \/ StopWaiting(t) /\ UNCHANGED <<failed, crashed>>
                            \/ Deliver(t) /\ UNCHANGED <<failed, crashed>>
                            \/ EndRead(t) /\ UNCHANGED <<failed, crashed>>
                            \/ ReadBuff(t) /\ UNCHANGED failed
         \/ LockSeek /\ UNCHANGED <<failed, crashed>>
         \/ BaseSetPos /\ UNCHANGED <<failed, crashed>>
         \/ ParserSetPos /\ UNCHANGED <<failed, crashed>>
         \/ ParserSetPosFails /\ UNCHANGED <<failed, crashed>>
         \/ \E p \in Pos : CallSetPos(p) /\ UNCHANGED <<failed, crashed>>
         \/ Flush /\ UNCHANGED <<failed, crashed>>
BY DEF Next, Worker, Reading, Seeking, Calls

LEMMA FlagsStep ==
  ASSUME FlagsOK, Next
  PROVE  FlagsOK'
<1> USE DEF FlagsOK
<1>1. CASE \/ BeginPass /\ UNCHANGED <<failed, crashed>>
           \/ Parse /\ UNCHANGED <<failed, crashed>>
           \/ SetEOS /\ UNCHANGED <<failed, crashed>>
           \/ FetchRetry /\ UNCHANGED crashed
           \/ LockSeek /\ UNCHANGED <<failed, crashed>>
           \/ \E p \in Pos : CallSetPos(p) /\ UNCHANGED <<failed, crashed>>
           \/ Flush /\ UNCHANGED <<failed, crashed>>
           \/ \E t \in Type : StopWaiting(t) /\ UNCHANGED <<failed, crashed>>
  BY <1>1 DEF BeginPass, Parse, SetEOS, FetchRetry, FetchFailed, LockSeek, CallSetPos, Flush, StopWaiting,
       source, parser, ghosts
<1>2. CASE ParseEnd /\ UNCHANGED <<failed, crashed>>
  BY <1>2 DEF ParseEnd, AtEnd, source, parser, ghosts
<1>3. CASE FetchEnd /\ UNCHANGED crashed
  BY <1>3 DEF FetchEnd, FetchFailed, AtEnd, parser
<1>4. CASE SendFrame /\ UNCHANGED <<failed, crashed>>
  BY <1>4, Zenon DEF SendFrame, source, ghosts
<1>5. ASSUME NEW t \in Type,
             \/ BeginRead(t) /\ UNCHANGED <<failed, crashed>>
             \/ AskEnd(t) /\ UNCHANGED <<failed, crashed>>
             \/ Deliver(t) /\ UNCHANGED <<failed, crashed>>
      PROVE  FlagsOK'
  BY <1>5 DEF BeginRead, AskEnd, Deliver, source, parser, ghosts
<1>6. ASSUME NEW t \in Type, EndRead(t) /\ UNCHANGED <<failed, crashed>>
      PROVE  FlagsOK'
  BY <1>6 DEF EndRead, source, parser, ghosts
<1>7. ASSUME NEW t \in Type, ReadBuff(t)
      PROVE  FlagsOK'
  BY <1>7 DEF ReadBuff, source, parser, ghosts
<1>8. CASE BaseSetPos /\ UNCHANGED <<failed, crashed>>
  BY <1>8 DEF BaseSetPos, Rewind, source, parser, ghosts
<1>9. CASE ParserSetPos /\ UNCHANGED <<failed, crashed>>
  BY <1>9 DEF ParserSetPos, source, ghosts
<1>10. CASE ParserSetPosFails /\ UNCHANGED <<failed, crashed>>
  BY <1>10 DEF ParserSetPosFails, source, parser, ghosts
<1> QED BY <1>1, <1>2, <1>3, <1>4, <1>5, <1>6, <1>7, <1>8, <1>9, <1>10, NextSteps

LEMMA WorkerStep ==
  ASSUME WorkerOK, DataOK, LockInv, Next
  PROVE  WorkerOK'
<1> USE DEF WorkerOK
<1> DEFINE W == [pc : {"idle", "parse", "fetch", "end"},
                 f : Frame \cup {Null}, again : BOOLEAN, used : BOOLEAN]
<1>0. Idle \in W
  BY DEF Idle
<1>01. ASSUME NEW w \in W, NEW pc \in {"idle", "parse", "fetch", "end"}
       PROVE  [w EXCEPT !.pc = pc] \in W /\ [w EXCEPT !.pc = pc, !.again = TRUE] \in W
  OBVIOUS
<1>02. /\ [Idle EXCEPT !.pc = "parse"] \in W /\ [Idle EXCEPT !.pc = "end"] \in W
       /\ [Idle EXCEPT !.pc = "parse", !.again = TRUE] \in W
  BY <1>0, <1>01
<1>1. CASE \/ SetEOS /\ UNCHANGED <<failed, crashed>>
           \/ FetchRetry /\ UNCHANGED crashed
           \/ BeginPass /\ UNCHANGED <<failed, crashed>>
           \/ SendFrame /\ UNCHANGED <<failed, crashed>>
  <2>1. worker' \in {Idle, [Idle EXCEPT !.pc = "parse"], [Idle EXCEPT !.pc = "end"]}
    BY <1>1 DEF BeginPass, SetEOS, FetchRetry, SendFrame, PassEnds
  <2> QED BY <1>0, <1>02, <2>1
<1>2. CASE \/ ParseEnd /\ UNCHANGED <<failed, crashed>>
           \/ FetchEnd /\ UNCHANGED crashed
  <2>1. worker' \in {Idle, [Idle EXCEPT !.pc = "parse", !.again = TRUE],
                     [Idle EXCEPT !.pc = "end"]}
    BY <1>2 DEF ParseEnd, FetchEnd, SecondTry, PassEnds
  <2> QED BY <1>0, <1>02, <2>1
<1>3. CASE Parse /\ UNCHANGED <<failed, crashed>>
  <2> DEFINE t == m_nMediaType
  <2>1. PICK b \in {"free", "used"} :
         worker' = [worker EXCEPT !.pc = "fetch", !.used = (b = "used" /\ fails[t] < nKeepFrames),
            !.f = [time |-> IF HeadIsNext THEN 0 ELSE next[t],
                   flag |-> IF HeadIsNext THEN "head"
                            ELSE IF t = "video" /\ next[t] \in Key THEN "key" ELSE "delta"]]
    BY <1>3 DEF Parse
  <2>2. HeadIsNext \/ next[t] < N
    BY <1>3 DEF Parse
  <2> DEFINE f == [time |-> IF HeadIsNext THEN 0 ELSE next[t],
                   flag |-> IF HeadIsNext THEN "head"
                            ELSE IF t = "video" /\ next[t] \in Key THEN "key" ELSE "delta"]
             u == b = "used" /\ fails[t] < nKeepFrames
  <2>3. HeadIsNext \/ t \in Type => f.time \in Nat
    BY FileAssumption DEF DataOK
  <2>4. f.flag \in Flag /\ u \in BOOLEAN
    BY DEF Flag
  <2>5. worker.pc = "parse" => t \in Type
    BY DEF LockInv
  <2>6. f \in Frame
    BY <1>3, <2>3, <2>4, <2>5 DEF Frame, Parse
  <2>7. worker' = [worker EXCEPT !.pc = "fetch", !.used = u, !.f = f]
    BY <2>1
  <2> HIDE DEF f, u
  <2> QED BY <2>4, <2>6, <2>7
<1>4. CASE \/ \E t \in Type : \/ BeginRead(t) /\ UNCHANGED <<failed, crashed>>
                              \/ AskEnd(t) /\ UNCHANGED <<failed, crashed>>
                              \/ StopWaiting(t) /\ UNCHANGED <<failed, crashed>>
                              \/ Deliver(t) /\ UNCHANGED <<failed, crashed>>
                              \/ EndRead(t) /\ UNCHANGED <<failed, crashed>>
                              \/ ReadBuff(t) /\ UNCHANGED failed
           \/ LockSeek /\ UNCHANGED <<failed, crashed>>
           \/ BaseSetPos /\ UNCHANGED <<failed, crashed>>
           \/ ParserSetPos /\ UNCHANGED <<failed, crashed>>
           \/ ParserSetPosFails /\ UNCHANGED <<failed, crashed>>
           \/ \E p \in Pos : CallSetPos(p) /\ UNCHANGED <<failed, crashed>>
           \/ Flush /\ UNCHANGED <<failed, crashed>>
  BY <1>4 DEF BeginRead, AskEnd, StopWaiting, Deliver, EndRead, ReadBuff, LockSeek, BaseSetPos,
       ParserSetPos, ParserSetPosFails, CallSetPos, Flush, pass
<1> QED BY <1>1, <1>2, <1>3, <1>4, NextSteps

LEMMA ReaderStep ==
  ASSUME BuffTypeOK, ReaderOK, Next
  PROVE  ReaderOK'
<1> USE DEF ReaderOK
<1>1. CASE \/ BeginPass /\ UNCHANGED <<failed, crashed>>
           \/ ParseEnd /\ UNCHANGED <<failed, crashed>>
           \/ Parse /\ UNCHANGED <<failed, crashed>>
           \/ SendFrame /\ UNCHANGED <<failed, crashed>>
           \/ SetEOS /\ UNCHANGED <<failed, crashed>>
           \/ FetchRetry /\ UNCHANGED crashed
           \/ FetchEnd /\ UNCHANGED crashed
           \/ LockSeek /\ UNCHANGED <<failed, crashed>>
           \/ BaseSetPos /\ UNCHANGED <<failed, crashed>>
           \/ ParserSetPos /\ UNCHANGED <<failed, crashed>>
           \/ ParserSetPosFails /\ UNCHANGED <<failed, crashed>>
           \/ \E p \in Pos : CallSetPos(p) /\ UNCHANGED <<failed, crashed>>
           \/ Flush /\ UNCHANGED <<failed, crashed>>
  BY <1>1 DEF BeginPass, ParseEnd, Parse, SendFrame, SetEOS, FetchRetry, FetchEnd, FetchFailed,
       LockSeek, BaseSetPos, ParserSetPos, ParserSetPosFails, CallSetPos, Flush
<1> DEFINE ReaderType == [pc : {"idle", "read", "eo", "wait", "got", "end"},
                           rc : {"none", "frame", "retry", "finish", "crash"},
                           f : Frame \cup {Null}, other : BOOLEAN]
<1>0. ASSUME NEW t \in Type, Returns(t)
      PROVE  ReaderOK'
  <2>1. Reader("idle", "none", Null, FALSE) \in ReaderType
    BY DEF Reader
  <2> QED BY <1>0, <2>1 DEF Returns
<1>01. ASSUME NEW t \in Type, NEW pc \in {"wait", "end"}, reader' = Pc(t, pc)
      PROVE  ReaderOK'
  BY <1>01 DEF Pc
<1>2. ASSUME NEW t \in Type,
             \/ AskEnd(t) /\ UNCHANGED <<failed, crashed>>
             \/ StopWaiting(t) /\ UNCHANGED <<failed, crashed>>
             \/ EndRead(t) /\ UNCHANGED <<failed, crashed>>
      PROVE  ReaderOK'
  <2>1. \/ Returns(t) \/ reader' = Pc(t, "wait") \/ reader' = Pc(t, "end")
    BY <1>2 DEF AskEnd, StopWaiting, EndRead
  <2> QED BY <1>0, <1>01, <2>1
<1>02. ASSUME NEW t \in Type, BeginRead(t)
      PROVE  ReaderOK'
  <2> DEFINE o == BuffTime(Other(t)) >= ReadyTime
  <2>1. reader' = [reader EXCEPT ![t] = Reader("read", "none", Null, o)] /\ o \in BOOLEAN
    BY <1>02 DEF BeginRead
  <2> HIDE DEF o
  <2>2. Reader("read", "none", Null, o) \in ReaderType
    BY <2>1 DEF Reader
  <2> QED BY <2>1, <2>2
<1>03. ASSUME NEW t \in Type, Deliver(t)
      PROVE  ReaderOK'
  <2>1. Reader("end", "none", Null, FALSE) \in ReaderType
    BY DEF Reader
  <2> QED BY <1>03, <2>1 DEF Deliver
<1>3. ASSUME NEW t \in Type, ReadBuff(t)
      PROVE  ReaderOK'
  <2>1. PICK pos \in Wanted(t) :
         LET r == ReadResult(t, pos) IN
         IF r.rc = "finish" /\ reader[t].pc = "read"
         THEN Returns(t)
         ELSE reader' = [reader EXCEPT ![t].f = r.f, ![t].rc = r.rc,
                    ![t].pc = IF r.rc = "frame" THEN "got"
                              ELSE IF @ = "read" THEN "eo" ELSE @]
    BY <1>3 DEF ReadBuff
  <2>2. pos \in Nat
    BY FileAssumption DEF Wanted
  <2> DEFINE r == ReadResult(t, pos)
  <2>3. r.rc \in {"frame", "retry", "finish", "crash"} /\ r.f \in Frame
    BY <2>2, ReadResultType
  <2>4. \/ Returns(t)
        \/ reader' = [reader EXCEPT ![t].f = r.f, ![t].rc = r.rc,
                    ![t].pc = IF r.rc = "frame" THEN "got"
                              ELSE IF @ = "read" THEN "eo" ELSE @]
    BY <2>1
  <2> HIDE DEF r
  <2>5. CASE reader' = [reader EXCEPT ![t].f = r.f, ![t].rc = r.rc,
                    ![t].pc = IF r.rc = "frame" THEN "got"
                              ELSE IF @ = "read" THEN "eo" ELSE @]
    <3> DEFINE q == reader[t]
               pc == IF r.rc = "frame" THEN "got" ELSE IF q.pc = "read" THEN "eo" ELSE q.pc
               s  == [q EXCEPT !.f = r.f, !.rc = r.rc, !.pc = pc]
    <3>1. q \in ReaderType /\ pc \in {"idle", "read", "eo", "wait", "got", "end"}
      OBVIOUS
    <3>2. reader' = [reader EXCEPT ![t] = s]
      BY <2>5
    <3> HIDE DEF q, pc
    <3>3. s \in ReaderType
      BY <2>3, <3>1
    <3> HIDE DEF s
    <3> QED BY <3>2, <3>3
  <2> QED BY <1>0, <2>4, <2>5
<1> QED BY <1>02, <1>03, <1>1, <1>2, <1>3, NextSteps

LEMMA EngineStep ==
  ASSUME EngineOK, Next
  PROVE  EngineOK'
<1> USE DEF EngineOK
<1>1. CASE \/ BeginPass /\ UNCHANGED <<failed, crashed>>
           \/ ParseEnd /\ UNCHANGED <<failed, crashed>>
           \/ Parse /\ UNCHANGED <<failed, crashed>>
           \/ SendFrame /\ UNCHANGED <<failed, crashed>>
           \/ SetEOS /\ UNCHANGED <<failed, crashed>>
           \/ FetchRetry /\ UNCHANGED crashed
           \/ FetchEnd /\ UNCHANGED crashed
  BY <1>1 DEF BeginPass, ParseEnd, Parse, SendFrame, SetEOS, FetchRetry, FetchEnd, FetchFailed,
       SecondTry, PassEnds, Behindhand, Type
<1>2. ASSUME NEW t \in Type,
             \/ BeginRead(t) /\ UNCHANGED <<failed, crashed>>
             \/ AskEnd(t) /\ UNCHANGED <<failed, crashed>>
             \/ StopWaiting(t) /\ UNCHANGED <<failed, crashed>>
             \/ Deliver(t) /\ UNCHANGED <<failed, crashed>>
             \/ EndRead(t) /\ UNCHANGED <<failed, crashed>>
             \/ ReadBuff(t) /\ UNCHANGED failed
      PROVE  EngineOK'
  BY <1>2 DEF BeginRead, AskEnd, StopWaiting, Deliver, EndRead, ReadBuff, Returns, pass
<1>3. CASE \/ LockSeek /\ UNCHANGED <<failed, crashed>>
           \/ BaseSetPos /\ UNCHANGED <<failed, crashed>>
           \/ ParserSetPos /\ UNCHANGED <<failed, crashed>>
           \/ ParserSetPosFails /\ UNCHANGED <<failed, crashed>>
           \/ \E p \in Pos : CallSetPos(p) /\ UNCHANGED <<failed, crashed>>
           \/ Flush /\ UNCHANGED <<failed, crashed>>
  BY <1>3, WaitAssumption DEF LockSeek, BaseSetPos, ParserSetPos, ParserSetPosFails, CallSetPos, Flush,
       SetPosReturned, Engine, pass
<1> QED BY <1>1, <1>2, <1>3, NextSteps

LEMMA DataStep ==
  ASSUME TypeOK, LockInv, Next
  PROVE  DataOK'
<1>0. DataOK /\ EngineOK /\ ReaderOK /\ BuffTypeOK
  BY TypeParts
<1>a. N \in Nat /\ BuffReads \in Nat /\ MaxSeek \in Nat /\ MaxFails \in Nat /\ nKeepFrames \in Nat
  BY FileAssumption, TimeAssumption, KeepAssumption
<1> USE DEF DataOK
<1>1. CASE \/ BeginPass /\ UNCHANGED <<failed, crashed>>
           \/ ParseEnd /\ UNCHANGED <<failed, crashed>>
           \/ Parse /\ UNCHANGED <<failed, crashed>>
           \/ SetEOS /\ UNCHANGED <<failed, crashed>>
           \/ LockSeek /\ UNCHANGED <<failed, crashed>>
           \/ ParserSetPosFails /\ UNCHANGED <<failed, crashed>>
           \/ \E t \in Type : \/ BeginRead(t) /\ UNCHANGED <<failed, crashed>>
                              \/ AskEnd(t) /\ UNCHANGED <<failed, crashed>>
                              \/ StopWaiting(t) /\ UNCHANGED <<failed, crashed>>
                              \/ EndRead(t) /\ UNCHANGED <<failed, crashed>>
  BY <1>0, <1>1 DEF BeginPass, ParseEnd, Parse, SetEOS, LockSeek, ParserSetPosFails, BeginRead, AskEnd,
       StopWaiting, EndRead, source, parser, pass, ghosts
<1>2. CASE SendFrame /\ UNCHANGED <<failed, crashed>>
  <2> DEFINE t == m_nMediaType
             h == worker.f.flag = "head"
  <2>1. /\ m_llSrcSeekPos' = m_llSrcSeekPos /\ m_nBuffRead' = m_nBuffRead /\ seeks' = seeks
        /\ failed' = failed /\ fails' = fails /\ last' = last /\ jump' = jump
    BY <1>2 DEF SendFrame, source, ghosts
  <2>2. next' = [next EXCEPT ![t] = IF h THEN @ ELSE @ + 1] /\ worker.pc = "fetch"
    BY <1>2 DEF SendFrame
  <2>3. t \in Type /\ (~h => next[t] < N)
    BY <2>2 DEF LockInv
  <2>4. next[t] \in 0..N
    BY <1>0, <2>3
  <2>5. (IF h THEN next[t] ELSE next[t] + 1) \in 0..N
    BY <1>a, <2>3, <2>4
  <2>6. next' \in [Type -> 0..N]
    BY <1>0, <2>2, <2>3, <2>5
  <2>7. m_nHadReadVideo' \in 0..4
    BY <1>0, <1>2 DEF SendFrame
  <2> QED BY <1>0, <2>1, <2>6, <2>7
<1>3. CASE \/ FetchRetry /\ UNCHANGED crashed
           \/ FetchEnd /\ UNCHANGED crashed
  <2>1. /\ m_llSrcSeekPos' = m_llSrcSeekPos /\ m_nBuffRead' = m_nBuffRead /\ seeks' = seeks
        /\ last' = last /\ jump' = jump /\ next' = next /\ m_nHadReadVideo' = m_nHadReadVideo
        /\ failed < MaxFails /\ failed' = failed + 1
        /\ fails' = [fails EXCEPT ![m_nMediaType] = IF @ < nKeepFrames THEN @ + 1 ELSE @]
    BY <1>3 DEF FetchRetry, FetchEnd, FetchFailed, parser
  <2>2. failed' \in 0..MaxFails
    BY <1>0, <1>a, <2>1
  <2>3. fails' \in [Type -> 0..nKeepFrames]
    <3>1. \A n \in 0..nKeepFrames : (IF n < nKeepFrames THEN n + 1 ELSE n) \in 0..nKeepFrames
      BY <1>a
    <3> QED BY <1>0, <2>1, <3>1
  <2> QED BY <1>0, <2>1, <2>2, <2>3
<1>4. ASSUME NEW t \in Type, Deliver(t) /\ UNCHANGED <<failed, crashed>>
      PROVE  DataOK'
  <2>1. /\ m_llSrcSeekPos' = m_llSrcSeekPos /\ seeks' = seeks /\ failed' = failed
        /\ last' = last /\ jump' = jump /\ next' = next /\ m_nHadReadVideo' = m_nHadReadVideo
        /\ fails' = [fails EXCEPT ![t] = 0]
        /\ m_nBuffRead' = IF m_nBuffRead <= BuffReads THEN m_nBuffRead + 1 ELSE m_nBuffRead
    BY <1>4 DEF Deliver, parser, pass
  <2>2. m_nBuffRead' \in 0..(BuffReads + 1)
    BY <1>0, <1>a, <2>1
  <2>3. fails' \in [Type -> 0..nKeepFrames]
    BY <1>0, <1>a, <2>1
  <2> QED BY <1>0, <2>1, <2>2, <2>3
<1>5. ASSUME NEW t \in Type, ReadBuff(t) /\ UNCHANGED failed
      PROVE  DataOK'
  <2>1. /\ m_llSrcSeekPos' = m_llSrcSeekPos /\ m_nBuffRead' = m_nBuffRead /\ seeks' = seeks
        /\ failed' = failed /\ fails' = fails /\ next' = next /\ m_nHadReadVideo' = m_nHadReadVideo
    BY <1>5 DEF ReadBuff, source, parser, pass
  <2>2. PICK pos \in Wanted(t) :
         LET r == ReadResult(t, pos) IN
           /\ last' = [last EXCEPT ![t] = IF r.rc # "frame" \/ r.f.flag = "head" THEN @
                                          ELSE r.f.time]
           /\ jump' = [jump EXCEPT ![t] = IF r.rc = "frame" THEN "no" ELSE @]
    BY <1>5 DEF ReadBuff
  <2> DEFINE r == ReadResult(t, pos)
  <2>3. r.f.time \in Nat
    <3>1. pos \in Nat
      BY FileAssumption DEF Wanted
    <3>2. r.f \in Frame
      BY <1>0, <3>1, ReadResultType
    <3> HIDE DEF r
    <3> QED BY <3>2 DEF Frame
  <2>4. /\ last' = [last EXCEPT ![t] = IF r.rc # "frame" \/ r.f.flag = "head" THEN @
                                       ELSE r.f.time]
        /\ jump' = [jump EXCEPT ![t] = IF r.rc = "frame" THEN "no" ELSE @]
    BY <2>2
  <2> HIDE DEF r
  <2>5. last' \in [Type -> Nat \cup {-1}] /\ jump' \in [Type -> {"no", "seek", "flush"}]
    BY <1>0, <2>3, <2>4
  <2> QED BY <1>0, <2>1, <2>5
<1>6. CASE BaseSetPos /\ UNCHANGED <<failed, crashed>>
  BY <1>0, <1>a, <1>6 DEF BaseSetPos, Rewind, source, parser, EngineOK
<1>7. CASE ParserSetPos /\ UNCHANGED <<failed, crashed>>
  <2>1. /\ m_llSrcSeekPos' = m_llSrcSeekPos /\ m_nBuffRead' = m_nBuffRead /\ seeks' = seeks
        /\ failed' = failed /\ fails' = fails /\ m_nHadReadVideo' = m_nHadReadVideo
        /\ last' = last /\ jump' = jump
        /\ next' = [t \in Type |-> Target(engine.pos)]
    BY <1>7 DEF ParserSetPos, source, ghosts
  <2>2. engine.pos \in Nat
    BY <1>0 DEF EngineOK
  <2>3. Target(engine.pos) \in 0..N
    BY <2>2, TargetKey
  <2> QED BY <1>0, <2>1, <2>3
<1>8. CASE \/ \E p \in Pos : CallSetPos(p) /\ UNCHANGED <<failed, crashed>>
           \/ Flush /\ UNCHANGED <<failed, crashed>>
  BY <1>0, <1>a, <1>8 DEF CallSetPos, Flush, source, parser, pass, ghosts
<1> QED BY <1>1, <1>2, <1>3, <1>4, <1>5, <1>6, <1>7, <1>8, NextSteps

LEMMA IdlePc ==
  /\ Idle.pc = "idle" /\ Idle.used = FALSE
  /\ \A pc \in {"parse", "end"} :
       LET w == [Idle EXCEPT !.pc = pc] IN w.pc = pc /\ w.used = FALSE
  /\ LET w == [Idle EXCEPT !.pc = "parse", !.again = TRUE] IN w.pc = "parse" /\ w.used = FALSE
<1>1. LET w == [Idle EXCEPT !.pc = "parse", !.again = TRUE] IN w.pc = "parse"
  BY DEF Idle
<1>2. LET w == [Idle EXCEPT !.pc = "parse", !.again = TRUE] IN w.used = FALSE
  BY DEF Idle
<1>3. Idle.pc = "idle" /\ Idle.used = FALSE
  BY DEF Idle
<1>4. ASSUME NEW pc \in {"parse", "end"}
      PROVE  LET w == [Idle EXCEPT !.pc = pc] IN w.pc = pc /\ w.used = FALSE
  BY DEF Idle
<1> QED BY <1>1, <1>2, <1>3, <1>4

(* The locks: a step that needs one is taken by who holds it. *)
LEMMA LockStep ==
  ASSUME TypeOK, LockInv, Next
  PROVE  LockInv'
<1>0. DataOK /\ WorkerOK /\ EngineOK /\ ReaderOK /\ BuffTypeOK
  BY TypeParts
<1> USE DEF LockInv
<1>1. CASE BeginPass /\ UNCHANGED <<failed, crashed>>
  <2>1. /\ worker'.pc = "parse" /\ m_lckSeek = "none" /\ m_lckSeek' = "worker"
        /\ engine' = engine /\ reader' = reader /\ m_lckReader' = m_lckReader
    BY <1>1 DEF BeginPass, Idle
  <2>2. m_nMediaType' \in Type
    BY <1>0, <1>1 DEF BeginPass, Behindhand, Type, EngineOK
  <2> QED BY <2>1, <2>2
<1>2. CASE \/ ParseEnd /\ UNCHANGED <<failed, crashed>>
           \/ FetchEnd /\ UNCHANGED crashed
  <2>1. /\ engine' = engine /\ reader' = reader /\ m_lckReader' = m_lckReader
        /\ m_lckSeek = "worker"
    BY <1>2 DEF ParseEnd, FetchEnd, FetchFailed
  <2>2. \/ worker' = Idle /\ m_lckSeek' = "none"
        \/ worker' = [Idle EXCEPT !.pc = "end"] /\ m_lckSeek' = m_lckSeek
        \/ /\ worker' = [Idle EXCEPT !.pc = "parse", !.again = TRUE] /\ m_lckSeek' = m_lckSeek
           /\ m_nMediaType' \in Type
    BY <1>2 DEF ParseEnd, FetchEnd, SecondTry, PassEnds, Type
  <2>3. \/ worker'.pc = "idle" /\ m_lckSeek' = "none"
        \/ worker'.pc = "end" /\ m_lckSeek' = "worker"
        \/ worker'.pc = "parse" /\ m_lckSeek' = "worker" /\ m_nMediaType' \in Type
    BY <2>1, <2>2, IdlePc
  <2> QED BY <2>1, <2>3
<1>3. CASE Parse /\ UNCHANGED <<failed, crashed>>
  BY <1>0, <1>3 DEF Parse, parser, WorkerOK
<1>4. CASE \/ SendFrame /\ UNCHANGED <<failed, crashed>>
           \/ SetEOS /\ UNCHANGED <<failed, crashed>>
           \/ FetchRetry /\ UNCHANGED crashed
  BY <1>0, <1>4 DEF SendFrame, SetEOS, FetchRetry, FetchFailed, PassEnds, Idle, parser
<1>5. ASSUME NEW t \in Type,
             \/ BeginRead(t) /\ UNCHANGED <<failed, crashed>>
             \/ AskEnd(t) /\ UNCHANGED <<failed, crashed>>
             \/ StopWaiting(t) /\ UNCHANGED <<failed, crashed>>
             \/ Deliver(t) /\ UNCHANGED <<failed, crashed>>
             \/ EndRead(t) /\ UNCHANGED <<failed, crashed>>
      PROVE  LockInv'
  <2>1. /\ worker' = worker /\ m_lckSeek' = m_lckSeek /\ engine' = engine
        /\ m_nMediaType' = m_nMediaType /\ next' = next
    BY <1>5 DEF BeginRead, AskEnd, StopWaiting, Deliver, EndRead, parser, pass
  <2>2. \/ Returns(t)
        \/ /\ m_lckReader' = t
           /\ \E o : reader' = [reader EXCEPT ![t] = Reader("read", "none", Null, o)]
        \/ /\ m_lckReader' = m_lckReader /\ reader[t].pc # "idle"
           /\ \/ reader' = Pc(t, "wait") \/ reader' = Pc(t, "end")
              \/ reader' = [reader EXCEPT ![t] = Reader("end", "none", Null, FALSE)]
    BY <1>5 DEF BeginRead, AskEnd, StopWaiting, Deliver, EndRead
  <2>3. \A x \in Type : x # t => reader'[x] = reader[x] /\ reader[x].pc = "idle"
    <3>1. m_lckReader \in {t, "none"}
      BY <1>0, <1>5, <2>2 DEF BeginRead, AskEnd, StopWaiting, Deliver, EndRead, ReaderOK
    <3>2. \A x \in Type : x # t => reader'[x] = reader[x]
      BY <1>0, <2>2 DEF Returns, Pc, ReaderOK
    <3>3. "none" \notin Type
      BY DEF Type
    <3> QED BY <3>1, <3>2, <3>3
  <2>4. \/ reader'[t].pc = "idle" /\ reader'[t].rc = "none"
        \/ reader'[t].pc \in {"read", "wait", "end"} /\ m_lckReader' = t
    BY <1>0, <2>2 DEF Returns, Pc, Reader, ReaderOK
  <2> QED BY <2>1, <2>3, <2>4
<1>6. ASSUME NEW t \in Type, ReadBuff(t) /\ UNCHANGED failed
      PROVE  LockInv'
  BY <1>0, <1>6 DEF ReadBuff, Returns, Reader, parser, pass, ReaderOK
<1>7. CASE \/ LockSeek /\ UNCHANGED <<failed, crashed>>
           \/ BaseSetPos /\ UNCHANGED <<failed, crashed>>
           \/ ParserSetPos /\ UNCHANGED <<failed, crashed>>
           \/ ParserSetPosFails /\ UNCHANGED <<failed, crashed>>
           \/ \E p \in Pos : CallSetPos(p) /\ UNCHANGED <<failed, crashed>>
           \/ Flush /\ UNCHANGED <<failed, crashed>>
  BY <1>0, <1>7 DEF LockSeek, BaseSetPos, ParserSetPos, ParserSetPosFails, CallSetPos, Flush,
       SetPosReturned, Engine, parser, pass, EngineOK, WorkerOK
<1> QED BY <1>1, <1>2, <1>3, <1>4, <1>5, <1>6, <1>7, NextSteps

-----------------------------------------------------------------------------
(* The buffers: what a step does to the lists. *)

(* The buffers of a type in the lists, in hand and read are those created. *)
CountInv ==
  \A t \in Type : m_nNewEmptyNum[t] = Len(m_lst[t]) + Len(m_lstEmpty[t]) + InHand(t) + InRead(t)

(* The reader of a type that released its buffer has none in use. *)
KeptInv ==
  /\ ~worker.used
  /\ \A t \in Type : /\ reader[t].pc \in {"read", "eo", "wait", "got"} => AllFree(m_lstEmpty[t])
                     /\ UsedAtEnd(m_lstEmpty[t], fails[t])

BuffInv == BuffTypeOK /\ CountInv /\ KeptInv

(* What all these proofs need. *)
LEMMA Lists ==
  ASSUME BuffTypeOK
  PROVE  /\ m_lst \in [Type -> Seq(Frame)] /\ m_lstEmpty \in [Type -> Seq(EmptyBuffer)]
         /\ m_nNewEmptyNum \in [Type -> Nat]
         /\ \A t \in Type : /\ m_lstEmpty[t] \in Seq(EmptyBuffer)
                            /\ Len(m_lst[t]) \in Nat /\ Len(m_lstEmpty[t]) \in Nat
BY DEF BuffTypeOK, EmptyBuffer

(* Steps that do not move a buffer. *)
LEMMA BuffKept ==
  ASSUME TypeOK, LockInv, BuffInv, Next,
         \/ BeginPass \/ ParseEnd \/ SetEOS \/ LockSeek \/ ParserSetPos \/ ParserSetPosFails
         \/ \E p \in Pos : CallSetPos(p)
         \/ \E t \in Type : AskEnd(t) \/ StopWaiting(t) \/ EndRead(t)
  PROVE  BuffInv'
<1>0. DataOK /\ WorkerOK /\ EngineOK /\ ReaderOK /\ BuffTypeOK /\ FlagsOK'
  BY TypeParts, FlagsStep
<1>1. /\ UNCHANGED <<lists, m_llNextKeyTime, m_llSeekPos, bStarted, bNumRead, m_bFlush, fails>>
      /\ m_bEOS' \in {m_bEOS, TRUE} /\ m_bBuffEO' \in {m_bBuffEO, m_bEO'}
  BY DEF BeginPass, ParseEnd, SetEOS, LockSeek, ParserSetPos, ParserSetPosFails, CallSetPos,
     AskEnd, StopWaiting, EndRead, AtEnd, buffs, param, ghosts
<1>2. BuffTypeOK'
  BY <1>0, <1>1 DEF BuffTypeOK, FlagsOK, lists
<1>3. /\ ~worker'.used
      /\ \/ worker' = worker /\ (m_nMediaType' = m_nMediaType \/ worker.pc = "idle")
         \/ worker.pc # "fetch" /\ worker'.pc # "fetch"
  <2>1. CASE BeginPass \/ ParseEnd \/ SetEOS
    <3>1. /\ worker.pc # "fetch"
          /\ worker' \in {Idle, [Idle EXCEPT !.pc = "parse"], [Idle EXCEPT !.pc = "end"],
                          [Idle EXCEPT !.pc = "parse", !.again = TRUE]}
      BY <2>1 DEF BeginPass, ParseEnd, SetEOS, SecondTry, PassEnds
    <3> QED BY <3>1, IdlePc
  <2>2. CASE ParserSetPos \/ ParserSetPosFails
    BY <2>2 DEF ParserSetPos, ParserSetPosFails, LockInv, pass, BuffInv, KeptInv
  <2>3. CASE \/ LockSeek \/ \E p \in Pos : CallSetPos(p)
             \/ \E t \in Type : AskEnd(t) \/ StopWaiting(t) \/ EndRead(t)
    BY <2>3 DEF LockSeek, CallSetPos, AskEnd, StopWaiting, EndRead, pass, BuffInv, KeptInv
  <2> QED BY <2>1, <2>2, <2>3
<1>4. ASSUME NEW t \in Type
      PROVE  /\ reader'[t].pc = "got" <=> reader[t].pc = "got"
             /\ reader'[t].pc \in {"read", "eo", "wait", "got"} =>
                  reader[t].pc \in {"read", "eo", "wait", "got"}
  <2>1. CASE \E x \in Type : AskEnd(x) \/ StopWaiting(x) \/ EndRead(x)
    <3>1. PICK x \in Type : AskEnd(x) \/ StopWaiting(x) \/ EndRead(x)
      BY <2>1
    <3>2. \/ Returns(x) /\ reader[x].pc \in {"eo", "wait", "end"}
          \/ reader' = Pc(x, "wait") /\ reader[x].pc = "eo"
          \/ reader' = Pc(x, "end") /\ reader[x].pc \in {"eo", "wait"}
      BY <3>1 DEF AskEnd, StopWaiting, EndRead
    <3> QED BY <1>0, <3>2 DEF Returns, Pc, Reader, ReaderOK
  <2>2. CASE ~\E x \in Type : AskEnd(x) \/ StopWaiting(x) \/ EndRead(x)
    <3>1. reader' = reader
      BY <2>2 DEF BeginPass, ParseEnd, SetEOS, LockSeek, ParserSetPos, ParserSetPosFails, CallSetPos
    <3> QED BY <3>1
  <2> QED BY <2>1, <2>2
<1>5. \A t \in Type : InHand(t)' = InHand(t) /\ InRead(t)' = InRead(t)
  BY <1>3, <1>4 DEF InHand, InRead
<1>6. CountInv'
  BY <1>1, <1>5 DEF CountInv, BuffInv, lists
<1>7. KeptInv'
  BY <1>1, <1>3, <1>4 DEF KeptInv, BuffInv, lists, UsedAtEnd, AllFree
<1> QED BY <1>2, <1>6, <1>7 DEF BuffInv

(* Steps that free buffers in front: a frame that is sent, a seek and a     *)
(* flush.                                                                   *)
LEMMA BuffFreed ==
  ASSUME TypeOK, BuffInv, BuffTypeOK', fails' = fails, reader' = reader, ~worker'.used,
         m_nNewEmptyNum' = m_nNewEmptyNum,
         \A t \in Type : /\ Len(m_lst'[t]) + Len(m_lstEmpty'[t]) + InHand(t)'
                              = Len(m_lst[t]) + Len(m_lstEmpty[t]) + InHand(t)
                         /\ InFront(m_lstEmpty[t], m_lstEmpty'[t])
  PROVE  BuffInv'
<1>0. DataOK /\ ReaderOK /\ BuffTypeOK
  BY TypeParts
<1>1. /\ m_lstEmpty \in [Type -> Seq(EmptyBuffer)] /\ m_lstEmpty' \in [Type -> Seq(EmptyBuffer)]
      /\ fails \in [Type -> Nat]
  BY <1>0, KeepAssumption DEF BuffTypeOK, EmptyBuffer, DataOK
<1>2. CountInv'
  BY DEF CountInv, BuffInv, InRead
<1>3. ASSUME NEW t \in Type
      PROVE  /\ AllFree(m_lstEmpty[t]) => AllFree(m_lstEmpty'[t])
             /\ UsedAtEnd(m_lstEmpty[t], fails[t]) => UsedAtEnd(m_lstEmpty'[t], fails[t])
  <2>1. m_lstEmpty[t] \in Seq(EmptyBuffer) /\ m_lstEmpty'[t] \in Seq(EmptyBuffer) /\ fails[t] \in Nat
    BY <1>1
  <2> QED BY <2>1, InFrontAll, InFrontKept
<1>4. KeptInv'
  <2>1. \A t \in Type : UsedAtEnd(m_lstEmpty'[t], fails'[t]) /\
           (reader'[t].pc \in {"read", "eo", "wait", "got"} => AllFree(m_lstEmpty'[t]))
    BY <1>3 DEF KeptInv, BuffInv
  <2> QED BY <2>1 DEF KeptInv, UsedAtEnd, AllFree
<1> QED BY <1>2, <1>4 DEF BuffInv

LEMMA BuffParse ==
  ASSUME TypeOK, LockInv, BuffInv, Parse
  PROVE  BuffInv'
<1> DEFINE t == m_nMediaType
<1>0. DataOK /\ WorkerOK /\ ReaderOK /\ BuffTypeOK /\ t \in Type
  BY TypeParts DEF Parse, LockInv
<1>1. PICK b \in {"free", "used"} :
        /\ GetEmpty(t, b)
        /\ worker'.pc = "fetch"
        /\ worker'.used = (b = "used" /\ fails[t] < nKeepFrames)
  BY <1>0 DEF Parse, WorkerOK
<1>2. /\ UNCHANGED <<m_lst, param, fails, reader, m_nMediaType>> /\ worker.pc = "parse"
  BY DEF Parse, ghosts
<1> HIDE DEF t
<1>3. /\ m_lstEmpty' \in [Type -> Seq(EmptyBuffer)] /\ m_nNewEmptyNum' \in [Type -> Nat]
      /\ m_nNewEmptyNum'[t] - Len(m_lstEmpty'[t]) = m_nNewEmptyNum[t] - Len(m_lstEmpty[t]) + 1
      /\ AllFree(m_lstEmpty[t]) => AllFree(m_lstEmpty'[t])
      /\ \A k \in Nat : UsedAtEnd(m_lstEmpty[t], k) =>
           /\ UsedAtEnd(m_lstEmpty'[t], k)
           /\ k < nKeepFrames => b # "used"
      /\ \A x \in Type : x # t => /\ m_lstEmpty'[x] = m_lstEmpty[x]
                                  /\ m_nNewEmptyNum'[x] = m_nNewEmptyNum[x]
  BY <1>0, <1>1, GetEmptyType
<1>4. BuffTypeOK'
  BY <1>0, <1>2, <1>3 DEF BuffTypeOK, EmptyBuffer, param
<1>5. \A x \in Type : fails[x] \in Nat /\ fails'[x] = fails[x]
  BY <1>0, <1>2, KeepAssumption DEF DataOK
<1>6. ~worker'.used
  BY <1>0, <1>1, <1>3, <1>5 DEF BuffInv, KeptInv
<1>7. ASSUME NEW x \in Type
      PROVE  /\ reader'[x].pc \in {"read", "eo", "wait", "got"} => AllFree(m_lstEmpty'[x])
             /\ UsedAtEnd(m_lstEmpty'[x], fails'[x])
  <2>1. /\ reader'[x].pc \in {"read", "eo", "wait", "got"} => AllFree(m_lstEmpty[x])
        /\ UsedAtEnd(m_lstEmpty[x], fails[x])
    BY <1>2 DEF BuffInv, KeptInv
  <2>2. CASE x = t
    BY <1>3, <1>5, <2>1, <2>2
  <2>3. CASE x # t
    BY <1>3, <1>5, <2>1, <2>3
  <2> QED BY <2>2, <2>3
<1>8. KeptInv'
  BY <1>6, <1>7 DEF KeptInv, UsedAtEnd, AllFree
<1>9. ASSUME NEW x \in Type
      PROVE  m_nNewEmptyNum'[x] = Len(m_lst'[x]) + Len(m_lstEmpty'[x]) + InHand(x)' + InRead(x)'
  <2>1. m_nNewEmptyNum[x] = Len(m_lst[x]) + Len(m_lstEmpty[x]) + InHand(x) + InRead(x)
    BY DEF BuffInv, CountInv
  <2>2. /\ InRead(x)' = InRead(x) /\ InHand(x) = 0 /\ InHand(x)' = (IF x = t THEN 1 ELSE 0)
        /\ Len(m_lst'[x]) = Len(m_lst[x]) /\ InRead(x) \in Nat
    BY <1>1, <1>2 DEF InHand, InRead, t
  <2>3. /\ Len(m_lst[x]) \in Nat /\ Len(m_lstEmpty[x]) \in Nat /\ Len(m_lstEmpty'[x]) \in Nat
        /\ m_nNewEmptyNum[x] \in Nat /\ m_nNewEmptyNum'[x] \in Nat
    BY <1>0, <1>3, Lists
  <2>4. CASE x = t
    <3>1. m_nNewEmptyNum'[x] - Len(m_lstEmpty'[x]) = m_nNewEmptyNum[x] - Len(m_lstEmpty[x]) + 1
      BY <1>3, <2>4
    <3>2. InHand(x) = 0 /\ InHand(x)' = 1
      BY <2>2, <2>4
    <3> DEFINE n == m_nNewEmptyNum[x]
               n2 == m_nNewEmptyNum'[x]
               l == Len(m_lst[x])
               e == Len(m_lstEmpty[x])
               e2 == Len(m_lstEmpty'[x])
               r == InRead(x)
    <3>3. n2 - e2 = n - e + 1 /\ n = l + e + 0 + r
      BY <2>1, <3>1, <3>2
    <3>4. n \in Nat /\ n2 \in Nat /\ l \in Nat /\ e \in Nat /\ e2 \in Nat /\ r \in Nat
      BY <2>2, <2>3
    <3>5. Len(m_lst'[x]) = l /\ InRead(x)' = r
      BY <2>2
    <3> HIDE DEF n, n2, l, e, e2, r
    <3>6. n2 = l + e2 + 1 + r
      BY <3>3, <3>4
    <3> QED BY <3>2, <3>5, <3>6 DEF n2, e2
  <2>5. CASE x # t
    BY <1>3, <2>1, <2>2, <2>3, <2>5
  <2> QED BY <2>4, <2>5
<1>10. CountInv'
  BY <1>9 DEF CountInv
<1> QED BY <1>4, <1>8, <1>10 DEF BuffInv

LEMMA BuffSend ==
  ASSUME TypeOK, LockInv, BuffInv, SendFrame
  PROVE  BuffInv'
<1> DEFINE t == m_nMediaType
           f == worker.f
<1>0. WorkerOK /\ BuffTypeOK /\ t \in Type /\ f \in Frame
  BY TypeParts DEF SendFrame, LockInv, WorkerOK, Null, Frame, Flag
<1>1. Send(t, f) /\ worker.pc = "fetch" /\ fails' = fails /\ reader' = reader
  BY DEF SendFrame, ghosts
<1> HIDE DEF f
<1>2. /\ BuffTypeOK' /\ m_bEOS' = m_bEOS /\ m_nNewEmptyNum' = m_nNewEmptyNum
      /\ \A x \in Type :
           /\ Len(m_lst'[x]) + Len(m_lstEmpty'[x])
                = Len(m_lst[x]) + Len(m_lstEmpty[x]) + (IF x = t THEN 1 ELSE 0)
           /\ InFront(m_lstEmpty[x], m_lstEmpty'[x])
  <2> HIDE DEF t
  <2> QED BY <1>0, <1>1, SendType
<1>3. worker'.pc # "fetch" /\ ~worker'.used
  BY IdlePc DEF SendFrame, PassEnds
<1>4. ASSUME NEW x \in Type
      PROVE  Len(m_lst'[x]) + Len(m_lstEmpty'[x]) + InHand(x)'
               = Len(m_lst[x]) + Len(m_lstEmpty[x]) + InHand(x)
  <2>1. InHand(x)' = 0 /\ InHand(x) = (IF x = t THEN 1 ELSE 0)
    BY <1>1, <1>3 DEF InHand
  <2>2. /\ Len(m_lst'[x]) \in Nat /\ Len(m_lstEmpty'[x]) \in Nat
        /\ Len(m_lst[x]) \in Nat /\ Len(m_lstEmpty[x]) \in Nat
    BY <1>0, <1>2 DEF BuffTypeOK
  <2>3. Len(m_lst'[x]) + Len(m_lstEmpty'[x])
          = Len(m_lst[x]) + Len(m_lstEmpty[x]) + (IF x = t THEN 1 ELSE 0)
    BY <1>2
  <2> DEFINE h == IF x = t THEN 1 ELSE 0
  <2>4. h \in Nat
    OBVIOUS
  <2>5. InHand(x)' = 0 /\ InHand(x) = h
    BY <2>1
  <2>6. Len(m_lst'[x]) + Len(m_lstEmpty'[x]) = Len(m_lst[x]) + Len(m_lstEmpty[x]) + h
    BY <2>3
  <2> HIDE DEF h
  <2>7. Len(m_lst'[x]) + Len(m_lstEmpty'[x]) + 0 = Len(m_lst'[x]) + Len(m_lstEmpty'[x])
    BY <2>2
  <2> QED BY <2>5, <2>6, <2>7
<1> QED BY <1>1, <1>2, <1>3, <1>4, BuffFreed

(* The seek and the flush. *)
LEMMA BuffSeek ==
  ASSUME TypeOK, LockInv, BuffInv, BaseSetPos \/ Flush
  PROVE  BuffInv'
<1>0. EngineOK /\ BuffTypeOK
  BY TypeParts
<1>1. CASE BaseSetPos
  <2> DEFINE p == engine.pos
  <2>1. p \in Nat /\ worker.pc = "idle"
    BY <1>0, <1>1 DEF BaseSetPos, EngineOK, LockInv
  <2>2. fails' = fails /\ reader' = reader /\ worker' = worker
    BY <1>1 DEF BaseSetPos
  <2>3. UNCHANGED buffs \/ BuffSetPos(p)
    BY <1>1 DEF BaseSetPos, Rewind
  <2> HIDE DEF p
  <2>4. /\ BuffTypeOK' /\ m_nNewEmptyNum' = m_nNewEmptyNum
        /\ \A x \in Type :
             /\ Len(m_lst'[x]) + Len(m_lstEmpty'[x]) = Len(m_lst[x]) + Len(m_lstEmpty[x])
             /\ InFront(m_lstEmpty[x], m_lstEmpty'[x])
    <3>1. CASE BuffSetPos(p)
      BY <1>0, <2>1, <3>1, BuffSetPosType
    <3>2. CASE UNCHANGED buffs
      <4>1. UNCHANGED <<m_lst, m_lstEmpty, m_nNewEmptyNum>> /\ BuffTypeOK'
        BY <1>0, <3>2 DEF buffs, lists, param, BuffTypeOK
      <4>2. \A x \in Type : InFront(m_lstEmpty[x], m_lstEmpty[x])
        BY <1>0, SameInFront DEF BuffTypeOK, EmptyBuffer
      <4> QED BY <4>1, <4>2
    <3> QED BY <2>3, <3>1, <3>2
  <2>5. ASSUME NEW x \in Type PROVE InHand(x)' = 0 /\ InHand(x) = 0
    BY <2>1, <2>2 DEF InHand
  <2>6. ~worker'.used
    BY <2>2 DEF BuffInv, KeptInv
  <2> QED BY <2>2, <2>4, <2>5, <2>6, BuffFreed
<1>2. CASE Flush
  <2>1. fails' = fails /\ reader' = reader /\ worker' = worker /\ m_nMediaType' = m_nMediaType /\ FlushBuff
    BY <1>2 DEF Flush, pass
  <2>2. /\ BuffTypeOK' /\ m_bEOS' = m_bEOS /\ m_nNewEmptyNum' = m_nNewEmptyNum
        /\ \A x \in Type :
             /\ Len(m_lst'[x]) + Len(m_lstEmpty'[x]) = Len(m_lst[x]) + Len(m_lstEmpty[x])
             /\ InFront(m_lstEmpty[x], m_lstEmpty'[x])
    BY <1>0, <2>1, FlushBuffType
  <2>3. ASSUME NEW x \in Type PROVE InHand(x)' = InHand(x)
    BY <2>1 DEF InHand
  <2>4. ~worker'.used
    BY <2>1 DEF BuffInv, KeptInv
  <2> QED BY <2>1, <2>2, <2>3, <2>4, BuffFreed
<1> QED BY <1>1, <1>2

(* A read that failed: its buffer is free again, behind what a decoder uses. *)
LEMMA BuffFetch ==
  ASSUME TypeOK, LockInv, BuffInv, Next, FetchRetry \/ FetchEnd
  PROVE  BuffInv'
<1> DEFINE t == m_nMediaType
<1>0. WorkerOK /\ BuffTypeOK /\ DataOK /\ FlagsOK' /\ t \in Type
  BY TypeParts, FlagsStep DEF FetchRetry, FetchEnd, FetchFailed, LockInv
<1>1. /\ worker.pc = "fetch" /\ Return(t, "free")
      /\ UNCHANGED <<m_lst, m_nNewEmptyNum, m_bEOS, m_llNextKeyTime, m_llSeekPos, bStarted,
                     bNumRead, m_bFlush, reader>>
      /\ fails' = [fails EXCEPT ![t] = IF @ < nKeepFrames THEN @ + 1 ELSE @]
      /\ (m_bBuffEO' = m_bBuffEO \/ m_bBuffEO' = m_bEO')
  BY DEF FetchRetry, FetchEnd, FetchFailed, AtEnd
<1>2. worker'.pc # "fetch" /\ ~worker'.used
  BY IdlePc DEF FetchRetry, FetchEnd, SecondTry, PassEnds
<1> HIDE DEF t
<1>3. /\ m_lstEmpty' \in [Type -> Seq(EmptyBuffer)]
      /\ m_lstEmpty'[t] = Append(m_lstEmpty[t], "free")
      /\ Len(m_lstEmpty'[t]) = Len(m_lstEmpty[t]) + 1
      /\ \A x \in Type : x # t => m_lstEmpty'[x] = m_lstEmpty[x]
  <2>1. "free" \in EmptyBuffer
    BY DEF EmptyBuffer
  <2> QED BY <1>0, <1>1, <2>1, ReturnedType
<1>4. BuffTypeOK'
  BY <1>0, <1>1, <1>3 DEF BuffTypeOK, EmptyBuffer, FlagsOK
<1>5. /\ fails[t] \in Nat /\ fails'[t] = IF fails[t] < nKeepFrames THEN fails[t] + 1 ELSE fails[t]
      /\ \A x \in Type : x # t => fails'[x] = fails[x]
  BY <1>0, <1>1, KeepAssumption DEF DataOK
<1>6. ASSUME NEW x \in Type
      PROVE  /\ reader'[x].pc \in {"read", "eo", "wait", "got"} => AllFree(m_lstEmpty'[x])
             /\ UsedAtEnd(m_lstEmpty'[x], fails'[x])
  <2>1. /\ reader'[x].pc \in {"read", "eo", "wait", "got"} => AllFree(m_lstEmpty[x])
        /\ UsedAtEnd(m_lstEmpty[x], fails[x])
    BY <1>1 DEF BuffInv, KeptInv
  <2>2. CASE x = t
    <3> DEFINE e == m_lstEmpty[t]
               k == fails[t]
    <3>1. e \in Seq(EmptyBuffer) /\ k \in Nat /\ UsedAtEnd(e, k)
      BY <1>0, <1>5, <2>1, <2>2, Lists
    <3>2. m_lstEmpty'[x] = Append(e, "free") /\ fails'[x] = IF k < nKeepFrames THEN k + 1 ELSE k
      BY <1>3, <1>5, <2>2
    <3>3. reader'[x].pc \in {"read", "eo", "wait", "got"} => AllFree(e)
      BY <2>1, <2>2
    <3> HIDE DEF e, k
    <3>4. /\ UsedAtEnd(Append(e, "free"), IF k < nKeepFrames THEN k + 1 ELSE k)
          /\ AllFree(e) => AllFree(Append(e, "free"))
      BY <3>1, ReturnFree
    <3> QED BY <3>2, <3>3, <3>4
  <2>3. CASE x # t
    BY <1>3, <1>5, <2>1, <2>3
  <2> QED BY <2>2, <2>3
<1>7. KeptInv'
  BY <1>2, <1>6 DEF KeptInv, UsedAtEnd, AllFree
<1>8. ASSUME NEW x \in Type
      PROVE  m_nNewEmptyNum'[x] = Len(m_lst'[x]) + Len(m_lstEmpty'[x]) + InHand(x)' + InRead(x)'
  <2>1. m_nNewEmptyNum[x] = Len(m_lst[x]) + Len(m_lstEmpty[x]) + InHand(x) + InRead(x)
    BY DEF BuffInv, CountInv
  <2>2. /\ InRead(x)' = InRead(x) /\ InHand(x)' = 0 /\ InHand(x) = (IF x = t THEN 1 ELSE 0)
        /\ m_lst'[x] = m_lst[x] /\ m_nNewEmptyNum'[x] = m_nNewEmptyNum[x] /\ InRead(x) \in Nat
    BY <1>1, <1>2 DEF InHand, InRead, t
  <2>3. /\ Len(m_lst[x]) \in Nat /\ Len(m_lstEmpty[x]) \in Nat
    BY <1>0, Lists
  <2>4. CASE x = t
    <3> DEFINE l == Len(m_lst[x])
               e == Len(m_lstEmpty[x])
               r == InRead(x)
    <3>1. m_nNewEmptyNum[x] = l + e + 1 + r /\ Len(m_lstEmpty'[x]) = e + 1
      BY <1>3, <2>1, <2>2, <2>4
    <3>2. l \in Nat /\ e \in Nat /\ r \in Nat /\ Len(m_lst'[x]) = l /\ InRead(x)' = r
      BY <2>2, <2>3
    <3> HIDE DEF l, e, r
    <3>3. l + e + 1 + r = l + (e + 1) + 0 + r
      BY <3>2
    <3> QED BY <2>2, <3>1, <3>2, <3>3
  <2>5. CASE x # t
    <3>1. m_lstEmpty'[x] = m_lstEmpty[x] /\ InHand(x)' = InHand(x)
      BY <1>3, <2>2, <2>5
    <3> QED BY <2>1, <2>2, <3>1
  <2> QED BY <2>4, <2>5
<1>9. CountInv'
  BY <1>8 DEF CountInv
<1> QED BY <1>4, <1>7, <1>9 DEF BuffInv

(* A step of the reader of t that leaves the other type alone, or frees in  *)
(* front of its buffers.                                                    *)
LEMMA BuffReader ==
  ASSUME TypeOK, LockInv, BuffInv, BuffTypeOK', NEW t \in Type,
         UNCHANGED <<worker, m_nMediaType, m_nNewEmptyNum>>,
         Len(m_lst'[t]) + Len(m_lstEmpty'[t]) + InRead(t)'
           = Len(m_lst[t]) + Len(m_lstEmpty[t]) + InRead(t),
         fails'[t] \in Nat, UsedAtEnd(m_lstEmpty'[t], fails'[t]),
         reader'[t].pc \in {"read", "eo", "wait", "got"} => AllFree(m_lstEmpty'[t]),
         \A x \in Type : x # t =>
           /\ Len(m_lst'[x]) + Len(m_lstEmpty'[x]) = Len(m_lst[x]) + Len(m_lstEmpty[x])
           /\ InFront(m_lstEmpty[x], m_lstEmpty'[x])
           /\ reader'[x] = reader[x] /\ fails'[x] = fails[x]
  PROVE  BuffInv'
<1>0. DataOK /\ BuffTypeOK
  BY TypeParts
<1>1. /\ m_lstEmpty \in [Type -> Seq(EmptyBuffer)] /\ m_lstEmpty' \in [Type -> Seq(EmptyBuffer)]
      /\ \A x \in Type : /\ Len(m_lst[x]) \in Nat /\ Len(m_lstEmpty[x]) \in Nat
                         /\ Len(m_lst'[x]) \in Nat /\ Len(m_lstEmpty'[x]) \in Nat
  BY <1>0 DEF BuffTypeOK, EmptyBuffer
<1>2. ASSUME NEW x \in Type
      PROVE  /\ reader'[x].pc \in {"read", "eo", "wait", "got"} => AllFree(m_lstEmpty'[x])
             /\ UsedAtEnd(m_lstEmpty'[x], fails'[x])
  <2>1. CASE x # t
    <3>1. /\ reader'[x].pc \in {"read", "eo", "wait", "got"} => AllFree(m_lstEmpty[x])
          /\ UsedAtEnd(m_lstEmpty[x], fails[x])
      BY <2>1 DEF BuffInv, KeptInv
    <3>2. m_lstEmpty[x] \in Seq(EmptyBuffer) /\ m_lstEmpty'[x] \in Seq(EmptyBuffer) /\ fails[x] \in Nat
      BY <1>0, <1>1, KeepAssumption DEF DataOK
    <3> QED BY <2>1, <3>1, <3>2, InFrontAll, InFrontKept
  <2> QED BY <2>1
<1>3. KeptInv'
  BY <1>2 DEF KeptInv, BuffInv, UsedAtEnd, AllFree
<1>4. ASSUME NEW x \in Type
      PROVE  m_nNewEmptyNum'[x] = Len(m_lst'[x]) + Len(m_lstEmpty'[x]) + InHand(x)' + InRead(x)'
  <2>1. Len(m_lst'[x]) + Len(m_lstEmpty'[x]) + InRead(x)' = Len(m_lst[x]) + Len(m_lstEmpty[x]) + InRead(x)
    BY <1>1 DEF InRead
  <2> DEFINE a == Len(m_lst[x]) + Len(m_lstEmpty[x])
             a2 == Len(m_lst'[x]) + Len(m_lstEmpty'[x])
             r == InRead(x)
             r2 == InRead(x)'
             h == InHand(x)
  <2>2. a \in Nat /\ a2 \in Nat /\ r \in Nat /\ r2 \in Nat /\ h \in Nat
    BY <1>1 DEF InRead, InHand
  <2>3. a2 + r2 = a + r
    BY <2>1
  <2>4. m_nNewEmptyNum[x] = a + h + r
    BY DEF BuffInv, CountInv
  <2>5. InHand(x)' = h /\ m_nNewEmptyNum'[x] = m_nNewEmptyNum[x]
    BY DEF InHand
  <2> HIDE DEF a, a2, r, r2, h
  <2>6. a2 + h + r2 = a + h + r
    BY <2>2, <2>3
  <2> QED BY <2>4, <2>5, <2>6 DEF a2, r2
<1>5. CountInv'
  BY <1>4 DEF CountInv
<1> QED BY <1>3, <1>5 DEF BuffInv

LEMMA BuffBegin ==
  ASSUME TypeOK, LockInv, BuffInv, NEW t \in Type, BeginRead(t)
  PROVE  BuffInv'
<1>0. BuffTypeOK /\ ReaderOK /\ DataOK
  BY TypeParts
<1>1. /\ UNCHANGED <<m_lst, m_nNewEmptyNum, param, worker, m_nMediaType, fails>>
      /\ m_lstEmpty' = Released(t)
      /\ reader[t].pc = "idle" /\ reader'[t].pc = "read"
      /\ \A x \in Type : x # t => reader'[x] = reader[x]
  BY <1>0 DEF BeginRead, pass, Reader, ReaderOK
<1>2. /\ m_lstEmpty' \in [Type -> Seq(EmptyBuffer)]
      /\ Len(m_lstEmpty'[t]) = Len(m_lstEmpty[t]) /\ AllFree(m_lstEmpty'[t])
      /\ \A x \in Type : x # t => m_lstEmpty'[x] = m_lstEmpty[x]
  BY <1>0, <1>1, ReleasedType
<1>3. BuffTypeOK'
  BY <1>0, <1>1, <1>2 DEF BuffTypeOK, EmptyBuffer, param
<1>4. fails'[t] \in Nat /\ \A x \in Type : fails'[x] = fails[x]
  BY <1>0, <1>1, KeepAssumption DEF DataOK
<1>5. UsedAtEnd(m_lstEmpty'[t], fails'[t])
  <2>1. m_lstEmpty'[t] \in Seq(EmptyBuffer)
    BY <1>2
  <2> QED BY <1>2, <2>1, FreeIsKept
<1>6. Len(m_lst'[t]) + Len(m_lstEmpty'[t]) + InRead(t)' = Len(m_lst[t]) + Len(m_lstEmpty[t]) + InRead(t)
  BY <1>1, <1>2 DEF InRead
<1>7. \A x \in Type : x # t => /\ m_lst'[x] = m_lst[x] /\ m_lstEmpty'[x] = m_lstEmpty[x]
                               /\ InFront(m_lstEmpty[x], m_lstEmpty[x])
  BY <1>0, <1>1, <1>2, Lists, SameInFront
<1>8. ASSUME NEW x \in Type, x # t
      PROVE  /\ Len(m_lst'[x]) + Len(m_lstEmpty'[x]) = Len(m_lst[x]) + Len(m_lstEmpty[x])
             /\ InFront(m_lstEmpty[x], m_lstEmpty'[x])
             /\ reader'[x] = reader[x] /\ fails'[x] = fails[x]
  BY <1>1, <1>4, <1>7, <1>8
<1>9. /\ UNCHANGED <<worker, m_nMediaType, m_nNewEmptyNum>> /\ fails'[t] \in Nat
      /\ reader'[t].pc \in {"read", "eo", "wait", "got"} => AllFree(m_lstEmpty'[t])
  BY <1>1, <1>2, <1>4
<1> QED BY <1>3, <1>5, <1>6, <1>8, <1>9, BuffReader

LEMMA BuffDeliver ==
  ASSUME TypeOK, LockInv, BuffInv, NEW t \in Type, Deliver(t)
  PROVE  BuffInv'
<1>0. BuffTypeOK /\ ReaderOK /\ DataOK
  BY TypeParts
<1>1. /\ UNCHANGED <<m_lst, m_nNewEmptyNum, param, worker, m_nMediaType>>
      /\ Return(t, "used") /\ fails' = [fails EXCEPT ![t] = 0]
      /\ reader[t].pc = "got" /\ reader'[t].pc = "end"
      /\ \A x \in Type : x # t => reader'[x] = reader[x]
  BY <1>0 DEF Deliver, pass, Reader, ReaderOK
<1>2. /\ m_lstEmpty' \in [Type -> Seq(EmptyBuffer)]
      /\ m_lstEmpty'[t] = Append(m_lstEmpty[t], "used")
      /\ Len(m_lstEmpty'[t]) = Len(m_lstEmpty[t]) + 1
      /\ \A x \in Type : x # t => m_lstEmpty'[x] = m_lstEmpty[x]
  <2>1. "used" \in EmptyBuffer
    BY DEF EmptyBuffer
  <2> QED BY <1>0, <1>1, <2>1, ReturnedType
<1>3. BuffTypeOK'
  BY <1>0, <1>1, <1>2 DEF BuffTypeOK, EmptyBuffer, param
<1>4. fails'[t] = 0 /\ \A x \in Type : x # t => fails'[x] = fails[x]
  BY <1>0, <1>1 DEF DataOK
<1>5. UsedAtEnd(m_lstEmpty'[t], fails'[t])
  <2>1. m_lstEmpty[t] \in Seq(EmptyBuffer) /\ AllFree(m_lstEmpty[t])
    BY <1>0, <1>1, Lists DEF BuffInv, KeptInv
  <2> QED BY <1>2, <1>4, <2>1, ReturnUsed
<1>6. Len(m_lst'[t]) + Len(m_lstEmpty'[t]) + InRead(t)' = Len(m_lst[t]) + Len(m_lstEmpty[t]) + InRead(t)
  <2> DEFINE l == Len(m_lst[t])
             e == Len(m_lstEmpty[t])
  <2>1. l \in Nat /\ e \in Nat /\ Len(m_lst'[t]) = l /\ Len(m_lstEmpty'[t]) = e + 1
    BY <1>0, <1>1, <1>2, Lists
  <2>2. InRead(t)' = 0 /\ InRead(t) = 1
    BY <1>1 DEF InRead
  <2> HIDE DEF l, e
  <2>3. l + (e + 1) + 0 = l + e + 1
    BY <2>1
  <2> QED BY <2>1, <2>2, <2>3 DEF l, e
<1>7. \A x \in Type : x # t => /\ m_lst'[x] = m_lst[x] /\ m_lstEmpty'[x] = m_lstEmpty[x]
                               /\ InFront(m_lstEmpty[x], m_lstEmpty[x])
  BY <1>0, <1>1, <1>2, Lists, SameInFront
<1>8. ASSUME NEW x \in Type, x # t
      PROVE  /\ Len(m_lst'[x]) + Len(m_lstEmpty'[x]) = Len(m_lst[x]) + Len(m_lstEmpty[x])
             /\ InFront(m_lstEmpty[x], m_lstEmpty'[x])
             /\ reader'[x] = reader[x] /\ fails'[x] = fails[x]
  BY <1>1, <1>4, <1>7, <1>8
<1>9. /\ UNCHANGED <<worker, m_nMediaType, m_nNewEmptyNum>> /\ fails'[t] \in Nat
      /\ reader'[t].pc \in {"read", "eo", "wait", "got"} => AllFree(m_lstEmpty'[t])
  BY <1>1, <1>2, <1>4
<1> QED BY <1>3, <1>5, <1>6, <1>8, <1>9, BuffReader

LEMMA BuffRead ==
  ASSUME TypeOK, LockInv, BuffInv, NEW t \in Type, ReadBuff(t)
  PROVE  BuffInv'
<1>0. BuffTypeOK /\ ReaderOK /\ DataOK
  BY TypeParts
<1>1. PICK pos \in Wanted(t) :
        LET r == ReadResult(t, pos) IN
        /\ Read(r)
        /\ IF r.rc = "finish" /\ reader[t].pc = "read"
           THEN Returns(t)
           ELSE reader' = [reader EXCEPT ![t].f = r.f, ![t].rc = r.rc,
                    ![t].pc = IF r.rc = "frame" THEN "got"
                              ELSE IF @ = "read" THEN "eo" ELSE @]
  BY DEF ReadBuff
<1>2. pos \in Nat
  BY FileAssumption DEF Wanted
<1>3. UNCHANGED <<worker, m_nMediaType, fails>> /\ reader[t].pc \in {"read", "wait"}
  BY DEF ReadBuff, pass
<1> DEFINE r == ReadResult(t, pos)
<1>4. /\ r.rc \in {"frame", "retry", "finish", "crash"} /\ r.f \in Frame /\ r.key \in Nat
      /\ r.lst \in [Type -> Seq(Frame)] /\ r.empty \in [Type -> Seq(EmptyBuffer)]
      /\ r.rc = "finish" => m_bEOS
      /\ \A x \in Type :
           /\ Len(r.lst[x]) + Len(r.empty[x]) + (IF r.rc = "frame" /\ x = t THEN 1 ELSE 0)
                = Len(m_lst[x]) + Len(m_lstEmpty[x])
           /\ AllFree(m_lstEmpty[x]) => AllFree(r.empty[x])
           /\ x # t => InFront(m_lstEmpty[x], r.empty[x])
  BY <1>0, <1>2, ReadResultType
<1>5. /\ Read(r)
      /\ \/ r.rc # "frame" /\ Returns(t)
         \/ reader' = [reader EXCEPT ![t].f = r.f, ![t].rc = r.rc,
                    ![t].pc = IF r.rc = "frame" THEN "got"
                              ELSE IF @ = "read" THEN "eo" ELSE @]
  BY <1>1
<1> HIDE DEF r
<1>6. /\ m_lst' = r.lst /\ m_lstEmpty' = r.empty /\ m_llNextKeyTime' = r.key
      /\ m_nNewEmptyNum' = m_nNewEmptyNum
  BY <1>5 DEF Read
<1>7. BuffTypeOK'
  BY <1>0, <1>4, <1>5, <1>6 DEF BuffTypeOK, EmptyBuffer, Read
<1>8. /\ reader'[t].pc = "got" <=> r.rc = "frame"
      /\ \A x \in Type : x # t => reader'[x] = reader[x]
  BY <1>0, <1>3, <1>5 DEF Returns, Reader, ReaderOK
<1>9. AllFree(m_lstEmpty'[t]) /\ fails'[t] \in Nat /\ \A x \in Type : fails'[x] = fails[x]
  <2>1. AllFree(m_lstEmpty[t])
    BY <1>3 DEF BuffInv, KeptInv
  <2>2. AllFree(r.empty[t])
    BY <1>4, <2>1
  <2> QED BY <1>0, <1>3, <1>6, <2>2, KeepAssumption DEF DataOK
<1>10. UsedAtEnd(m_lstEmpty'[t], fails'[t])
  <2>1. m_lstEmpty'[t] \in Seq(EmptyBuffer)
    BY <1>4, <1>6
  <2> QED BY <1>9, <2>1, FreeIsKept
<1>11. ASSUME NEW x \in Type
       PROVE  /\ Len(m_lst'[x]) \in Nat /\ Len(m_lstEmpty'[x]) \in Nat
              /\ Len(m_lst[x]) \in Nat /\ Len(m_lstEmpty[x]) \in Nat
  BY <1>0, <1>7 DEF BuffTypeOK
<1>12. Len(m_lst'[t]) + Len(m_lstEmpty'[t]) + InRead(t)' = Len(m_lst[t]) + Len(m_lstEmpty[t]) + InRead(t)
  <2> DEFINE g == IF r.rc = "frame" /\ t = t THEN 1 ELSE 0
  <2>1. InRead(t)' = g /\ InRead(t) = 0
    BY <1>3, <1>8 DEF InRead
  <2>2. Len(m_lst'[t]) + Len(m_lstEmpty'[t]) + g = Len(m_lst[t]) + Len(m_lstEmpty[t])
    BY <1>4, <1>6
  <2>3. Len(m_lst[t]) + Len(m_lstEmpty[t]) + 0 = Len(m_lst[t]) + Len(m_lstEmpty[t])
    BY <1>11
  <2> HIDE DEF g
  <2> QED BY <2>1, <2>2, <2>3
<1>13. ASSUME NEW x \in Type, x # t
       PROVE  Len(m_lst'[x]) + Len(m_lstEmpty'[x]) = Len(m_lst[x]) + Len(m_lstEmpty[x])
  <2>1. Len(m_lst'[x]) + Len(m_lstEmpty'[x]) + 0 = Len(m_lst[x]) + Len(m_lstEmpty[x])
    BY <1>4, <1>6, <1>13
  <2>2. Len(m_lst'[x]) + Len(m_lstEmpty'[x]) + 0 = Len(m_lst'[x]) + Len(m_lstEmpty'[x])
    BY <1>11
  <2> QED BY <2>1, <2>2
<1>14. \A x \in Type : x # t => InFront(m_lstEmpty[x], m_lstEmpty'[x])
  BY <1>4, <1>6
<1> QED BY <1>3, <1>6, <1>7, <1>8, <1>9, <1>10, <1>12, <1>13, <1>14, BuffReader

-----------------------------------------------------------------------------
(* The invariant of the source, and what follows from it. *)

SourceInv == TypeOK /\ LockInv /\ BuffInv

LEMMA SourceInit == Init => SourceInv
<1> SUFFICES ASSUME Init PROVE SourceInv
  OBVIOUS
<1> USE DEF Init, BuffInit
<1>1. BuffTypeOK
  <2>1. <<>> \in Seq(Frame) /\ <<>> \in Seq({"free", "used"})
    OBVIOUS
  <2>2. m_lst \in [Type -> Seq(Frame)] /\ m_lstEmpty \in [Type -> Seq({"free", "used"})]
    BY <2>1
  <2> QED BY <2>2 DEF BuffTypeOK
<1>2. FlagsOK
  BY DEF FlagsOK
<1>3. WorkerOK /\ worker.pc = "idle" /\ ~worker.used
  BY DEF WorkerOK, Idle
<1>4. ReaderOK /\ \A t \in Type : reader[t].pc = "idle" /\ reader[t].rc = "none"
  BY DEF ReaderOK, Reader
<1>5. EngineOK /\ engine.pc = "idle"
  BY DEF EngineOK, Engine
<1>6. DataOK
  BY FileAssumption, TimeAssumption, KeepAssumption DEF DataOK
<1>7. LockInv
  BY <1>3, <1>4, <1>5 DEF LockInv
<1>8. \A t \in Type : Len(m_lst[t]) = 0 /\ Len(m_lstEmpty[t]) = 0 /\ m_nNewEmptyNum[t] = 0
  OBVIOUS
<1>9. CountInv
  <2>1. \A t \in Type : InHand(t) = 0 /\ InRead(t) = 0
    BY <1>3, <1>4 DEF InHand, InRead
  <2>2. 0 = 0 + 0 + 0 + 0
    OBVIOUS
  <2> QED BY <1>8, <2>1, <2>2 DEF CountInv
<1>10. KeptInv
  BY <1>3, <1>8 DEF KeptInv, AllFree, UsedAtEnd
<1> QED BY <1>1, <1>2, <1>3, <1>4, <1>5, <1>6, <1>7, <1>9, <1>10, TypeParts DEF SourceInv, BuffInv

LEMMA SourceStep == SourceInv /\ [Next]_vars => SourceInv'
<1> SUFFICES ASSUME SourceInv, [Next]_vars PROVE SourceInv'
  OBVIOUS
<1>1. CASE UNCHANGED vars
  <2>1. UNCHANGED <<m_lst, m_lstEmpty, m_nNewEmptyNum, param, source, parser, pass, m_lckSeek,
                    m_lckReader, reader, engine, seeks, failed, ghosts, crashed>>
    BY <1>1 DEF vars, buffs, lists
  <2>2. BuffTypeOK'
    BY <2>1 DEF SourceInv, BuffInv, BuffTypeOK, param
  <2>3. FlagsOK' /\ WorkerOK' /\ ReaderOK' /\ EngineOK' /\ DataOK'
    BY <2>1, TypeParts DEF SourceInv, FlagsOK, WorkerOK, ReaderOK, EngineOK, DataOK,
         source, parser, pass, ghosts
  <2>4. LockInv'
    BY <2>1 DEF SourceInv, LockInv, pass, parser
  <2>5. CountInv' /\ KeptInv'
    BY <2>1 DEF SourceInv, BuffInv, CountInv, KeptInv, InHand, InRead, UsedAtEnd, AllFree, pass, ghosts
  <2>6. TypeOK'
    BY <2>2, <2>3 DEF TypeOK, FlagsOK, WorkerOK, ReaderOK, EngineOK, DataOK
  <2> QED BY <2>2, <2>4, <2>5, <2>6 DEF SourceInv, BuffInv
<1>2. CASE Next
  <2>0. TypeOK /\ LockInv /\ BuffInv
    BY DEF SourceInv
  <2>1. BuffTypeOK /\ FlagsOK /\ WorkerOK /\ ReaderOK /\ EngineOK /\ DataOK
    BY <2>0, TypeParts
  <2>2. FlagsOK' /\ WorkerOK' /\ ReaderOK' /\ EngineOK' /\ DataOK'
    BY <1>2, <2>0, <2>1, FlagsStep, WorkerStep, ReaderStep, EngineStep, DataStep
  <2>3. LockInv'
    BY <1>2, <2>0, LockStep
  <2>4. BuffInv'
    <3>1. CASE \/ BeginPass \/ ParseEnd \/ SetEOS \/ LockSeek \/ ParserSetPos \/ ParserSetPosFails
               \/ \E p \in Pos : CallSetPos(p)
               \/ \E t \in Type : AskEnd(t) \/ StopWaiting(t) \/ EndRead(t)
      BY <1>2, <2>0, <3>1, BuffKept
    <3>2. CASE Parse
      BY <2>0, <3>2, BuffParse
    <3>3. CASE SendFrame
      BY <2>0, <3>3, BuffSend
    <3>4. CASE BaseSetPos \/ Flush
      BY <2>0, <3>4, BuffSeek
    <3>5. CASE FetchRetry \/ FetchEnd
      BY <1>2, <2>0, <3>5, BuffFetch
    <3>6. CASE \E t \in Type : BeginRead(t) \/ Deliver(t) \/ ReadBuff(t)
      BY <2>0, <3>6, BuffBegin, BuffDeliver, BuffRead
    <3> QED BY <1>2, <3>1, <3>2, <3>3, <3>4, <3>5, <3>6, NextSteps
  <2>5. TypeOK'
    BY <2>2, <2>4 DEF BuffInv, TypeOK, FlagsOK, WorkerOK, ReaderOK, EngineOK, DataOK
  <2> QED BY <2>3, <2>4, <2>5 DEF SourceInv
<1> QED BY <1>1, <1>2

LEMMA SourceAlways == Spec => []SourceInv
BY SourceInit, SourceStep, PTL DEF Spec

(* The variables have their types, the lists of frames and of empty buffers *)
(* included, after any sequence of reads, seeks, flushes and failures.      *)
THEOREM TypeCorrect == Spec => []TypeOK
<1>1. SourceInv => TypeOK
  BY DEF SourceInv
<1> QED BY <1>1, SourceAlways, PTL

(* No buffer is lost or in two places: GetEmpty, Send, Read, Return, SetPos *)
(* and FlushBuff keep the sum of a type.                                    *)
THEOREM ConservedCorrect == Spec => []Conserved
<1>1. SourceInv => Conserved
  BY DEF SourceInv, BuffInv, CountInv, Conserved
<1> QED BY <1>1, SourceAlways, PTL

(* GetEmpty never takes a buffer that a decoder uses before nKeepFrames     *)
(* reads of the parser have failed.                                         *)
THEOREM InUseKeptCorrect == Spec => []InUseKept
<1>1. SourceInv => InUseKept
  BY DEF SourceInv, BuffInv, KeptInv, InUseKept
<1> QED BY <1>1, SourceAlways, PTL

-----------------------------------------------------------------------------
(* The end of a stream. *)

(* SetPos(0) was answered by 0 although the buffers hold the position. *)
ZeroAstray == astray /\ 0 \in Pos

(* What tells the end agrees with where the parser is. *)
EndInv ==
  /\ m_bEOS \/ worker.pc = "end" => \A t \in Type : m_bEO[t]
  /\ engine.pc = "parser" => ZeroAstray \/ \A t \in Type : ~m_bEO[t]
  /\ engine.pc # "idle" => engine.pos \in Pos
  /\ \A t \in Type : /\ ended[t] \/ reader[t].rc = "finish" => m_bEO[t]
                     /\ m_bEO[t] => next[t] = N \/ cut[t] \/ ZeroAstray

(* What a renderer's steps do to the marks of the end. *)
LEMMA EndFrame ==
  ASSUME NEW t \in Type, BeginRead(t) \/ AskEnd(t) \/ StopWaiting(t) \/ Deliver(t) \/ EndRead(t)
  PROVE  UNCHANGED <<m_bEO, next, engine, cut, m_bEOS, worker, astray>>
BY DEF BeginRead, AskEnd, StopWaiting, Deliver, EndRead, buffs, param, source, parser, pass, ghosts

LEMMA EndOfRead ==
  ASSUME NEW t \in Type, ReadBuff(t)
  PROVE  \E pos \in Wanted(t) :
           LET r == ReadResult(t, pos) IN
           /\ Read(r)
           /\ \/ r.rc = "finish" /\ Returns(t) /\ ended' = [ended EXCEPT ![t] = TRUE]
              \/ /\ ended' = ended
                 /\ reader' = [reader EXCEPT ![t].f = r.f, ![t].rc = r.rc,
                     ![t].pc = IF r.rc = "frame" THEN "got"
                               ELSE IF @ = "read" THEN "eo" ELSE @]
<1>1. PICK pos \in Wanted(t) :
        LET r == ReadResult(t, pos) IN
        /\ Read(r)
        /\ IF r.rc = "finish" /\ reader[t].pc = "read"
           THEN Returns(t) /\ ended' = [ended EXCEPT ![t] = TRUE]
           ELSE /\ reader' = [reader EXCEPT ![t].f = r.f, ![t].rc = r.rc,
                     ![t].pc = IF r.rc = "frame" THEN "got"
                               ELSE IF @ = "read" THEN "eo" ELSE @]
                /\ UNCHANGED <<m_lckReader, ended>>
  BY Zenon DEF ReadBuff
<1> DEFINE r == ReadResult(t, pos)
           next0 == [reader EXCEPT ![t].f = r.f, ![t].rc = r.rc,
                       ![t].pc = IF r.rc = "frame" THEN "got"
                                 ELSE IF @ = "read" THEN "eo" ELSE @]
<1>2. /\ Read(r)
      /\ \/ r.rc = "finish" /\ Returns(t) /\ ended' = [ended EXCEPT ![t] = TRUE]
         \/ ended' = ended /\ reader' = next0
  <2>1. Read(r) /\ IF r.rc = "finish" /\ reader[t].pc = "read"
           THEN Returns(t) /\ ended' = [ended EXCEPT ![t] = TRUE]
           ELSE reader' = next0 /\ UNCHANGED <<m_lckReader, ended>>
    BY <1>1, Zenon
  <2> HIDE DEF next0, r
  <2> QED BY <2>1
<1> QED BY <1>2, Zenon

LEMMA EndStep ==
  ASSUME SourceInv, EndInv, Next
  PROVE  EndInv'
<1>0. TypeOK /\ LockInv /\ BuffTypeOK /\ FlagsOK /\ WorkerOK /\ EngineOK /\ ReaderOK /\ DataOK
  BY TypeParts DEF SourceInv
<1> USE DEF EndInv, ZeroAstray
<1>1. CASE \/ BeginPass /\ UNCHANGED <<failed, crashed>>
           \/ Parse /\ UNCHANGED <<failed, crashed>>
           \/ SetEOS /\ UNCHANGED <<failed, crashed>>
  <2>1. UNCHANGED <<source, parser, reader, engine, ended, cut, astray>>
    BY <1>1 DEF BeginPass, Parse, SetEOS, ghosts
  <2>2. \/ m_bEOS' = m_bEOS /\ worker'.pc # "end"
        \/ worker.pc = "end"
    BY <1>0, <1>1, IdlePc DEF BeginPass, Parse, SetEOS, WorkerOK, buffs, param
  <2> QED BY <2>1, <2>2 DEF source, parser
<1>2. CASE SendFrame /\ UNCHANGED <<failed, crashed>>
  <2> DEFINE t == m_nMediaType
  <2>1. /\ UNCHANGED <<source, reader, engine, ended, cut, m_bEOS, astray>> /\ worker.pc = "fetch"
        /\ next' = [next EXCEPT ![t] = IF worker.f.flag = "head" THEN @ ELSE @ + 1]
        /\ PassEnds(m_bEO)
    BY <1>2 DEF SendFrame, Send, ghosts
  <2>2. worker'.pc = "end" => \A x \in Type : m_bEO[x]
    BY <2>1, IdlePc DEF PassEnds
  <2>3. t \in Type /\ (worker.f.flag # "head" => next[t] < N) /\ engine.pc # "parser"
    BY <1>0, <2>1 DEF LockInv
  <2>4. \A x \in Type : next[x] = N => next'[x] = N
    BY <1>0, <2>1, <2>3 DEF DataOK
  <2> QED BY <2>1, <2>2, <2>3, <2>4 DEF source
<1>3. CASE \/ ParseEnd /\ UNCHANGED <<failed, crashed>>
           \/ FetchEnd /\ UNCHANGED crashed
  <2> DEFINE t == m_nMediaType
  <2>1. /\ UNCHANGED <<next, reader, engine, ended, m_bEOS, astray>> /\ worker.pc \in {"parse", "fetch"}
        /\ m_bEO' = [m_bEO EXCEPT ![t] = TRUE] /\ SecondTry(t, m_bEO')
        /\ \/ next[t] = N /\ cut' = cut
           \/ cut' = [cut EXCEPT ![t] = TRUE]
    BY <1>3 DEF ParseEnd, FetchEnd, FetchFailed, AtEnd, parser, ghosts
  <2>2. t \in Type /\ engine.pc # "parser"
    BY <1>0, <2>1 DEF LockInv
  <2>3. worker'.pc = "end" => \A x \in Type : m_bEO'[x]
    BY <2>1, IdlePc DEF SecondTry, PassEnds
  <2>4. /\ m_bEO'[t] = TRUE /\ ((next[t] = N /\ cut' = cut) \/ cut'[t] = TRUE)
        /\ \A x \in Type : x # t => m_bEO'[x] = m_bEO[x] /\ cut'[x] = cut[x]
    BY <1>0, <2>1, <2>2 DEF FlagsOK
  <2> QED BY <2>1, <2>2, <2>3, <2>4
<1>4. CASE FetchRetry /\ UNCHANGED crashed
  <2>1. UNCHANGED <<m_bEO, next, reader, engine, ended, cut, m_bEOS, astray>>
    BY <1>4 DEF FetchRetry, FetchFailed, parser
  <2>2. worker'.pc = "end" => \A x \in Type : m_bEO[x]
    BY <1>4, IdlePc DEF FetchRetry, PassEnds
  <2> QED BY <2>1, <2>2
<1>5. ASSUME NEW t \in Type,
             \/ BeginRead(t) /\ UNCHANGED <<failed, crashed>>
             \/ AskEnd(t) /\ UNCHANGED <<failed, crashed>>
             \/ StopWaiting(t) /\ UNCHANGED <<failed, crashed>>
             \/ Deliver(t) /\ UNCHANGED <<failed, crashed>>
             \/ EndRead(t) /\ UNCHANGED <<failed, crashed>>
      PROVE  EndInv'
  <2>1. UNCHANGED <<m_bEO, next, engine, cut, m_bEOS, worker, astray>>
    BY <1>5, EndFrame
  <2>2. \A x \in Type : reader'[x].rc = "finish" => reader[x].rc = "finish"
    <3>1. \/ Returns(t) \/ reader' = Pc(t, "wait") \/ reader' = Pc(t, "end")
          \/ \E o : reader' = [reader EXCEPT ![t] = Reader("read", "none", Null, o)]
          \/ reader' = [reader EXCEPT ![t] = Reader("end", "none", Null, FALSE)]
      BY <1>5 DEF BeginRead, AskEnd, StopWaiting, Deliver, EndRead
    <3> QED BY <1>0, <3>1 DEF Returns, Pc, Reader, ReaderOK
  <2>3. \A x \in Type : ended'[x] => m_bEO[x]
    <3>1. \/ ended' = ended
          \/ ended' = [ended EXCEPT ![t] = TRUE] /\ m_bEO[t]
          \/ ended' = [ended EXCEPT ![t] = reader[t].rc = "finish"]
      BY <1>5 DEF BeginRead, AskEnd, StopWaiting, Deliver, EndRead, ghosts
    <3> QED BY <1>0, <3>1 DEF FlagsOK
  <2> QED BY <2>1, <2>2, <2>3
<1>6. ASSUME NEW t \in Type, ReadBuff(t) /\ UNCHANGED failed
      PROVE  EndInv'
  <2>1. PICK pos \in Wanted(t) :
          LET r == ReadResult(t, pos) IN
          /\ Read(r)
          /\ \/ r.rc = "finish" /\ Returns(t) /\ ended' = [ended EXCEPT ![t] = TRUE]
             \/ /\ ended' = ended
                /\ reader' = [reader EXCEPT ![t].f = r.f, ![t].rc = r.rc,
                    ![t].pc = IF r.rc = "frame" THEN "got"
                              ELSE IF @ = "read" THEN "eo" ELSE @]
    BY <1>6, EndOfRead, Zenon
  <2> DEFINE r == ReadResult(t, pos)
  <2>2. r.rc = "finish" => m_bEO[t]
    <3>1. pos \in Nat
      BY FileAssumption DEF Wanted
    <3>2. r.rc = "finish" => m_bEOS
      BY <1>0, <3>1, ReadResultType
    <3> QED BY <3>2
  <2>3. UNCHANGED <<m_bEO, next, engine, cut, worker, astray>> /\ m_bEOS' = m_bEOS
    BY <1>6, <2>1 DEF ReadBuff, Read, source, parser, pass
  <2>4. \/ r.rc = "finish" /\ Returns(t) /\ ended' = [ended EXCEPT ![t] = TRUE]
        \/ /\ ended' = ended
           /\ reader' = [reader EXCEPT ![t].f = r.f, ![t].rc = r.rc,
                    ![t].pc = IF r.rc = "frame" THEN "got"
                              ELSE IF @ = "read" THEN "eo" ELSE @]
    BY <2>1
  <2> HIDE DEF r
  <2>5. \A x \in Type : reader'[x].rc = "finish" => m_bEO[x]
    BY <1>0, <2>2, <2>4 DEF Returns, Reader, ReaderOK
  <2>6. \A x \in Type : ended'[x] => m_bEO[x]
    BY <1>0, <2>2, <2>4 DEF FlagsOK
  <2> QED BY <2>3, <2>5, <2>6
<1>7. CASE BaseSetPos /\ UNCHANGED <<failed, crashed>>
  <2>1. /\ UNCHANGED <<worker, reader, next>> /\ m_lckReader = "none" /\ engine.pc = "base"
        /\ (engine' = Engine("idle", 0) \/ engine' = [engine EXCEPT !.pc = "parser"])
    BY <1>7 DEF BaseSetPos, SetPosReturned, parser
  <2>2. engine.pos \in Pos /\ worker.pc = "idle" /\ \A x \in Type : reader[x].rc # "finish"
    <3>1. "none" \notin Type
      BY DEF Type
    <3> QED BY <1>0, <2>1, <3>1 DEF LockInv
  <2>3. engine'.pc # "idle" => engine'.pos \in Pos
    BY <1>0, <2>1, <2>2 DEF Engine, EngineOK
  <2>4. \/ /\ UNCHANGED <<buffs, source, ended, cut>>
           /\ IF engine.pos = 0 THEN astray' = TRUE
              ELSE engine' = Engine("idle", 0) /\ astray' = astray
        \/ Rewind(engine.pos) /\ ended' = [t \in Type |-> FALSE]
    <3>1. astray \in BOOLEAN
      BY <1>0 DEF FlagsOK
    <3> QED BY <1>7, <3>1 DEF BaseSetPos, Answered, SetPosReturned
  <2>5. CASE /\ UNCHANGED <<buffs, source, ended, cut>>
             /\ IF engine.pos = 0 THEN astray' = TRUE
                ELSE engine' = Engine("idle", 0) /\ astray' = astray
    <3>1. (engine'.pc = "idle" /\ astray' = astray) \/ ZeroAstray'
      BY <2>2, <2>5 DEF Engine
    <3>2. UNCHANGED <<m_bEO, m_bEOS, next, reader, worker, ended, cut>>
      BY <2>1, <2>5 DEF buffs, param, source
    <3> QED BY <2>2, <2>3, <3>1, <3>2
  <2>6. CASE Rewind(engine.pos) /\ ended' = [t \in Type |-> FALSE]
    <3>1. m_bEOS' = FALSE /\ \A x \in Type : m_bEO'[x] = FALSE /\ ended'[x] = FALSE
      BY <2>6 DEF Rewind, BuffSetPos, ResetParam
    <3> QED BY <2>1, <2>2, <2>3, <3>1
  <2> QED BY <2>4, <2>5, <2>6
<1>8. CASE ParserSetPos /\ UNCHANGED <<failed, crashed>>
  <2>1. /\ UNCHANGED <<buffs, source, worker, reader, ended, cut, astray>> /\ engine.pc = "parser"
        /\ engine' = Engine("idle", 0)
    BY <1>8 DEF ParserSetPos, SetPosReturned, ghosts
  <2>2. engine'.pc = "idle"
    BY <2>1 DEF Engine
  <2> QED BY <2>1, <2>2 DEF buffs, param, source
<1>9. CASE ParserSetPosFails /\ UNCHANGED <<failed, crashed>>
  <2>1. /\ UNCHANGED <<buffs, source, parser, worker, reader, ended, cut>> /\ engine' = Engine("idle", 0)
        /\ astray' = TRUE
    BY <1>9 DEF ParserSetPosFails, SetPosReturned
  <2>2. engine'.pc = "idle" /\ (ZeroAstray => ZeroAstray')
    BY <2>1 DEF Engine
  <2> QED BY <2>1, <2>2 DEF buffs, param, source, parser
<1>10. CASE LockSeek /\ UNCHANGED <<failed, crashed>>
  <2>1. /\ UNCHANGED <<buffs, source, parser, worker, reader, ended, cut, astray>> /\ engine.pc = "lock"
        /\ engine' = [engine EXCEPT !.pc = "base"]
    BY <1>10 DEF LockSeek, pass, ghosts
  <2>2. engine'.pc = "base" /\ engine'.pos = engine.pos
    BY <1>0, <2>1 DEF EngineOK
  <2> QED BY <2>1, <2>2 DEF buffs, param, source, parser
<1>11. ASSUME NEW p \in Pos, CallSetPos(p)
       PROVE  EndInv'
  <2>1. /\ UNCHANGED <<buffs, source, parser, worker, reader, ended, cut, astray>>
        /\ engine' = Engine("lock", p)
    BY <1>11 DEF CallSetPos, pass, ghosts
  <2>2. engine'.pc = "lock" /\ engine'.pos = p
    BY <2>1 DEF Engine
  <2> QED BY <2>1, <2>2 DEF buffs, param, source, parser
<1>12. CASE Flush /\ UNCHANGED <<failed, crashed>>
  <2>1. /\ UNCHANGED <<source, parser, worker, reader, engine, ended, cut, astray>> /\ m_bEOS' = m_bEOS
    BY <1>12 DEF Flush, FlushBuff, pass
  <2> QED BY <2>1 DEF source, parser
<1> QED BY <1>1, <1>2, <1>3, <1>4, <1>5, <1>6, <1>7, <1>8, <1>9, <1>10, <1>11, <1>12, NextSteps

(* The end is reported only when the parser is at the end of the stream or  *)
(* a read failed (AskEnd, ReadBuff and EndRead tell it, AtEnd knows it).    *)
(* A second SetPos(0) in a row keeps m_bEOV and m_bEOA and moves the parser *)
(* (CQCSource.cpp:262): where 0 is among the positions, that is excepted.   *)
THEOREM FinishIsEndCorrect == Spec => [](ZeroAstray \/ FinishIsEnd)
<1>1. Init => EndInv
  BY DEF Init, BuffInit, EndInv, Idle, Reader, Engine
<1>2. SourceInv /\ EndInv /\ [Next]_vars => EndInv'
  <2> SUFFICES ASSUME SourceInv, EndInv, UNCHANGED vars PROVE EndInv'
    BY EndStep
  <2> QED BY DEF EndInv, ZeroAstray, vars, buffs, param, source, parser, pass, ghosts
<1>3. EndInv => ZeroAstray \/ FinishIsEnd
  BY DEF EndInv, FinishIsEnd
<1> QED BY <1>1, <1>2, <1>3, SourceAlways, PTL DEF Spec

-----------------------------------------------------------------------------
(* The order of the audio. *)

(* l is what comes before frame e, without gaps. *)
Continues(l, e) == \A i \in 1..Len(l) : l[i].time = e - Len(l) + i - 1

(* What was read, what is buffered and what the parser reads next. *)
Aligned ==
  LET a == m_lst["audio"] IN
  /\ Continues(a, next["audio"])
  /\ jump["audio"] = "no" => last["audio"] = next["audio"] - Len(a) - 1
  /\ engine.pc = "parser" => a = <<>> /\ jump["audio"] # "no"

(* Audio has no heads; the frame in hand is the next one; audio is dropped *)
(* for the sake of the video only after a seek.                            *)
AudioInv ==
  /\ \A i \in 1..Len(m_lst["audio"]) : m_lst["audio"][i].flag = "delta"
  /\ worker.pc = "fetch" /\ m_nMediaType = "audio" =>
       worker.f.time = next["audio"] /\ worker.f.flag = "delta"
  /\ m_llSeekPos # 0 /\ ~bNumRead => jump["audio"] # "no"
  /\ ~astray => Aligned

LEMMA SuffixContinues ==
  ASSUME NEW l \in Seq(Frame), NEW k \in 0..Len(l), NEW l2, Suffix(l2, l, k), NEW e \in Int
  PROVE  /\ Continues(l, e) => Continues(l2, e)
         /\ (\A i \in 1..Len(l) : l[i].flag = "delta") => \A i \in 1..Len(l2) : l2[i].flag = "delta"
<1>1. Len(l) \in Nat /\ Len(l2) = Len(l) - k /\ \A i \in 1..(Len(l) - k) : l2[i] = l[i + k]
  BY DEF Suffix
<1>2. ASSUME NEW i \in 1..Len(l2)
      PROVE  l2[i] = l[i + k] /\ i + k \in 1..Len(l) /\ e - Len(l) + (i + k) - 1 = e - Len(l2) + i - 1
  BY <1>1
<1> QED BY <1>2 DEF Continues

LEMMA AudioTypes ==
  ASSUME TypeOK
  PROVE  /\ m_lst["audio"] \in Seq(Frame) /\ Len(m_lst["audio"]) \in Nat /\ next["audio"] \in Nat
         /\ next \in [Type -> 0..N] /\ m_lst \in [Type -> Seq(Frame)]
         /\ last \in [Type -> Nat \cup {-1}] /\ jump \in [Type -> {"no", "seek", "flush"}]
         /\ "audio" \in Type /\ N \in Nat
<1>1. "audio" \in Type /\ N \in Nat
  BY FileAssumption DEF Type
<1>2. m_lst["audio"] \in Seq(Frame) /\ next["audio"] \in 0..N
  BY <1>1, TypeParts DEF BuffTypeOK, DataOK
<1>3. Len(m_lst["audio"]) \in Nat /\ next["audio"] \in Nat
  BY <1>1, <1>2
<1> QED BY <1>1, <1>2, <1>3, TypeParts DEF BuffTypeOK, DataOK

(* Steps that neither move audio nor the parser. *)
LEMMA AudioKept ==
  ASSUME SourceInv, AudioInv, Next,
         \/ BeginPass \/ ParseEnd \/ Parse \/ SetEOS \/ FetchRetry \/ FetchEnd
         \/ LockSeek \/ ParserSetPosFails \/ \E p \in Pos : CallSetPos(p)
         \/ \E t \in Type : BeginRead(t) \/ AskEnd(t) \/ StopWaiting(t) \/ Deliver(t) \/ EndRead(t)
  PROVE  AudioInv'
<1>0. TypeOK /\ LockInv /\ WorkerOK /\ EngineOK
  BY TypeParts DEF SourceInv
<1>1. UNCHANGED <<m_lst, next, last, jump, m_llSeekPos, bNumRead>> /\ astray' \in {astray, TRUE}
  BY DEF BeginPass, ParseEnd, Parse, SetEOS, FetchRetry, FetchEnd, FetchFailed, LockSeek,
     ParserSetPosFails, CallSetPos, BeginRead, AskEnd, StopWaiting, Deliver, EndRead,
     buffs, lists, param, parser, ghosts
<1>2. engine'.pc = "parser" => engine.pc = "parser"
  <2>1. \/ engine' = engine \/ engine'.pc \in {"idle", "base", "lock"}
    <3>1. CASE LockSeek
      BY <1>0, <3>1 DEF LockSeek, EngineOK
    <3>2. CASE ParserSetPosFails \/ \E p \in Pos : CallSetPos(p)
      BY <3>2 DEF ParserSetPosFails, CallSetPos, SetPosReturned, Engine
    <3>3. CASE \/ BeginPass \/ ParseEnd \/ Parse \/ SetEOS \/ FetchRetry \/ FetchEnd
               \/ \E t \in Type : BeginRead(t) \/ AskEnd(t) \/ StopWaiting(t) \/ Deliver(t) \/ EndRead(t)
      BY <3>3 DEF BeginPass, ParseEnd, Parse, SetEOS, FetchRetry, FetchEnd, FetchFailed,
         BeginRead, AskEnd, StopWaiting, Deliver, EndRead
    <3> QED BY <3>1, <3>2, <3>3
  <2> QED BY <2>1
<1>3. worker'.pc = "fetch" /\ m_nMediaType' = "audio" =>
        worker'.f.time = next["audio"] /\ worker'.f.flag = "delta"
  <2>1. CASE Parse
    <3> DEFINE f == [time |-> IF HeadIsNext THEN 0 ELSE next[m_nMediaType],
                     flag |-> IF HeadIsNext THEN "head"
                              ELSE IF m_nMediaType = "video" /\ next[m_nMediaType] \in Key
                                   THEN "key" ELSE "delta"]
    <3>1. worker'.f = f /\ m_nMediaType' = m_nMediaType
      BY <1>0, <2>1 DEF Parse, WorkerOK
    <3>2. m_nMediaType = "audio" => f.time = next["audio"] /\ f.flag = "delta"
      BY DEF HeadIsNext
    <3> HIDE DEF f
    <3> QED BY <3>1, <3>2
  <2>2. CASE BeginPass \/ ParseEnd \/ SetEOS \/ FetchRetry \/ FetchEnd
    <3>1. worker'.pc # "fetch"
      BY <2>2, IdlePc DEF BeginPass, ParseEnd, SetEOS, FetchRetry, FetchEnd, SecondTry, PassEnds
    <3> QED BY <3>1
  <2>3. CASE \/ LockSeek \/ \E p \in Pos : CallSetPos(p)
             \/ \E t \in Type : BeginRead(t) \/ AskEnd(t) \/ StopWaiting(t) \/ Deliver(t) \/ EndRead(t)
    <3>1. UNCHANGED <<worker, m_nMediaType>>
      BY <2>3 DEF LockSeek, CallSetPos, BeginRead, AskEnd, StopWaiting, Deliver, EndRead, pass
    <3> QED BY <3>1 DEF AudioInv
  <2>4. CASE ParserSetPosFails
    <3>1. worker' = worker /\ worker.pc = "idle"
      BY <1>0, <2>4 DEF ParserSetPosFails, LockInv
    <3> QED BY <3>1
  <2> QED BY <2>1, <2>2, <2>3, <2>4
<1> QED BY <1>1, <1>2, <1>3 DEF AudioInv, Aligned, Continues

LEMMA AudioSend ==
  ASSUME SourceInv, AudioInv, SendFrame
  PROVE  AudioInv'
<1> DEFINE t == m_nMediaType
           f == worker.f
           a == m_lst["audio"]
<1>0. TypeOK /\ LockInv /\ WorkerOK
  BY TypeParts DEF SourceInv
<1>1. /\ a \in Seq(Frame) /\ Len(a) \in Nat /\ next["audio"] \in Nat
      /\ next \in [Type -> 0..N] /\ m_lst \in [Type -> Seq(Frame)]
      /\ last \in [Type -> Nat \cup {-1}] /\ jump \in [Type -> {"no", "seek", "flush"}]
      /\ "audio" \in Type
  BY <1>0, AudioTypes
<1>2. /\ worker.pc = "fetch" /\ Send(t, f) /\ t \in Type /\ f \in Frame /\ engine.pc # "parser"
      /\ next' = [next EXCEPT ![t] = IF f.flag = "head" THEN @ ELSE @ + 1]
      /\ UNCHANGED <<engine, last, jump, astray>>
  BY <1>0 DEF SendFrame, LockInv, WorkerOK, Null, Frame, Flag, ghosts
<1>3. worker'.pc # "fetch"
  BY IdlePc DEF SendFrame, PassEnds
<1>4. m_llSeekPos' # 0 /\ ~bNumRead' => jump'["audio"] # "no"
  <2>1. bNumRead' = bNumRead /\ jump' = jump /\ (m_llSeekPos' = m_llSeekPos \/ m_llSeekPos = -1)
    BY <1>2 DEF Send
  <2> QED BY <2>1 DEF AudioInv
<1>5. CASE t # "audio"
  <2>1. m_lst'["audio"] = a /\ next'["audio"] = next["audio"]
    BY <1>1, <1>2, <1>5 DEF Send
  <2> QED BY <1>2, <1>3, <1>4, <2>1 DEF AudioInv, Aligned, Continues
<1>6. CASE t = "audio"
  <2>1. f.time = next["audio"] /\ f.flag = "delta"
    BY <1>2, <1>6 DEF AudioInv
  <2>2. next'["audio"] = next["audio"] + 1
    BY <1>1, <1>2, <1>6, <2>1
  <2>3. m_lst'["audio"] = Append(a, f)
    <3>1. Retimed(a, f) = a
      <4>1. a # <<>> => Last(a).flag = "delta"
        BY <1>1, EmptySeq DEF Last, AudioInv
      <4> QED BY <4>1 DEF Retimed
    <3>2. ~Skipped(t, f)
      BY <1>6 DEF Skipped
    <3> QED BY <1>1, <1>2, <1>6, <3>1, <3>2 DEF Send
  <2> DEFINE b == Append(a, f)
             e == next["audio"]
  <2>4. /\ Len(b) = Len(a) + 1 /\ b[Len(a) + 1] = f
        /\ \A i \in 1..Len(a) : b[i] = a[i]
    <3> HIDE DEF a, f
    <3> QED BY <1>1, <1>2, AppendProperties
  <2>5. \A i \in 1..Len(a) : a[i].flag = "delta"
    BY DEF AudioInv
  <2> HIDE DEF b, f, a, e
  <2>6. \A i \in 1..Len(b) : b[i].flag = "delta"
    <3> TAKE i \in 1..Len(b)
    <3>1. i \in 1..Len(a) \/ i = Len(a) + 1
      BY <1>1, <2>4
    <3> QED BY <2>1, <2>4, <2>5, <3>1
  <2>7. Continues(a, e) => Continues(b, e + 1)
    <3> SUFFICES ASSUME Continues(a, e), NEW i \in 1..Len(b) PROVE b[i].time = (e + 1) - Len(b) + i - 1
      BY DEF Continues
    <3>0. e \in Nat /\ f.time = e
      BY <1>1, <2>1 DEF e
    <3>1. CASE i = Len(a) + 1
      BY <1>1, <2>4, <3>0, <3>1
    <3>2. CASE i # Len(a) + 1
      <4>1. i \in 1..Len(a)
        BY <1>1, <2>4, <3>2
      <4>2. b[i].time = e - Len(a) + i - 1
        BY <2>4, <4>1 DEF Continues
      <4> QED BY <1>1, <2>4, <3>0, <4>1, <4>2
    <3> QED BY <3>1, <3>2
  <2>8. e - Len(a) - 1 = (e + 1) - Len(b) - 1
    BY <1>1, <2>4 DEF e
  <2>9. ~astray => Aligned'
    <3>1. /\ m_lst'["audio"] = b /\ next'["audio"] = e + 1 /\ last' = last /\ jump' = jump
          /\ engine'.pc # "parser"
      BY <1>2, <2>2, <2>3 DEF b, e
    <3>2. Aligned => Continues(a, e) /\ (jump["audio"] = "no" => last["audio"] = e - Len(a) - 1)
      BY DEF Aligned, a, e
    <3>3. ~astray => Aligned
      BY DEF AudioInv
    <3>4. ASSUME ~astray PROVE Continues(b, e + 1) /\ (jump["audio"] = "no" => last["audio"] = (e + 1) - Len(b) - 1)
      BY <2>7, <2>8, <3>2, <3>3, <3>4
    <3>5. ASSUME ~astray PROVE Aligned'
      BY <3>1, <3>4, <3>5 DEF Aligned, Continues
    <3> QED BY <3>5
  <2> QED BY <1>2, <1>3, <1>4, <2>3, <2>6, <2>9 DEF AudioInv, b
<1> QED BY <1>5, <1>6

LEMMA AudioReadStep ==
  ASSUME SourceInv, AudioInv, NEW t \in Type, ReadBuff(t)
  PROVE  /\ AudioInv'
         /\ \/ last'["audio"] \in {last["audio"], last["audio"] + 1}
            \/ jump["audio"] # "no" \/ astray
<1> DEFINE a == m_lst["audio"]
           e == next["audio"]
<1>0. TypeOK /\ BuffTypeOK
  BY TypeParts DEF SourceInv
<1>1. /\ a \in Seq(Frame) /\ Len(a) \in Nat /\ e \in Nat
      /\ last \in [Type -> Nat \cup {-1}] /\ jump \in [Type -> {"no", "seek", "flush"}]
      /\ "audio" \in Type
  BY <1>0, AudioTypes
<1>2. PICK pos \in Wanted(t) :
        LET r == ReadResult(t, pos) IN
        /\ Read(r)
        /\ last' = [last EXCEPT ![t] = IF r.rc # "frame" \/ r.f.flag = "head" THEN @
                                       ELSE r.f.time]
        /\ jump' = [jump EXCEPT ![t] = IF r.rc = "frame" THEN "no" ELSE @]
  BY DEF ReadBuff
<1>3. UNCHANGED <<worker, m_nMediaType, next, engine, astray>>
  BY DEF ReadBuff, parser, pass
<1>4. pos \in Nat
  BY FileAssumption DEF Wanted
<1> DEFINE r == ReadResult(t, pos)
<1>5. PICK k \in 0..Len(a) :
        /\ Suffix(r.lst["audio"], a, k)
        /\ t = "audio" /\ r.rc = "frame" => k >= 1 /\ r.f = a[k] /\ (k = 1 \/ Syncing)
        /\ ~(t = "audio" /\ r.rc = "frame") => k = 0 \/ Syncing
  BY <1>0, <1>4, AudioRead
<1>6. /\ Read(r)
      /\ last' = [last EXCEPT ![t] = IF r.rc # "frame" \/ r.f.flag = "head" THEN @
                                     ELSE r.f.time]
      /\ jump' = [jump EXCEPT ![t] = IF r.rc = "frame" THEN "no" ELSE @]
  BY <1>2
<1> HIDE DEF r
<1> DEFINE b == m_lst'["audio"]
<1>7. /\ b = r.lst["audio"] /\ m_llSeekPos' = m_llSeekPos
      /\ bNumRead' = (bNumRead \/ r.rc = "frame")
  BY <1>6 DEF Read
<1>8. Syncing => jump["audio"] # "no"
  BY DEF AudioInv, Syncing
<1>9. \A i \in 1..Len(a) : a[i].flag = "delta"
  BY DEF AudioInv
<1>10. ~astray => /\ Continues(a, e)
                  /\ jump["audio"] = "no" => last["audio"] = e - Len(a) - 1
                  /\ engine.pc = "parser" => Len(a) = 0 /\ jump["audio"] # "no"
  <2>1. Len(<<>>) = 0
    OBVIOUS
  <2> QED BY <2>1 DEF AudioInv, Aligned
<1> HIDE DEF a, b, e
<1>11. /\ Continues(a, e) => Continues(b, e)
       /\ \A i \in 1..Len(b) : b[i].flag = "delta"
       /\ Len(b) = Len(a) - k
  <2>1. e \in Int /\ Suffix(b, a, k)
    BY <1>1, <1>5, <1>7
  <2>2. Len(b) = Len(a) - k
    BY <2>1 DEF Suffix
  <2> QED BY <1>1, <1>9, <2>1, <2>2, SuffixContinues
<1>12. CASE t = "audio" /\ r.rc = "frame"
  <2>1. k \in 1..Len(a) /\ r.f = a[k] /\ r.f.flag = "delta"
    BY <1>1, <1>5, <1>9, <1>12
  <2>2. last'["audio"] = a[k].time /\ jump'["audio"] = "no" /\ bNumRead'
    BY <1>1, <1>6, <1>7, <1>12, <2>1
  <2>3. ASSUME ~astray
        PROVE  /\ last'["audio"] = e - Len(b) - 1
               /\ jump["audio"] = "no" => last'["audio"] = last["audio"] + 1
    <3>1. a[k].time = e - Len(a) + k - 1
      BY <1>10, <2>1, <2>3 DEF Continues
    <3>2. last'["audio"] = e - Len(b) - 1
      BY <1>1, <1>11, <2>1, <2>2, <3>1
    <3>3. jump["audio"] = "no" => k = 1 /\ last["audio"] = e - Len(a) - 1
      BY <1>5, <1>8, <1>10, <1>12, <2>3
    <3>4. ASSUME jump["audio"] = "no" PROVE last'["audio"] = last["audio"] + 1
      BY <1>1, <2>2, <3>1, <3>3, <3>4
    <3> QED BY <3>2, <3>4
  <2>4. ~astray => engine.pc # "parser"
    BY <1>1, <1>10, <2>1
  <2>5. ~astray => Aligned'
    <3>1. ASSUME ~astray PROVE Aligned'
      BY <1>3, <1>10, <1>11, <2>3, <2>4, <3>1 DEF Aligned, b, e, Continues
    <3> QED BY <3>1
  <2>6. AudioInv'
    BY <1>3, <1>11, <2>2, <2>5 DEF AudioInv, b
  <2> QED BY <2>3, <2>6
<1>13. CASE ~(t = "audio" /\ r.rc = "frame")
  <2>1. last'["audio"] = last["audio"] /\ jump'["audio"] = jump["audio"]
    BY <1>1, <1>6, <1>13
  <2>2. k = 0 \/ jump["audio"] # "no"
    BY <1>5, <1>8, <1>13
  <2>3. jump["audio"] = "no" => Len(b) = Len(a)
    BY <1>1, <1>11, <2>2
  <2>4. engine.pc = "parser" /\ ~astray => b = <<>>
    <3>1. ASSUME engine.pc = "parser", ~astray PROVE b = <<>>
      <4>1. Len(b) = 0
        BY <1>1, <1>10, <1>11, <3>1
      <4>2. b \in Seq(Frame)
        <5>1. r.lst["audio"] \in Seq(Frame)
          BY <1>0, <1>1, <1>4, ReadResultType DEF r
        <5> QED BY <1>7, <5>1
      <4> QED BY <4>1, <4>2, EmptySeq
    <3> QED BY <3>1
  <2>5. ~astray => Aligned'
    <3>1. ASSUME ~astray PROVE Aligned'
      <4>1. /\ Continues(b, e)
            /\ jump["audio"] = "no" => last["audio"] = e - Len(b) - 1
            /\ engine.pc = "parser" => b = <<>> /\ jump["audio"] # "no"
        BY <1>10, <1>11, <2>3, <2>4, <3>1
      <4> QED BY <1>3, <2>1, <4>1 DEF Aligned, b, e, Continues
    <3> QED BY <3>1
  <2>6. m_llSeekPos' # 0 /\ ~bNumRead' => jump'["audio"] # "no"
    BY <1>7, <2>1 DEF AudioInv
  <2>7. AudioInv'
    BY <1>3, <1>11, <2>5, <2>6 DEF AudioInv, b
  <2> QED BY <2>1, <2>7
<1> QED BY <1>12, <1>13

LEMMA AudioSeek ==
  ASSUME SourceInv, AudioInv, BaseSetPos \/ ParserSetPos \/ Flush
  PROVE  AudioInv'
<1> DEFINE a == m_lst["audio"]
           e == next["audio"]
<1>0. TypeOK /\ BuffTypeOK /\ EngineOK /\ LockInv
  BY TypeParts DEF SourceInv
<1>1. a \in Seq(Frame) /\ Len(a) \in Nat /\ e \in Nat /\ "audio" \in Type
  BY <1>0, AudioTypes
<1>2. Len(<<>>) = 0
  OBVIOUS
<1>3. CASE BaseSetPos
  <2> DEFINE p == engine.pos
             same == m_llSrcSeekPos = p /\ \E t \in Type : m_bNewPos[t]
  <2>1. /\ next' = next /\ last' = last /\ worker' = worker /\ worker.pc = "idle"
        /\ (engine'.pc = "parser" => ~Answered(same, p))
        /\ astray' = ((same \/ InBuff(p)) /\ (astray \/ p = 0))
        /\ \/ same /\ UNCHANGED <<buffs, jump>>
           \/ ~same /\ BuffSetPos(p) /\ jump' = [t \in Type |-> "seek"]
    BY <1>0, <1>3 DEF BaseSetPos, Rewind, SetPosReturned, Engine, EngineOK, LockInv, parser
  <2>2. p \in Nat
    BY <1>0 DEF EngineOK
  <2> HIDE DEF p, same
  <2>3. CASE same /\ UNCHANGED <<buffs, jump>>
    <3>1. ~astray' => ~astray /\ engine'.pc # "parser"
      BY <2>1, <2>3 DEF Answered
    <3>2. UNCHANGED <<m_lst, m_llSeekPos, bNumRead>>
      BY <2>3 DEF buffs, lists, param
    <3> QED BY <2>1, <2>3, <3>1, <3>2 DEF AudioInv, Aligned, Continues
  <2>4. CASE ~same /\ BuffSetPos(p) /\ jump' = [t \in Type |-> "seek"]
    <3>1. jump'["audio"] = "seek"
      BY <1>1, <2>4
    <3> DEFINE b == m_lst'["audio"]
    <3>2. \/ InBuff(p) /\ \E k \in 0..Len(a) : Suffix(b, a, k)
          \/ ~InBuff(p) /\ b = <<>>
      <4>1. \A i \in 1..Len(a) : a[i].flag # "head"
        BY DEF AudioInv
      <4> QED BY <1>0, <2>2, <2>4, <4>1, SeekAudio
    <3>3. (\A i \in 1..Len(a) : a[i].flag = "delta") /\ (~astray => Continues(a, e))
      BY DEF AudioInv, Aligned
    <3> HIDE DEF a, b, e
    <3>4. CASE InBuff(p)
      <4>1. PICK k \in 0..Len(a) : Suffix(b, a, k)
        BY <3>2, <3>4
      <4>2. e \in Int
        BY <1>1
      <4>3. (\A i \in 1..Len(b) : b[i].flag = "delta") /\ (~astray => Continues(b, e))
        BY <1>1, <3>3, <4>1, <4>2, SuffixContinues
      <4>4. ~astray' => ~astray /\ engine'.pc # "parser"
        BY <2>1, <3>4 DEF Answered
      <4>5. ~astray' => Aligned'
        BY <2>1, <3>1, <4>3, <4>4 DEF Aligned, Continues, b, e
      <4> QED BY <2>1, <3>1, <4>3, <4>5 DEF AudioInv, b
    <3>5. CASE ~InBuff(p)
      <4>1. b = <<>> /\ Len(b) = 0
        BY <1>2, <3>2, <3>5
      <4>2. Aligned' /\ \A i \in 1..Len(b) : b[i].flag = "delta"
        BY <3>1, <4>1 DEF Aligned, Continues, b
      <4> QED BY <2>1, <3>1, <4>2 DEF AudioInv, b
    <3> QED BY <3>4, <3>5
  <2> QED BY <2>1, <2>3, <2>4
<1>4. CASE ParserSetPos
  <2>1. /\ UNCHANGED <<buffs, worker, astray, last, jump>> /\ engine.pc = "parser" /\ worker.pc = "idle"
        /\ engine'.pc = "idle"
    BY <1>0, <1>4 DEF ParserSetPos, SetPosReturned, Engine, LockInv, ghosts
  <2>2. UNCHANGED <<m_lst, m_llSeekPos, bNumRead>>
    BY <2>1 DEF buffs, lists, param
  <2>3. ~astray => a = <<>> /\ jump["audio"] # "no"
    BY <2>1 DEF AudioInv, Aligned
  <2>4. ~astray => Aligned'
    BY <1>2, <2>1, <2>2, <2>3 DEF Aligned, Continues
  <2> QED BY <2>1, <2>2, <2>4 DEF AudioInv
<1>5. CASE Flush
  <2>1. /\ m_lst'["audio"] = <<>> /\ jump'["audio"] # "no" /\ astray' = astray
        /\ UNCHANGED <<worker, m_nMediaType, next>>
    BY <1>1, <1>5 DEF Flush, FlushBuff, parser, pass
  <2>2. Aligned'
    BY <1>2, <2>1 DEF Aligned, Continues
  <2>3. \A i \in 1..Len(m_lst'["audio"]) : m_lst'["audio"][i].flag = "delta"
    BY <1>2, <2>1
  <2> QED BY <2>1, <2>2, <2>3 DEF AudioInv
<1> QED BY <1>3, <1>4, <1>5

LEMMA AudioStep == SourceInv /\ AudioInv /\ [Next]_vars => AudioInv'
<1> SUFFICES ASSUME SourceInv, AudioInv, [Next]_vars PROVE AudioInv'
  OBVIOUS
<1>1. CASE UNCHANGED vars
  BY <1>1 DEF AudioInv, Aligned, Continues, vars, buffs, lists, param, parser, pass, ghosts
<1>2. CASE Next
  <2>1. ASSUME NEW t \in Type, ReadBuff(t) PROVE AudioInv'
    BY <2>1, AudioReadStep
  <2>2. CASE SendFrame
    BY <2>2, AudioSend
  <2>3. CASE BaseSetPos \/ ParserSetPos \/ Flush
    BY <2>3, AudioSeek
  <2>4. CASE \/ BeginPass \/ ParseEnd \/ Parse \/ SetEOS \/ FetchRetry \/ FetchEnd
             \/ LockSeek \/ ParserSetPosFails \/ \E p \in Pos : CallSetPos(p)
             \/ \E t \in Type : BeginRead(t) \/ AskEnd(t) \/ StopWaiting(t) \/ Deliver(t) \/ EndRead(t)
    BY <1>2, <2>4, AudioKept
  <2> QED BY <1>2, <2>1, <2>2, <2>3, <2>4, NextSteps
<1> QED BY <1>1, <1>2

LEMMA AudioInit == Init => AudioInv
<1> SUFFICES ASSUME Init PROVE AudioInv
  OBVIOUS
<1>1. /\ m_lst["audio"] = <<>> /\ next["audio"] = 0 /\ last["audio"] = -1
      /\ worker.pc = "idle" /\ engine.pc = "idle" /\ m_llSeekPos = 0 /\ jump["audio"] = "no"
  BY DEF Init, BuffInit, Idle, Engine, Type
<1>2. Len(<<>>) = 0
  OBVIOUS
<1>3. 0 - 0 - 1 = -1
  OBVIOUS
<1>4. 1..Len(m_lst["audio"]) = {} /\ Len(m_lst["audio"]) = 0
  BY <1>1, <1>2
<1>5. Continues(m_lst["audio"], next["audio"])
  BY <1>4 DEF Continues
<1>6. Aligned
  BY <1>1, <1>3, <1>4, <1>5 DEF Aligned
<1> QED BY <1>1, <1>4, <1>6 DEF AudioInv

(* Only ReadBuff moves what was read. *)
LEMMA LastMoves ==
  ASSUME Next, last' # last
  PROVE  \E t \in Type : ReadBuff(t)
<1>1. UNCHANGED last \/ \E t \in Type : ReadBuff(t)
  BY NextSteps DEF BeginPass, ParseEnd, Parse, SendFrame, SetEOS, FetchRetry, FetchEnd, FetchFailed,
     LockSeek, BaseSetPos, ParserSetPos, ParserSetPosFails, CallSetPos, Flush,
     BeginRead, AskEnd, StopWaiting, Deliver, EndRead, ghosts
<1> QED BY <1>1

(* Outside a seek or a flush the renderer of the audio gets one frame after *)
(* the other: what is sent continues what is buffered, what is read is its  *)
(* first, and a seek moves the parser only after it emptied the list.       *)
THEOREM AudioContinuousCorrect == Spec => AudioContinuous
<1>1. Init => AudioInv
  BY AudioInit
<1>2. ASSUME SourceInv, AudioInv, [Next]_vars
      PROVE  [\/ last["audio"]' \in {last["audio"], last["audio"] + 1}
              \/ jump["audio"] # "no" \/ astray]_last
  <2>1. CASE last' = last
    BY <2>1
  <2>2. CASE last' # last
    <3>1. Next
      BY <1>2, <2>2 DEF vars, ghosts
    <3>2. PICK t \in Type : ReadBuff(t)
      BY <2>2, <3>1, LastMoves
    <3> QED BY <1>2, <3>2, AudioReadStep
  <2> QED BY <2>1, <2>2
<1> QED BY <1>1, <1>2, SourceAlways, AudioStep, PTL DEF Spec, AudioContinuous

-----------------------------------------------------------------------------
(* The order of the video. *)

IsFrame(f, n) == f.time = n /\ f.flag = IF n \in Key THEN "key" ELSE "delta"

(* Position of the first frame of a list that a head may begin. *)
Body(l) == IF l # <<>> /\ l[1].flag = "head" THEN 2 ELSE 1

(* The frames of l are what comes before frame e, without gaps. *)
IsStretch(l, e) == \A i \in Body(l)..Len(l) : IsFrame(l[i], e - Len(l) + i - 1)

(* The frame l begins with, e if it has none. *)
Starts(l, e) == e - Len(l) + Body(l) - 1

(* A key frame to wait for is in the list, or was read. *)
KeyAhead(k, first, e) == k # 0 => k < first \/ (k \in Key /\ k < e)

(* A head is the first of the list, and a key frame follows it.  After a   *)
(* flush nothing is sent before a key frame (m_bFlush).                    *)
VideoAligned ==
  LET l     == m_lst["video"]
      first == Starts(l, next["video"]) IN
  /\ IsStretch(l, next["video"])
  /\ engine.pc = "parser" => l = <<>> /\ m_llNextKeyTime = 0
  /\ engine.pc # "parser" =>
       /\ first \in Key \cup {N, last["video"] + 1} \/ m_bFlush
       /\ Body(l) = 2 \/ ~m_bReadVideoHead => first \in Key \cup {N}
  /\ ~m_bReadVideoHead => l = <<>>
  /\ m_bFlush => Len(l) < Body(l)
  /\ KeyAhead(m_llNextKeyTime, first, next["video"])

VideoInv ==
  /\ worker.pc = "fetch" /\ m_nMediaType = "video" =>
       IF worker.f.flag = "head" THEN ~m_bReadVideoHead
       ELSE m_bReadVideoHead /\ IsFrame(worker.f, next["video"])
  /\ ~crashed /\ ~astray => VideoAligned

LEMMA BodyType ==
  ASSUME NEW l \in Seq(Frame)
  PROVE  /\ Body(l) \in {1, 2} /\ Len(l) \in Nat /\ Body(l) <= Len(l) + 1
         /\ Body(l) = 2 <=> Len(l) >= 1 /\ l[1].flag = "head"
<1>1. Len(l) \in Nat /\ (l # <<>> <=> Len(l) >= 1)
  BY EmptySeq
<1> QED BY <1>1 DEF Body

LEMMA StretchType ==
  ASSUME NEW l \in Seq(Frame), NEW e \in Nat, IsStretch(l, e), NEW i \in Body(l)..Len(l)
  PROVE  /\ l[i].flag # "head" /\ l[i].time = e - Len(l) + i - 1
         /\ l[i].time \in Nat /\ l[i].time < e
         /\ l[i].flag = "key" <=> l[i].time \in Key
         /\ Starts(l, e) <= l[i].time
<1>1. Body(l) \in {1, 2} /\ Len(l) \in Nat
  BY BodyType
<1>2. i \in 1..Len(l)
  BY <1>1
<1>3. l[i].time \in Nat
  BY <1>2, FrameTimes
<1>4. IsFrame(l[i], e - Len(l) + i - 1)
  BY DEF IsStretch
<1>5. l[i].flag # "head" /\ l[i].time = e - Len(l) + i - 1 /\ (l[i].flag = "key" <=> l[i].time \in Key)
  BY <1>4 DEF IsFrame
<1>6. l[i].time < e /\ Starts(l, e) <= l[i].time
  BY <1>1, <1>2, <1>5 DEF Starts
<1> QED BY <1>3, <1>5, <1>6

(* What a read, a seek and a frame that is sent make of such a list. *)
LEMMA StretchSuffix ==
  ASSUME NEW l \in Seq(Frame), NEW e \in Nat, IsStretch(l, e),
         NEW k \in 1..Len(l), NEW l2 \in Seq(Frame), Suffix(l2, l, k)
  PROVE  IsStretch(l2, e) /\ Body(l2) = 1 /\ Starts(l2, e) = e - Len(l) + k
<1>1. Body(l) \in {1, 2} /\ Len(l) \in Nat /\ Len(l2) = Len(l) - k
      /\ Body(l2) \in {1, 2} /\ (Body(l2) = 2 => Len(l2) >= 1 /\ l2[1].flag = "head")
  BY BodyType DEF Suffix
<1>2. ASSUME NEW i \in 1..Len(l2)
      PROVE  l2[i].flag # "head" /\ IsFrame(l2[i], e - Len(l2) + i - 1)
  <2>1. i + k \in Body(l)..Len(l) /\ i \in 1..(Len(l) - k)
        /\ e - Len(l) + (i + k) - 1 = e - Len(l2) + i - 1
    BY <1>1
  <2>2. l2[i] = l[i + k]
    BY <2>1 DEF Suffix
  <2>3. IsFrame(l[i + k], e - Len(l) + (i + k) - 1)
    BY <2>1 DEF IsStretch
  <2>4. l[i + k].flag # "head"
    BY <2>1, StretchType
  <2> QED BY <2>1, <2>2, <2>3, <2>4
<1>3. Body(l2) = 1
  <2>1. ASSUME Body(l2) = 2 PROVE FALSE
    <3>1. 1 \in 1..Len(l2) /\ l2[1].flag = "head"
      BY <1>1, <2>1
    <3> QED BY <1>2, <3>1
  <2> QED BY <1>1, <2>1
<1>4. IsStretch(l2, e)
  BY <1>2, <1>3 DEF IsStretch
<1>5. Starts(l2, e) = e - Len(l) + k
  BY <1>1, <1>3 DEF Starts
<1> QED BY <1>3, <1>4, <1>5

LEMMA StretchSend ==
  ASSUME NEW l \in Seq(Frame), NEW e \in Nat, IsStretch(l, e), NEW f \in Frame, IsFrame(f, e)
  PROVE  LET l2 == Append(Retimed(l, f), f)
         IN  IsStretch(l2, e + 1) /\ Body(l2) = Body(l) /\ Starts(l2, e + 1) = Starts(l, e)
             /\ Len(l2) >= Body(l2)
<1> DEFINE r  == Retimed(l, f)
           l2 == Append(r, f)
<1>1. Body(l) \in {1, 2} /\ Len(l) \in Nat /\ Body(l) <= Len(l) + 1 /\ f.flag # "head"
      /\ (Body(l) = 2 <=> Len(l) >= 1 /\ l[1].flag = "head")
  BY BodyType DEF IsFrame
<1>2. r \in Seq(Frame) /\ Len(r) = Len(l)
  BY RetimedType
<1>3. /\ \A i \in Body(l)..Len(l) : r[i] = l[i]
      /\ Len(l) >= 1 => r[1].flag = l[1].flag
  <2>1. CASE r = l
    BY <2>1
  <2>2. CASE l # <<>> /\ Last(l).flag = "head" /\ r = [l EXCEPT ![Len(l)].time = f.time]
    <3>1. Len(l) >= 1 /\ l[Len(l)].flag = "head" /\ Len(l) \in 1..Len(l)
      BY <1>1, <2>2, EmptySeq DEF Last
    <3>2. Len(l) \notin Body(l)..Len(l)
      BY <3>1, StretchType
    <3>3. Len(l) < Body(l)
      BY <1>1, <3>2
    <3>4. Len(l) = 1 /\ Body(l) = 2
      <4> DEFINE n == Len(l)
                 b == Body(l)
      <4>1. n \in Nat /\ (b = 1 \/ b = 2) /\ n >= 1 /\ n < b
        BY <1>1, <3>1, <3>3
      <4> HIDE DEF n, b
      <4>2. n = 1 /\ b = 2
        BY <4>1
      <4> QED BY <4>2 DEF n, b
    <3>5. r[1].flag = l[1].flag
      <4> DEFINE g == [l[Len(l)] EXCEPT !.time = f.time]
      <4>1. r = [l EXCEPT ![Len(l)] = g]
        BY <2>2
      <4>2. l[Len(l)] \in Frame
        BY <3>1
      <4>3. g.flag = l[Len(l)].flag
        BY <4>2 DEF Frame
      <4> HIDE DEF g, r
      <4>4. r[Len(l)] = g
        BY <3>1, <4>1, ExceptSeq
      <4> QED BY <3>4, <4>3, <4>4
    <3> QED BY <3>3, <3>5, <1>1
  <2> QED BY <2>1, <2>2 DEF Retimed
<1> HIDE DEF r
<1>4. /\ l2 \in Seq(Frame) /\ Len(l2) = Len(l) + 1 /\ l2[Len(l) + 1] = f
      /\ \A i \in 1..Len(l) : l2[i] = r[i]
  BY <1>2, AppendProperties
<1> HIDE DEF l2
<1>5. Body(l2) = Body(l)
  <2>1. Body(l2) \in {1, 2} /\ (Body(l2) = 2 <=> Len(l2) >= 1 /\ l2[1].flag = "head")
    BY <1>4, BodyType
  <2>2. CASE Len(l) = 0
    BY <1>1, <1>4, <2>1, <2>2
  <2>3. CASE Len(l) >= 1
    <3>1. l2[1].flag = l[1].flag
      BY <1>1, <1>3, <1>4, <2>3
    <3> QED BY <1>1, <1>4, <2>1, <2>3, <3>1
  <2> QED BY <1>1, <2>2, <2>3
<1>6. IsStretch(l2, e + 1)
  <2> SUFFICES ASSUME NEW i \in Body(l)..Len(l2) PROVE IsFrame(l2[i], (e + 1) - Len(l2) + i - 1)
    BY <1>5 DEF IsStretch
  <2>1. CASE i = Len(l) + 1
    <3>1. (e + 1) - Len(l2) + i - 1 = e
      BY <1>1, <1>4, <2>1
    <3> QED BY <1>4, <2>1, <3>1
  <2>2. CASE i # Len(l) + 1
    <3>1. i \in Body(l)..Len(l) /\ i \in 1..Len(l) /\ (e + 1) - Len(l2) + i - 1 = e - Len(l) + i - 1
      BY <1>1, <1>4, <2>2
    <3>2. l2[i] = l[i]
      BY <1>3, <1>4, <3>1
    <3>3. IsFrame(l[i], e - Len(l) + i - 1)
      BY <3>1 DEF IsStretch
    <3> QED BY <3>1, <3>2, <3>3
  <2> QED BY <2>1, <2>2
<1>7. Starts(l2, e + 1) = Starts(l, e) /\ Len(l2) >= Body(l2)
  BY <1>1, <1>4, <1>5 DEF Starts
<1> QED BY <1>5, <1>6, <1>7 DEF l2, r

LEMMA StretchKept ==
  ASSUME NEW l \in Seq(Frame), NEW e \in Nat, IsStretch(l, e), NEW i \in Body(l)..Len(l)
  PROVE  /\ IsStretch(Kept(l, i), e) /\ Starts(Kept(l, i), e) = l[i].time
<1> DEFINE heads == {j \in 1..(i - 1) : l[j].flag = "head"}
           f == From(l, i)
           k == Kept(l, i)
<1>1. Body(l) \in {1, 2} /\ Len(l) \in Nat /\ (Body(l) = 2 <=> Len(l) >= 1 /\ l[1].flag = "head")
      /\ i \in 1..Len(l)
  BY BodyType
<1>2. \A j \in Body(l)..Len(l) : l[j].flag # "head"
  BY StretchType
<1>3. /\ f \in Seq(Frame) /\ Len(f) = Len(l) - i + 1
      /\ \A j \in 1..(Len(l) - i + 1) : f[j] = l[i + j - 1]
  <2>1. i \in 1..(Len(l) + 1)
    BY <1>1
  <2> QED BY <2>1, ListParts
<1>4. k = IF heads = {} THEN f ELSE <<l[LastOf(heads)]>> \o f
  BY DEF Kept
<1>5. l[i].time = e - Len(l) + i - 1
  BY StretchType
<1> HIDE DEF f, k
<1>6. CASE Body(l) = 1
  <2>1. heads = {}
    BY <1>1, <1>2, <1>6
  <2>2. k = f
    BY <1>4, <2>1
  <2>3. Body(k) = 1
    <3>1. k # <<>> /\ k[1] = l[i]
      BY <1>1, <1>3, <2>2
    <3> QED BY <1>2, <3>1 DEF Body
  <2>4. IsStretch(k, e)
    <3> SUFFICES ASSUME NEW j \in 1..Len(k) PROVE IsFrame(k[j], e - Len(k) + j - 1)
      BY <2>3 DEF IsStretch
    <3>0. Len(k) = Len(l) - i + 1 /\ j \in 1..(Len(l) - i + 1)
      BY <1>3, <2>2
    <3>1. i + j - 1 \in Body(l)..Len(l) /\ k[j] = l[i + j - 1]
          /\ e - Len(l) + (i + j - 1) - 1 = e - Len(k) + j - 1
      <4>1. i + j - 1 \in Body(l)..Len(l)
        BY <1>1, <1>6, <3>0
      <4>2. k[j] = l[i + j - 1]
        BY <1>3, <2>2, <3>0
      <4>3. e - Len(l) + (i + j - 1) - 1 = e - Len(k) + j - 1
        BY <1>1, <3>0
      <4> QED BY <4>1, <4>2, <4>3
    <3>2. IsFrame(l[i + j - 1], e - Len(l) + (i + j - 1) - 1)
      BY <3>1 DEF IsStretch
    <3> QED BY <3>1, <3>2
  <2>5. Starts(k, e) = l[i].time
    <3>1. Len(k) = Len(l) - i + 1 /\ Starts(k, e) = e - Len(k) + 1 - 1
      BY <1>3, <2>2, <2>3 DEF Starts
    <3> QED BY <1>1, <1>5, <3>1
  <2> QED BY <2>4, <2>5 DEF k
<1>7. CASE Body(l) = 2
  <2>1. heads = {1}
    <3>1. \A j \in 1..(i - 1) : j \in Body(l)..Len(l) \/ j = 1
      BY <1>1, <1>7
    <3>2. 1 \in 1..(i - 1)
      BY <1>1, <1>7
    <3> QED BY <1>1, <1>2, <1>7, <3>1, <3>2
  <2>2. LastOf(heads) = 1
    BY <2>1 DEF LastOf
  <2> DEFINE h == <<l[1]>>
  <2>3. k = h \o f
    BY <1>4, <2>1, <2>2
  <2>4. h \in Seq(Frame) /\ Len(h) = 1 /\ h[1] = l[1]
    BY <1>1, <1>7
  <2> HIDE DEF h
  <2>5. /\ k \in Seq(Frame) /\ Len(k) = 1 + Len(f)
        /\ \A j \in 1..(1 + Len(f)) : k[j] = IF j <= 1 THEN h[j] ELSE f[j - 1]
    <3>1. /\ h \o f \in Seq(Frame) /\ Len(h \o f) = Len(h) + Len(f)
          /\ \A j \in 1..(Len(h) + Len(f)) : (h \o f)[j] = IF j <= Len(h) THEN h[j] ELSE f[j - Len(h)]
      BY <1>3, <2>4, ConcatType
    <3> QED BY <2>3, <2>4, <3>1
  <2>6. Body(k) = 2
    <3>1. Len(k) >= 1 /\ k[1] = l[1]
      BY <1>1, <1>3, <2>4, <2>5
    <3> QED BY <1>1, <1>7, <2>5, <3>1, BodyType
  <2>7. IsStretch(k, e)
    <3> SUFFICES ASSUME NEW j \in 2..Len(k) PROVE IsFrame(k[j], e - Len(k) + j - 1)
      BY <2>6 DEF IsStretch
    <3>1. /\ j \in 1..(1 + Len(f)) /\ ~(j <= 1) /\ j - 1 \in 1..(Len(l) - i + 1)
          /\ i + (j - 1) - 1 \in Body(l)..Len(l)
          /\ e - Len(l) + (i + (j - 1) - 1) - 1 = e - Len(k) + j - 1
      BY <1>1, <1>3, <1>7, <2>5
    <3>2. k[j] = l[i + (j - 1) - 1]
      BY <1>3, <2>5, <3>1
    <3>3. IsFrame(l[i + (j - 1) - 1], e - Len(l) + (i + (j - 1) - 1) - 1)
      BY <3>1 DEF IsStretch
    <3> QED BY <3>1, <3>2, <3>3
  <2>8. Starts(k, e) = l[i].time
    BY <1>1, <1>3, <1>5, <2>5, <2>6 DEF Starts
  <2> QED BY <2>7, <2>8 DEF k
<1> QED BY <1>1, <1>6, <1>7

(* ReadVideo takes the first of a stretch, or a key frame. *)
LEMMA StretchRead ==
  ASSUME NEW l \in Seq(Frame), NEW e \in Nat, IsStretch(l, e), l # <<>>, NEW pos \in Nat,
         m_llNextKeyTime \in Nat, KeyAhead(m_llNextKeyTime, Starts(l, e), e)
  PROVE  LET r == ReadVideo(l, pos) IN
         /\ r.res \in {"frame", "crash"}
         /\ r.res = "frame" =>
              /\ r.n \in 1..Len(l) /\ Taken(r, l) = 0
              /\ r.n = 1 \/ (Body(l) = 1 /\ l[r.n].time \in Key)
              /\ KeyAhead(r.key, e - Len(l) + r.n, e)
<1> DEFINE key == NextKey(l, pos)
           n   == FirstFrom(l, key)
           r   == ReadVideo(l, pos)
           first == e - Len(l)
<1>1. /\ Body(l) \in {1, 2} /\ Len(l) \in Nat /\ Len(l) >= 1 /\ first \in Int
      /\ (Body(l) = 2 <=> l[1].flag = "head") /\ 1 \in 1..Len(l)
  <2>1. Len(l) >= 1
    BY EmptySeq
  <2> QED BY <2>1, BodyType
<1>2. r = IF l = <<>> THEN Result("none", 0, m_llNextKeyTime)
          ELSE IF OnTime(l[1], pos) THEN Result("frame", 1, m_llNextKeyTime)
          ELSE IF key > 0 /\ key > pos THEN Result("frame", 1, key)
          ELSE IF n > Len(l) THEN Result("none", Len(l), 0)
          ELSE IF n > 1 /\ n + Behind(l, n) = Len(l) THEN Result("crash", n, 0)
          ELSE Result("frame", n, 0)
  BY DEF ReadVideo
<1> HIDE DEF r
<1>3. ASSUME r.res = "frame", r.n = 1 PROVE Taken(r, l) = 0
  BY <1>3 DEF Taken, Behind
<1>4. Starts(l, e) <= first + 1
  BY <1>1 DEF Starts
<1>5. CASE OnTime(l[1], pos)
  <2>1. r = Result("frame", 1, m_llNextKeyTime)
    BY <1>2, <1>5
  <2>2. r.res = "frame" /\ r.n = 1 /\ r.key = m_llNextKeyTime
    BY <2>1 DEF Result
  <2>3. KeyAhead(m_llNextKeyTime, first + 1, e)
    <3>1. Starts(l, e) \in Int
      BY <1>1 DEF Starts
    <3> HIDE DEF first
    <3> QED BY <1>1, <1>4, <3>1 DEF KeyAhead
  <2> QED BY <1>1, <1>3, <2>2, <2>3 DEF r
<1>6. CASE ~OnTime(l[1], pos)
  <2>1. Body(l) = 1 /\ Starts(l, e) = first
    <3>1. l[1].flag # "head"
      BY <1>6 DEF OnTime
    <3> QED BY <1>1, <3>1 DEF Starts
  <2>2. \A i \in 1..Len(l) : /\ l[i].time = first + i - 1 /\ l[i].time \in Nat /\ l[i].time < e
                             /\ l[i].flag = "key" <=> l[i].time \in Key
    BY <2>1, StretchType
  <2>3. first \in Nat /\ l[1].time = first
    <3>1. l[1].time = first + 1 - 1 /\ l[1].time \in Nat
      BY <1>1, <2>2
    <3> QED BY <1>1, <3>1
  <2>4. key \in Nat /\ (key <= first \/ (key \in Key /\ key < e))
    <3>1. /\ key \in Nat
          /\ \/ key \in {0, m_llNextKeyTime}
             \/ \E i \in 1..Len(l) : l[i].flag = "key" /\ key = l[i].time
      BY NextKeyType
    <3>2. m_llNextKeyTime # 0 => m_llNextKeyTime < first \/ (m_llNextKeyTime \in Key /\ m_llNextKeyTime < e)
      BY <2>1 DEF KeyAhead
    <3> HIDE DEF key, first
    <3> QED BY <2>2, <2>3, <3>1, <3>2
  <2> HIDE DEF key
  <2>5. n \in 1..Len(l) /\ (n = 1 \/ l[n].time \in Key)
    <3>1. CASE key <= first
      <4>1. FirstFrom(l, key) = 1
        <5>1. 1 \in 1..(Len(l) + 1) /\ l[1].time >= key /\ 1..(1 - 1) = {} /\ key \in Int
          BY <1>1, <2>3, <2>4, <3>1
        <5> QED BY <5>1, FirstFromIs
      <4> QED BY <1>1, <4>1
    <3>2. CASE key > first
      <4> DEFINE i == key - first + 1
      <4>1. i \in 1..Len(l) /\ i \in 1..(Len(l) + 1) /\ key \in Key /\ first + i - 1 = key /\ key \in Int
        BY <1>1, <2>3, <2>4, <3>2
      <4> HIDE DEF i
      <4>2. l[i].time = key
        BY <2>2, <4>1
      <4>3. \A j \in 1..(i - 1) : l[j].time < key
        <5> TAKE j \in 1..(i - 1)
        <5>1. j \in 1..Len(l) /\ first + j - 1 < key
          BY <1>1, <2>3, <2>4, <4>1
        <5> QED BY <2>2, <5>1
      <4>4. FirstFrom(l, key) = i
        <5>1. i <= Len(l) => l[i].time >= key
          BY <2>4, <4>2
        <5> QED BY <4>1, <4>3, <5>1, FirstFromIs
      <4> QED BY <4>1, <4>2, <4>4
    <3> QED BY <2>3, <2>4, <3>1, <3>2
  <2> HIDE DEF n
  <2>6. Behind(l, n) = 0
    <3>1. CASE n = 1
      BY <3>1 DEF Behind
    <3>2. CASE n # 1
      <4> DEFINE f == From(l, n + 1)
      <4>1. n + 1 \in 1..(Len(l) + 1) /\ l[n].time \in Int /\ l[n].time = first + n - 1
        BY <1>1, <2>2, <2>5
      <4>2. /\ f \in Seq(Frame) /\ Len(f) = Len(l) - (n + 1) + 1
            /\ \A j \in 1..(Len(l) - (n + 1) + 1) : f[j] = l[(n + 1) + j - 1]
        BY <4>1, ListParts
      <4>3. 1 <= Len(f) => f[1].time >= l[n].time
        <5> SUFFICES ASSUME 1 <= Len(f) PROVE f[1].time >= l[n].time
          OBVIOUS
        <5>1. n + 1 \in 1..Len(l) /\ 1 \in 1..(Len(l) - (n + 1) + 1) /\ (n + 1) + 1 - 1 = n + 1
          BY <1>1, <2>5, <4>2
        <5>2. f[1] = l[n + 1]
          BY <4>2, <5>1
        <5>3. l[n + 1].time = first + (n + 1) - 1
          BY <2>2, <5>1
        <5> QED BY <2>3, <2>5, <4>1, <5>2, <5>3
      <4> HIDE DEF f
      <4>4. FirstFrom(f, l[n].time) = 1
        <5>1. 1 \in 1..(Len(f) + 1) /\ 1..(1 - 1) = {}
          BY <4>2
        <5> QED BY <4>1, <4>2, <4>3, <5>1, FirstFromIs
      <4> QED BY <3>2, <4>4 DEF Behind, f
    <3> QED BY <3>1, <3>2
  <2>7. CASE key > 0 /\ key > pos
    <3>1. r = Result("frame", 1, key)
      BY <1>2, <1>6, <2>7
    <3>2. r.res = "frame" /\ r.n = 1 /\ r.key = key
      BY <3>1 DEF Result
    <3>3. KeyAhead(key, first + 1, e)
      BY <2>3, <2>4 DEF KeyAhead
    <3> QED BY <1>1, <1>3, <3>2, <3>3 DEF r
  <2>8. CASE ~(key > 0 /\ key > pos)
    <3>1. r = Result("crash", n, 0) \/ r = Result("frame", n, 0)
      <4>1. ~(n > Len(l))
        BY <1>1, <2>5
      <4> QED BY <1>2, <1>6, <2>8, <4>1
    <3>2. r.res \in {"frame", "crash"} /\ r.n = n /\ r.key = 0
      BY <3>1 DEF Result
    <3>3. Taken(r, l) = 0
      BY <2>6, <3>2 DEF Taken
    <3>4. KeyAhead(r.key, e - Len(l) + r.n, e)
      BY <3>2 DEF KeyAhead
    <3> QED BY <2>1, <2>5, <3>2, <3>3, <3>4 DEF r
  <2> QED BY <2>7, <2>8
<1> QED BY <1>5, <1>6

LEMMA VideoTypes ==
  ASSUME TypeOK
  PROVE  /\ m_lst["video"] \in Seq(Frame) /\ next["video"] \in Nat /\ next["video"] <= N
         /\ next \in [Type -> 0..N] /\ m_lst \in [Type -> Seq(Frame)]
         /\ last \in [Type -> Nat \cup {-1}] /\ m_llNextKeyTime \in Nat
         /\ "video" \in Type /\ N \in Nat /\ m_bFlush \in BOOLEAN
<1>1. "video" \in Type /\ N \in Nat
  BY FileAssumption DEF Type
<1>2. m_lst["video"] \in Seq(Frame) /\ next["video"] \in 0..N
  BY <1>1, TypeParts DEF BuffTypeOK, DataOK
<1>3. next["video"] \in Nat /\ next["video"] <= N
  BY <1>1, <1>2
<1> QED BY <1>1, <1>2, <1>3, TypeParts DEF BuffTypeOK, DataOK

(* Steps that neither move video nor the parser. *)
LEMMA VideoKept ==
  ASSUME SourceInv, VideoInv, Next, UNCHANGED crashed,
         \/ BeginPass \/ ParseEnd \/ Parse \/ SetEOS \/ FetchRetry \/ FetchEnd
         \/ LockSeek \/ ParserSetPosFails \/ \E p \in Pos : CallSetPos(p)
         \/ \E t \in Type : BeginRead(t) \/ AskEnd(t) \/ StopWaiting(t) \/ Deliver(t) \/ EndRead(t)
  PROVE  VideoInv'
<1>0. TypeOK /\ LockInv /\ WorkerOK /\ EngineOK
  BY TypeParts DEF SourceInv
<1>1. UNCHANGED <<m_lst, next, last, m_bReadVideoHead, m_llNextKeyTime, m_bFlush>>
      /\ astray' \in {astray, TRUE}
  BY DEF BeginPass, ParseEnd, Parse, SetEOS, FetchRetry, FetchEnd, FetchFailed, LockSeek,
     ParserSetPosFails, CallSetPos, BeginRead, AskEnd, StopWaiting, Deliver, EndRead,
     buffs, lists, param, parser, ghosts
<1>2. (engine'.pc = "parser" <=> engine.pc = "parser") \/ astray'
  <2>1. CASE LockSeek
    <3>1. engine.pc = "lock" /\ engine'.pc = "base"
      BY <1>0, <2>1 DEF LockSeek, EngineOK
    <3> QED BY <3>1
  <2>2. CASE ParserSetPosFails
    BY <2>2 DEF ParserSetPosFails
  <2>3. CASE \E p \in Pos : CallSetPos(p)
    <3>1. engine.pc = "idle" /\ engine'.pc = "lock"
      BY <2>3 DEF CallSetPos, Engine
    <3> QED BY <3>1
  <2>4. CASE \/ BeginPass \/ ParseEnd \/ Parse \/ SetEOS \/ FetchRetry \/ FetchEnd
             \/ \E t \in Type : BeginRead(t) \/ AskEnd(t) \/ StopWaiting(t) \/ Deliver(t) \/ EndRead(t)
    <3>1. engine' = engine
      BY <2>4 DEF BeginPass, ParseEnd, Parse, SetEOS, FetchRetry, FetchEnd, FetchFailed,
         BeginRead, AskEnd, StopWaiting, Deliver, EndRead
    <3> QED BY <3>1
  <2> QED BY <2>1, <2>2, <2>3, <2>4
<1>3. worker'.pc = "fetch" /\ m_nMediaType' = "video" =>
        IF worker'.f.flag = "head" THEN ~m_bReadVideoHead'
        ELSE m_bReadVideoHead' /\ IsFrame(worker'.f, next'["video"])
  <2>1. CASE Parse
    <3> DEFINE f == [time |-> IF HeadIsNext THEN 0 ELSE next[m_nMediaType],
                     flag |-> IF HeadIsNext THEN "head"
                              ELSE IF m_nMediaType = "video" /\ next[m_nMediaType] \in Key
                                   THEN "key" ELSE "delta"]
    <3>1. worker'.f = f /\ m_nMediaType' = m_nMediaType
      BY <1>0, <2>1 DEF Parse, WorkerOK
    <3>2. m_nMediaType = "video" => IF f.flag = "head" THEN ~m_bReadVideoHead
                                    ELSE m_bReadVideoHead /\ IsFrame(f, next["video"])
      <4>1. m_bReadVideoHead \in BOOLEAN
        BY <1>0, TypeParts DEF FlagsOK
      <4> QED BY <4>1 DEF HeadIsNext, IsFrame
    <3> HIDE DEF f
    <3> QED BY <1>1, <3>1, <3>2
  <2>2. CASE BeginPass \/ ParseEnd \/ SetEOS \/ FetchRetry \/ FetchEnd
    <3>1. worker'.pc # "fetch"
      BY <2>2, IdlePc DEF BeginPass, ParseEnd, SetEOS, FetchRetry, FetchEnd, SecondTry, PassEnds
    <3> QED BY <3>1
  <2>3. CASE \/ LockSeek \/ \E p \in Pos : CallSetPos(p)
             \/ \E t \in Type : BeginRead(t) \/ AskEnd(t) \/ StopWaiting(t) \/ Deliver(t) \/ EndRead(t)
    <3>1. UNCHANGED <<worker, m_nMediaType>>
      BY <2>3 DEF LockSeek, CallSetPos, BeginRead, AskEnd, StopWaiting, Deliver, EndRead, pass
    <3> QED BY <1>1, <3>1 DEF VideoInv
  <2>4. CASE ParserSetPosFails
    <3>1. worker' = worker /\ worker.pc = "idle"
      BY <1>0, <2>4 DEF ParserSetPosFails, LockInv
    <3> QED BY <3>1
  <2> QED BY <2>1, <2>2, <2>3, <2>4
<1>4. ~crashed' /\ ~astray' => VideoAligned'
  <2> SUFFICES ASSUME ~crashed', ~astray' PROVE VideoAligned'
    OBVIOUS
  <2>1. VideoAligned
    BY <1>1 DEF VideoInv
  <2>2. engine'.pc = "parser" <=> engine.pc = "parser"
    BY <1>2
  <2> QED BY <1>1, <2>1, <2>2 DEF VideoAligned, IsStretch, Starts, KeyAhead, Body, IsFrame
<1> QED BY <1>3, <1>4 DEF VideoInv

LEMMA VideoSend ==
  ASSUME SourceInv, AudioInv, VideoInv, SendFrame, UNCHANGED crashed
  PROVE  VideoInv'
<1> DEFINE t == m_nMediaType
           f == worker.f
           l == m_lst["video"]
           e == next["video"]
<1>0. TypeOK /\ LockInv /\ WorkerOK
  BY TypeParts DEF SourceInv
<1>1. /\ l \in Seq(Frame) /\ e \in Nat /\ next \in [Type -> 0..N] /\ m_lst \in [Type -> Seq(Frame)]
      /\ "video" \in Type /\ N \in Nat /\ m_bFlush \in BOOLEAN /\ m_llNextKeyTime \in Nat
  BY <1>0, VideoTypes
<1>2. /\ worker.pc = "fetch" /\ Send(t, f) /\ t \in Type /\ f \in Frame /\ engine.pc # "parser"
      /\ next' = [next EXCEPT ![t] = IF f.flag = "head" THEN @ ELSE @ + 1]
      /\ m_bReadVideoHead' = (m_bReadVideoHead \/ f.flag = "head")
      /\ f.flag # "head" => next[t] < N
      /\ UNCHANGED <<engine, last, astray>> /\ m_llNextKeyTime' = m_llNextKeyTime
  BY <1>0 DEF SendFrame, LockInv, WorkerOK, Null, Frame, Flag, ghosts, Send
<1>3. worker'.pc # "fetch"
  BY IdlePc DEF SendFrame, PassEnds
<1> SUFFICES ASSUME ~crashed, ~astray PROVE VideoAligned'
  BY <1>2, <1>3 DEF VideoInv
<1>4. VideoAligned
  BY DEF VideoInv
<1> DEFINE first == Starts(l, e)
           k == m_llNextKeyTime
<1>5. /\ IsStretch(l, e) /\ KeyAhead(k, first, e)
      /\ first \in Key \cup {N, last["video"] + 1} \/ m_bFlush
      /\ Body(l) = 2 \/ ~m_bReadVideoHead => first \in Key \cup {N}
      /\ ~m_bReadVideoHead => l = <<>>
      /\ m_bFlush => Len(l) < Body(l)
  BY <1>2, <1>4 DEF VideoAligned
<1>6. /\ Body(l) \in {1, 2} /\ Len(l) \in Nat /\ Body(l) <= Len(l) + 1 /\ first = e - Len(l) + Body(l) - 1
      /\ first \in Int
  BY <1>1, BodyType DEF Starts
<1>7. CASE t # "video"
  <2>1. /\ m_lst'["video"] = l /\ next'["video"] = e /\ m_bFlush' = m_bFlush
        /\ m_bReadVideoHead' = m_bReadVideoHead
    <3>1. f.flag = "delta" /\ t = "audio"
      BY <1>2, <1>7 DEF AudioInv, Type
    <3>2. m_lst'["video"] = l /\ next'["video"] = e /\ m_bFlush' = m_bFlush
      BY <1>1, <1>2, <1>7 DEF Send
    <3>3. m_bReadVideoHead \in BOOLEAN
      BY <1>0, TypeParts DEF FlagsOK
    <3> QED BY <1>2, <3>1, <3>2, <3>3
  <2> QED BY <1>2, <1>4, <2>1 DEF VideoAligned
<1>8. CASE t = "video" /\ f.flag = "head"
  <2>1. l = <<>> /\ first = e /\ first \in Key \cup {N}
    <3>1. ~m_bReadVideoHead
      BY <1>2, <1>8 DEF VideoInv
    <3>2. l = <<>> /\ Len(l) = 0
      BY <1>5, <3>1
    <3>3. Body(l) = 1
      BY <3>2 DEF Body
    <3> QED BY <1>1, <1>5, <1>6, <3>1, <3>2, <3>3
  <2>2. m_lst'["video"] = <<f>> /\ m_bFlush' = m_bFlush /\ next'["video"] = e
    <3>1. ~Skipped(t, f) /\ Retimed(l, f) = l
      BY <1>8 DEF Skipped, Retimed
    <3>2. Append(<<>>, f) = <<f>>
      OBVIOUS
    <3> QED BY <1>1, <1>2, <1>8, <2>1, <3>1, <3>2 DEF Send
  <2>3. Body(<<f>>) = 2 /\ Len(<<f>>) = 1
    BY <1>8 DEF Body
  <2>4. IsStretch(<<f>>, e) /\ Starts(<<f>>, e) = e
    BY <1>1, <2>3 DEF IsStretch, Starts
  <2>5. KeyAhead(k, e, e) /\ m_bReadVideoHead'
    BY <1>2, <1>5, <1>8, <2>1
  <2> DEFINE l2 == <<f>>
  <2> HIDE DEF l2
  <2>6. /\ m_lst'["video"] = l2 /\ Starts(l2, e) = e /\ IsStretch(l2, e)
        /\ Body(l2) = 2 /\ Len(l2) < Body(l2)
    BY <2>2, <2>3, <2>4 DEF l2
  <2> QED BY <1>2, <2>1, <2>2, <2>5, <2>6 DEF VideoAligned
<1>9. CASE t = "video" /\ f.flag # "head"
  <2>1. /\ m_bReadVideoHead /\ m_bReadVideoHead' /\ IsFrame(f, e) /\ next'["video"] = e + 1 /\ e < N
    BY <1>1, <1>2, <1>9 DEF VideoInv
  <2>2. CASE Skipped(t, f)
    <3>1. m_lst' = m_lst /\ m_bFlush /\ m_bFlush' = m_bFlush /\ f.flag = "delta"
      BY <1>2, <2>2 DEF Send, Skipped
    <3>2. e \notin Key /\ e # N
      BY <1>1, <2>1, <3>1 DEF IsFrame
    <3>3. first = e /\ Starts(l, e + 1) = e + 1
      BY <1>1, <1>5, <1>6, <3>1 DEF Starts
    <3>4. Body(l) # 2
      BY <1>5, <3>2, <3>3
    <3>5. IsStretch(l, e + 1)
      <4>1. Body(l)..Len(l) = {}
        BY <1>5, <1>6, <3>1
      <4> QED BY <4>1 DEF IsStretch
    <3>6. KeyAhead(k, e + 1, e + 1)
      BY <1>1, <1>5, <3>3, FileAssumption DEF KeyAhead
    <3> QED BY <1>2, <1>5, <2>1, <3>1, <3>3, <3>4, <3>5, <3>6 DEF VideoAligned
  <2>3. CASE ~Skipped(t, f)
    <3> DEFINE l2 == Append(Retimed(l, f), f)
    <3>1. m_lst'["video"] = l2 /\ m_bFlush' = FALSE
      <4>1. m_lst'["video"] = l2 /\ m_bFlush' = (m_bFlush /\ ~(f.flag = "key"))
        BY <1>1, <1>2, <1>9, <2>3 DEF Send
      <4>2. m_bFlush => f.flag = "key"
        BY <1>2, <1>9, <2>3 DEF Skipped, Frame, Flag
      <4> QED BY <1>1, <4>1, <4>2
    <3>2. IsStretch(l2, e + 1) /\ Body(l2) = Body(l) /\ Starts(l2, e + 1) = first
      <4> HIDE DEF l, f, e
      <4> QED BY <1>1, <1>2, <1>5, <2>1, StretchSend
    <3> HIDE DEF l2
    <3>3. first \in Key \cup {N, last["video"] + 1}
      <4>1. CASE m_bFlush
        <5>1. first = e
          BY <1>1, <1>5, <1>6, <4>1
        <5>2. f.flag = "key"
          BY <1>2, <1>9, <2>3, <4>1 DEF Skipped, Frame, Flag
        <5> QED BY <2>1, <5>1, <5>2 DEF IsFrame
      <4> QED BY <1>5, <4>1
    <3>4. KeyAhead(k, first, e + 1)
      BY <1>1, <1>5, FileAssumption DEF KeyAhead
    <3> QED BY <1>2, <1>5, <2>1, <3>1, <3>2, <3>3, <3>4 DEF VideoAligned
  <2> QED BY <2>2, <2>3
<1> QED BY <1>7, <1>8, <1>9

LEMMA VideoReadStep ==
  ASSUME SourceInv, VideoInv, ~crashed, NEW t \in Type, ReadBuff(t)
  PROVE  /\ VideoInv'
         /\ last'["video"] \in {last["video"], last["video"] + 1} \cup Key \/ astray
<1> DEFINE l == m_lst["video"]
           e == next["video"]
           k == m_llNextKeyTime
           first == Starts(l, e)
<1>0. TypeOK /\ BuffTypeOK
  BY TypeParts DEF SourceInv
<1>1. /\ l \in Seq(Frame) /\ e \in Nat /\ e <= N /\ N \in Nat /\ k \in Nat
      /\ last \in [Type -> Nat \cup {-1}] /\ "video" \in Type
  BY <1>0, VideoTypes
<1>2. PICK pos \in Wanted(t) :
        LET r == ReadResult(t, pos) IN
        /\ Read(r) /\ crashed' = (r.rc = "crash")
        /\ last' = [last EXCEPT ![t] = IF r.rc # "frame" \/ r.f.flag = "head" THEN @
                                       ELSE r.f.time]
  BY DEF ReadBuff
<1>3. UNCHANGED <<worker, m_nMediaType, next, m_bReadVideoHead, engine, astray>>
  BY DEF ReadBuff, parser, pass
<1>4. pos \in Nat
  BY FileAssumption DEF Wanted
<1> DEFINE R == ReadResult(t, pos)
           r == ReadVideo(l, pos)
<1>5. \/ R.lst["video"] = l /\ R.key = k /\ ~(t = "video" /\ R.rc = "frame")
      \/ /\ t = "video" /\ l # <<>>
         /\ R.rc = (IF r.res # "none" THEN r.res
                    ELSE IF m_bEOS /\ r.n = Len(l) THEN "finish" ELSE "retry")
         /\ R.f = (IF r.res = "frame" THEN l[r.n] ELSE Null) /\ R.key = r.key
         /\ Suffix(R.lst["video"], l, r.n + Taken(r, l))
  BY <1>0, <1>4, VideoRead
<1>6. /\ m_lst'["video"] = R.lst["video"] /\ m_llNextKeyTime' = R.key /\ m_bFlush' = m_bFlush
      /\ crashed' = (R.rc = "crash")
      /\ last' = [last EXCEPT ![t] = IF R.rc # "frame" \/ R.f.flag = "head" THEN @ ELSE R.f.time]
  BY <1>2 DEF Read
<1>7. R.lst["video"] \in Seq(Frame)
  BY <1>0, <1>1, <1>4, ReadResultType
<1> HIDE DEF R
<1>8. VideoAligned' \/ crashed' \/ astray => VideoInv'
  BY <1>3 DEF VideoInv
<1>9. CASE astray
  BY <1>8, <1>9
<1>10. CASE ~astray /\ R.lst["video"] = l /\ R.key = k /\ ~(t = "video" /\ R.rc = "frame")
  <2>1. VideoAligned
    BY <1>10 DEF VideoInv
  <2>2. last'["video"] = last["video"]
    BY <1>1, <1>6, <1>10
  <2>3. VideoAligned'
    BY <1>3, <1>6, <1>10, <2>1, <2>2 DEF VideoAligned, IsStretch, Starts, KeyAhead, Body, IsFrame
  <2> QED BY <1>8, <2>2, <2>3
<1>11. CASE /\ ~astray /\ t = "video" /\ l # <<>>
            /\ R.rc = (IF r.res # "none" THEN r.res
                       ELSE IF m_bEOS /\ r.n = Len(l) THEN "finish" ELSE "retry")
            /\ R.f = (IF r.res = "frame" THEN l[r.n] ELSE Null) /\ R.key = r.key
            /\ Suffix(R.lst["video"], l, r.n + Taken(r, l))
  <2>1. VideoAligned
    BY <1>11 DEF VideoInv
  <2>2. /\ IsStretch(l, e) /\ KeyAhead(k, first, e) /\ engine.pc # "parser"
        /\ first \in Key \cup {N, last["video"] + 1} \/ m_bFlush
        /\ Body(l) = 2 \/ ~m_bReadVideoHead => first \in Key \cup {N}
        /\ m_bReadVideoHead /\ (m_bFlush => Len(l) < Body(l))
    BY <1>11, <2>1 DEF VideoAligned
  <2>3. /\ r.res \in {"frame", "crash"}
        /\ r.res = "frame" =>
             /\ r.n \in 1..Len(l) /\ Taken(r, l) = 0
             /\ r.n = 1 \/ (Body(l) = 1 /\ l[r.n].time \in Key)
             /\ KeyAhead(r.key, e - Len(l) + r.n, e)
    <3> HIDE DEF l, e
    <3> QED BY <1>1, <1>4, <1>11, <2>2, StretchRead DEF l
  <2> HIDE DEF r
  <2>4. CASE r.res = "crash"
    <3>1. crashed' /\ last'["video"] = last["video"]
      BY <1>1, <1>6, <1>11, <2>4
    <3> QED BY <1>8, <3>1
  <2>5. CASE r.res = "frame"
    <3> DEFINE n == r.n
               b == m_lst'["video"]
    <3>1. /\ R.rc = "frame" /\ R.f = l[n] /\ n \in 1..Len(l) /\ b = R.lst["video"]
          /\ m_llNextKeyTime' = r.key /\ KeyAhead(r.key, e - Len(l) + n, e)
          /\ n = 1 \/ (Body(l) = 1 /\ l[n].time \in Key)
      BY <1>6, <1>11, <2>3, <2>5
    <3>2. Suffix(b, l, n)
      <4>1. n + 0 = n
        BY <3>1
      <4>2. Taken(r, l) = 0
        BY <2>3, <2>5
      <4> QED BY <1>11, <3>1, <4>1, <4>2
    <3> HIDE DEF b, n, l, e
    <3>3. IsStretch(b, e) /\ Body(b) = 1 /\ Starts(b, e) = e - Len(l) + n
      BY <1>1, <1>7, <2>2, <3>1, <3>2, StretchSuffix
    <3>4. /\ Body(l) \in {1, 2} /\ Len(l) \in Nat /\ (Body(l) = 2 <=> Len(l) >= 1 /\ l[1].flag = "head")
          /\ n \in Nat /\ first = e - Len(l) + Body(l) - 1
      BY <1>1, <3>1, BodyType DEF Starts
    <3>5. CASE Body(l) = 2
      <4>1. n = 1 /\ l[n].flag = "head"
        BY <3>1, <3>4, <3>5
      <4>2. last'["video"] = last["video"]
        BY <1>1, <1>6, <1>11, <3>1, <4>1
      <4>3. Starts(b, e) = first
        BY <1>1, <3>3, <3>4, <3>5, <4>1
      <4>4. first \in Key \cup {N}
        BY <2>2, <3>5
      <4>5. m_bFlush => Len(b) < 1
        <5>1. Len(b) = Len(l) - n
          BY <3>2 DEF Suffix
        <5> QED BY <2>2, <3>4, <3>5, <4>1, <5>1
      <4>6. KeyAhead(r.key, Starts(b, e), e)
        BY <3>1, <3>3
      <4>7. VideoAligned'
        BY <1>3, <1>6, <2>2, <3>1, <3>3, <4>3, <4>4, <4>5, <4>6 DEF VideoAligned, b, e
      <4> QED BY <1>8, <4>2, <4>7
    <3>6. CASE Body(l) = 1
      <4>1. /\ l[n].flag # "head" /\ l[n].time = e - Len(l) + n - 1 /\ l[n].time \in Nat /\ l[n].time < e
        <5>1. n \in Body(l)..Len(l)
          BY <3>1, <3>6
        <5> QED BY <1>1, <2>2, <5>1, StretchType
      <4>2. last'["video"] = l[n].time
        BY <1>1, <1>6, <1>11, <3>1, <4>1
      <4>3. ~m_bFlush
        BY <2>2, <3>1, <3>4, <3>6
      <4>4. last'["video"] \in Key \cup {last["video"] + 1}
        <5>1. CASE n = 1
          <6>1. l[n].time = first /\ first # N
            BY <1>1, <3>4, <3>6, <4>1, <5>1
          <6> QED BY <2>2, <4>2, <4>3, <6>1
        <5>2. CASE n # 1
          BY <3>1, <4>2, <5>2
        <5> QED BY <5>1, <5>2
      <4>5. Starts(b, e) = last'["video"] + 1
        BY <1>1, <3>3, <3>4, <4>1, <4>2
      <4>6. KeyAhead(r.key, Starts(b, e), e)
        BY <3>1, <3>3
      <4>7. VideoAligned'
        BY <1>3, <1>6, <2>2, <3>1, <3>3, <4>3, <4>5, <4>6 DEF VideoAligned, b, e
      <4> QED BY <1>8, <4>4, <4>7
    <3> QED BY <3>4, <3>5, <3>6
  <2> QED BY <2>3, <2>4, <2>5
<1> QED BY <1>5, <1>9, <1>10, <1>11

LEMMA VideoSeek ==
  ASSUME SourceInv, VideoInv, ~crashed, ~crashed', BaseSetPos \/ ParserSetPos \/ Flush
  PROVE  VideoInv'
<1> DEFINE l == m_lst["video"]
           e == next["video"]
<1>0. TypeOK /\ BuffTypeOK /\ EngineOK /\ LockInv
  BY TypeParts DEF SourceInv
<1>1. /\ l \in Seq(Frame) /\ Len(l) \in Nat /\ e \in Nat /\ "video" \in Type /\ N \in Nat
      /\ "video" # "audio"
  BY <1>0, VideoTypes
<1>2. Len(<<>>) = 0 /\ Body(<<>>) = 1 /\ \A x \in Nat : IsStretch(<<>>, x) /\ Starts(<<>>, x) = x
  <2>1. Len(<<>>) = 0 /\ Body(<<>>) = 1
    BY DEF Body
  <2> QED BY <2>1 DEF IsStretch, Starts
<1>3. CASE BaseSetPos
  <2> DEFINE p == engine.pos
             same == m_llSrcSeekPos = p /\ \E t \in Type : m_bNewPos[t]
  <2>1. /\ UNCHANGED <<next, m_bReadVideoHead, last, worker>>
        /\ worker.pc = "idle" /\ engine.pc = "base"
        /\ (Answered(same, p) => engine'.pc = "idle")
        /\ (~Answered(same, p) => engine'.pc = "parser")
        /\ astray' = ((same \/ InBuff(p)) /\ (astray \/ p = 0))
        /\ \/ same /\ UNCHANGED buffs
           \/ ~same /\ BuffSetPos(p)
    BY <1>0, <1>3 DEF BaseSetPos, Rewind, SetPosReturned, Engine, EngineOK, LockInv, parser
  <2>2. p \in Nat
    BY <1>0 DEF EngineOK
  <2> HIDE DEF p, same
  <2> SUFFICES ASSUME ~astray' PROVE VideoAligned'
    BY <2>1 DEF VideoInv
  <2>3. CASE same /\ UNCHANGED buffs
    <3>1. VideoAligned /\ engine'.pc = "idle"
      BY <2>1, <2>3 DEF Answered, VideoInv
    <3>2. UNCHANGED <<m_lst, m_llNextKeyTime, m_bFlush>>
      BY <2>3 DEF buffs, lists, param
    <3> QED BY <2>1, <3>1, <3>2 DEF VideoAligned
  <2>4. CASE ~same /\ BuffSetPos(p)
    <3>1. m_llNextKeyTime' = 0 /\ m_bFlush' = FALSE
      BY <2>4 DEF BuffSetPos, ResetParam
    <3>2. CASE InBuff(p)
      <4> DEFINE i == SeekKey(l, p)
      <4>1. m_lst'["video"] = Kept(l, i) /\ i # 0
        BY <1>1, <2>4, <3>2 DEF BuffSetPos, InBuff
      <4>2. i \in 1..Len(l) /\ l[i].flag = "key"
        <5> HIDE DEF l
        <5> QED BY <1>1, <2>2, <4>1, SeekKeyType
      <4>3. VideoAligned /\ engine'.pc = "idle"
        BY <2>1, <3>2 DEF Answered, VideoInv
      <4>4. IsStretch(l, e) /\ m_bReadVideoHead
        <5>1. l # <<>>
          BY <1>2, <4>2
        <5> QED BY <4>3, <5>1 DEF VideoAligned
      <4> HIDE DEF i
      <4>5. i \in Body(l)..Len(l)
        BY <1>1, <4>2, BodyType
      <4> HIDE DEF l, e
      <4>6. IsStretch(Kept(l, i), e) /\ Starts(Kept(l, i), e) \in Key
        BY <1>1, <4>2, <4>4, <4>5, StretchKept, StretchType
      <4> QED BY <2>1, <3>1, <4>1, <4>3, <4>4, <4>6 DEF VideoAligned, KeyAhead, e
    <3>3. CASE ~InBuff(p)
      <4>1. m_lst'["video"] = <<>> /\ engine'.pc = "parser"
        BY <1>1, <2>1, <2>4, <3>3 DEF BuffSetPos, Answered
      <4> QED BY <1>1, <1>2, <2>1, <3>1, <4>1 DEF VideoAligned, KeyAhead
    <3> QED BY <3>2, <3>3
  <2> QED BY <2>1, <2>3, <2>4
<1>4. CASE ParserSetPos
  <2>1. /\ UNCHANGED <<buffs, worker, astray, last>> /\ engine.pc = "parser" /\ worker.pc = "idle"
        /\ engine'.pc = "idle" /\ engine.pos \in Nat /\ next'["video"] = Target(engine.pos)
    BY <1>0, <1>1, <1>4 DEF ParserSetPos, SetPosReturned, Engine, EngineOK, LockInv, ghosts
  <2>2. UNCHANGED <<m_lst, m_llNextKeyTime, m_bFlush>>
    BY <2>1 DEF buffs, lists, param
  <2> SUFFICES ASSUME ~astray PROVE VideoAligned'
    BY <2>1 DEF VideoInv
  <2>3. l = <<>> /\ m_llNextKeyTime = 0
    BY <2>1 DEF VideoInv, VideoAligned
  <2>4. next'["video"] \in Key \cup {N} /\ next'["video"] \in Nat
    BY <1>1, <2>1, TargetKey, FileAssumption
  <2> QED BY <1>2, <2>1, <2>2, <2>3, <2>4 DEF VideoAligned, KeyAhead
<1>5. CASE Flush
  <2>1. /\ m_lst'["video"] = <<>> /\ m_llNextKeyTime' = 0 /\ m_bFlush' = TRUE /\ engine.pc = "idle"
        /\ UNCHANGED <<worker, m_nMediaType, next, m_bReadVideoHead, engine, astray>>
    BY <1>1, <1>5 DEF Flush, FlushBuff, parser, pass
  <2>2. ~astray => VideoAligned'
    <3> SUFFICES ASSUME ~astray PROVE VideoAligned'
      OBVIOUS
    <3>1. ~m_bReadVideoHead => l = <<>> /\ Starts(l, e) \in Key \cup {N}
      BY <2>1 DEF VideoInv, VideoAligned
    <3>2. ~m_bReadVideoHead => e \in Key \cup {N}
      BY <1>1, <1>2, <3>1
    <3> QED BY <1>1, <1>2, <2>1, <3>2 DEF VideoAligned, KeyAhead
  <2> QED BY <2>1, <2>2 DEF VideoInv
<1> QED BY <1>3, <1>4, <1>5

LEMMA VideoStep == SourceInv /\ AudioInv /\ VideoInv /\ [Next]_vars => VideoInv'
<1> SUFFICES ASSUME SourceInv, AudioInv, VideoInv, [Next]_vars PROVE VideoInv'
  OBVIOUS
<1>1. CASE UNCHANGED vars
  BY <1>1 DEF VideoInv, VideoAligned, vars, buffs, lists, param, parser, pass, ghosts
<1>2. CASE Next
  <2>0. ~crashed
    BY <1>2 DEF Next
  <2>1. ASSUME NEW t \in Type, ReadBuff(t) PROVE VideoInv'
    BY <2>0, <2>1, VideoReadStep
  <2>2. CASE SendFrame /\ UNCHANGED <<failed, crashed>>
    BY <2>2, VideoSend
  <2>3. CASE (BaseSetPos \/ ParserSetPos \/ Flush) /\ UNCHANGED <<failed, crashed>>
    BY <2>0, <2>3, VideoSeek
  <2>4. CASE /\ UNCHANGED crashed
             /\ \/ BeginPass \/ ParseEnd \/ Parse \/ SetEOS \/ FetchRetry \/ FetchEnd
                \/ LockSeek \/ ParserSetPosFails \/ \E p \in Pos : CallSetPos(p)
                \/ \E t \in Type : BeginRead(t) \/ AskEnd(t) \/ StopWaiting(t) \/ Deliver(t) \/ EndRead(t)
    BY <1>2, <2>4, VideoKept
  <2> QED BY <1>2, <2>1, <2>2, <2>3, <2>4, NextSteps
<1> QED BY <1>1, <1>2

(* After a gap - a seek, a flush, late frames that are dropped - the first  *)
(* frame that the renderer of the video gets is a key frame: SetPos keeps   *)
(* the buffers from a key frame on or lets the parser begin with one, Send  *)
(* drops what comes before one after a flush, and ReadVideo skips to one.   *)
THEOREM VideoDecodableCorrect == Spec => VideoDecodable
<1>1. Init => AudioInv
  BY AudioInit
<1>2. Init => VideoInv
  <2> SUFFICES ASSUME Init PROVE VideoInv
    OBVIOUS
  <2>1. /\ m_lst["video"] = <<>> /\ next["video"] = 0 /\ m_llNextKeyTime = 0 /\ m_bFlush = FALSE
        /\ worker.pc = "idle" /\ engine.pc = "idle"
    BY DEF Init, BuffInit, Idle, Engine, Type
  <2>2. Len(<<>>) = 0 /\ Body(<<>>) = 1
    BY DEF Body
  <2>3. IsStretch(<<>>, 0) /\ Starts(<<>>, 0) = 0
    BY <2>2 DEF IsStretch, Starts
  <2>4. VideoAligned
    BY <2>1, <2>3, FileAssumption DEF VideoAligned, KeyAhead
  <2> QED BY <2>1, <2>4 DEF VideoInv
<1>3. ASSUME SourceInv, VideoInv, [Next]_vars
      PROVE  [last["video"]' \in {last["video"], last["video"] + 1} \cup Key \/ astray]_last
  <2>1. CASE last' = last
    BY <2>1
  <2>2. CASE last' # last
    <3>1. Next
      BY <1>3, <2>2 DEF vars, ghosts
    <3>2. PICK t \in Type : ReadBuff(t)
      BY <2>2, <3>1, LastMoves
    <3> QED BY <1>3, <3>1, <3>2, VideoReadStep DEF Next
  <2> QED BY <2>1, <2>2
<1> QED BY <1>1, <1>2, <1>3, SourceAlways, AudioStep, VideoStep, PTL DEF Spec, VideoDecodable

===============================================================================
