------------------------------- MODULE HttpIO --------------------------------
(***************************************************************************)
(* A file played over HTTP: CHTTPIO2 (io/http2) on the memory of MemFile.  *)
(*                                                                         *)
(*   the reader is the thread that runs the parser: ReadAt, Read and       *)
(*     SetPos, one call at a time;                                         *)
(*   the download thread repeats OnWorkItem: it reads from the connection  *)
(*     and fills the memory, or connects again;                            *)
(*   the engine calls Stop at any time and, when the reader and the        *)
(*     download thread have ended, Close.                                  *)
(*                                                                         *)
(* m_mtLockHttp guards the connection and is held while the network is     *)
(* read, m_mtLock guards the memory and the positions, m_mtLockFunc is     *)
(* held by Read.  Mutexes are recursive.  A step takes a lock, or is the   *)
(* code between two accesses to what is shared without a lock.             *)
(*                                                                         *)
(* It is the IO of the source that plays: m_bOpenCache is false and        *)
(* m_bNotifyMsg true (an IO that caches a source takes a failed            *)
(* reconnection for a connection, CHTTPIO2.cpp:148-159), and its parser    *)
(* does not set m_nExitRead, which makes a full read return earlier (223). *)
(***************************************************************************)
EXTENDS MemFile, FiniteSets

CONSTANTS FileSize,    \* bytes of the file
          Far,         \* 2 MB: farther ahead than this ReadAt seeks
          MaxBuff,     \* m_nMaxBuffSize: enough is downloaded
          Cache,       \* blocks in the memory of the IOs a source was cached with
          Moov,        \* m_llMoovPos and m_nMoovSize of the cached source
          ReadPos,     \* positions of reads and seeks
          Size,        \* sizes of reads
          Flag,        \* "audio", "video", "data"
          MaxCalls,    \* bound of the reader's calls
          MaxFails     \* bound of failed and lost connections

ASSUME FileAssumption == FileSize \in Nat \ {0} /\ ReadPos \subseteq 0..(FileSize - 1)
(* The blocks of a cache are sorted and do not overlap, and its moov box is *)
(* in the file.                                                             *)
ASSUME CacheAssumption ==
  /\ \A c \in Cache :
       /\ c \in Seq([m_llPos : Nat, data : Seq(Nat)])
       /\ \A k \in DOMAIN c :
            /\ Len(c[k].data) \in 1..MEM_BUFF_SIZE
            /\ EndOf(c[k]) <= FileSize
            /\ k > 1 => EndOf(c[k - 1]) <= c[k].m_llPos
  /\ {Moov.pos, Moov.size} \subseteq Nat /\ Moov.pos + Moov.size <= FileSize
ASSUME SizeAssumption == Size \subseteq Nat \ {0} /\ {Far, MaxBuff, MaxCalls, MaxFails} \subseteq Nat

VARIABLES
  m_sStatus,     \* "init", "run", "stop"
  m_bConnected, m_bReconnect,
  m_llReadPos, m_llDownPos,
  m_pMemData,
  http,          \* m_pHttpData: it exists, and the byte it gives next (-1: closed)
  m_pIOCache,    \* the blocks of the cached IO it was opened from (<<>>: none)
  m_llHeadSize, m_pHeadBuff, m_pMoovBuff,   \* copies of the cache (<<>>: NULL)
  lock,          \* of each mutex: who holds it, how often
  rd,            \* reader: its call
  dl,            \* download thread: pc, what the network gave
  eng,           \* engine: pc, and whether Close follows
  m_bForceClose,
  calls, fails   \* bounded

file   == <<m_llReadPos, m_llDownPos, m_pMemData, http>>
cache  == <<m_pIOCache, m_llHeadSize, m_pHeadBuff, m_pMoovBuff>>
vars   == <<m_sStatus, m_bConnected, m_bReconnect, file, cache, lock, rd, dl, eng,
            m_bForceClose, calls, fails>>

Mutex == {"func", "mem", "http"}

(* A mutex is recursive: it has a holder and a count. *)
Open == [by |-> "none", n |-> 0]
Free(m, t) == lock[m].by \in {"none", t}
Lock(m, t) == /\ Free(m, t)
              /\ lock' = [lock EXCEPT ![m] = [by |-> t, n |-> @.n + 1]]
Unlock(ms) == lock' = [m \in Mutex |-> IF m \notin ms THEN lock[m]
                        ELSE IF lock[m].n = 1 THEN Open ELSE [lock[m] EXCEPT !.n = @ - 1]]
UnlockAll(ms) == lock' = [m \in Mutex |-> IF m \in ms THEN Open ELSE lock[m]]

NoCall == [pc |-> "idle", op |-> "none", pos |-> 0, n |-> 0, flag |-> "data",
           rc |-> "none", out |-> <<>>]
Bytes(p, n) == [j \in 1..n |-> p + j - 1]

EmptyMem == [m_lstFull |-> <<>>, m_lstFree |-> 0, m_llFillPos |-> 0,
             m_llPosAudio |-> 0, m_llPosVideo |-> 0]

(* CopyOtherMem, for an IO opened from a cache: the memory is filled with   *)
(* the blocks of the cache.  Its head is as long as the end of the first    *)
(* gap tells, and gets the data of the blocks one behind the other.         *)
CopyMem(c) ==                                                   \* 785-807
  LET mem[k \in 0..Len(c)] ==
        IF k = 0 THEN EmptyMem ELSE FillBuff(mem[k - 1], c[k].m_llPos, c[k].data)
  IN  mem[Len(c)]
HeadSize(c) ==                                                  \* 808-830
  LET gaps == {k \in 2..Len(c) : c[k].m_llPos # EndOf(c[k - 1])}
  IN  IF c = <<>> THEN 0
      ELSE IF gaps = {} THEN EndOf(Last(c)) ELSE EndOf(c[FirstOf(gaps) - 1])

(* A new buffer of so many bytes that begins with the data; nobody sets the *)
(* rest.                                                                    *)
Unset == -1
NewBuff(size, data) == [j \in 1..size |-> IF j <= Len(data) THEN data[j] ELSE Unset]

HeadBuff(c) ==                                                  \* 831-843
  NewBuff(HeadSize(c), FlattenSeq([k \in DOMAIN c |-> c[k].data]))

(* The moov box is copied from the first block that ends behind its         *)
(* position, and goes on with the whole next blocks, wherever they are.     *)
MoovBlocks(c) == {k \in DOMAIN c : EndOf(c[k]) > Moov.pos}
MoovData_FromBlock(c) ==
  FlattenSeq([k \in DOMAIN c |-> IF k \in MoovBlocks(c) THEN c[k].data ELSE <<>>])
MoovData(c) ==                                                  \* 851-875
  LET From(b) == [j \in 1..(EndOf(b) - Moov.pos) |->
                    LET p == Moov.pos + j - 1
                    IN  IF Holds(b, p) THEN b.data[p - b.m_llPos + 1] ELSE Unset]
  IN  FlattenSeq([k \in DOMAIN c |-> IF k \notin MoovBlocks(c) THEN <<>>
                                     ELSE IF k = FirstOf(MoovBlocks(c)) THEN From(c[k])
                                     ELSE c[k].data])
HasMoov(c) == c # <<>> /\ HeadSize(c) < Moov.pos + Moov.size    \* 805, 845
MoovBuff(c) == IF HasMoov(c) THEN NewBuff(Moov.size, MoovData(c)) ELSE <<>>
CopiedTo(c) ==                                                  \* 844, 879
  IF HasMoov(c) THEN Moov.pos + Min2(Moov.size, Len(MoovData(c))) ELSE HeadSize(c)

OpenFresh ==                                                    \* 65-96, OpenURL
  /\ m_sStatus = "run" /\ m_bConnected = TRUE /\ http = [made |-> TRUE, at |-> 0]
  /\ m_llDownPos = 0 /\ m_pMemData = EmptyMem
  /\ m_pIOCache = <<>> /\ m_llHeadSize = 0 /\ m_pHeadBuff = <<>> /\ m_pMoovBuff = <<>>
  /\ dl = [pc |-> "top", kind |-> "none", data |-> <<>>]

OpenCached(c) ==                                                \* 97-104
  /\ m_sStatus = "init" /\ m_bConnected = FALSE /\ http = [made |-> FALSE, at |-> -1]
  /\ m_pIOCache = c /\ m_pMemData = CopyMem(c) /\ m_llDownPos = CopiedTo(c)
  /\ m_llHeadSize = HeadSize(c) /\ m_pHeadBuff = HeadBuff(c) /\ m_pMoovBuff = MoovBuff(c)
  /\ dl = [pc |-> "none", kind |-> "none", data |-> <<>>]

Init ==
  /\ OpenFresh \/ \E c \in Cache : OpenCached(c)
  /\ m_bReconnect = FALSE /\ m_llReadPos = 0 /\ m_bForceClose = FALSE
  /\ lock = [m \in Mutex |-> Open]
  /\ rd = NoCall /\ eng = [pc |-> "idle", close |-> FALSE] /\ calls = 0 /\ fails = 0

(* Connect from m_llDownPos: it succeeds, or is given up after its retries  *)
(* and the messages are sent (148-155).                                     *)
Connects(ok, made) ==
  /\ http' = [made |-> made, at |-> IF ok THEN m_llDownPos ELSE -1]
  /\ m_bConnected' = (ok \/ m_bConnected)
  /\ IF ok THEN UNCHANGED fails
     ELSE IF m_bForceClose THEN UNCHANGED fails ELSE fails < MaxFails /\ fails' = fails + 1

-----------------------------------------------------------------------------
(* The reader. *)

Reply(rc, out) == rd' = [rd EXCEPT !.pc = "done", !.rc = rc, !.out = out]
Go(pc) == rd' = [rd EXCEPT !.pc = pc]

(* A call begins. *)
Call(op, pos, n, flag) ==
  /\ rd.pc = "idle" /\ ~eng.close /\ calls < MaxCalls /\ calls' = calls + 1
  /\ rd' = [NoCall EXCEPT !.pc = op, !.op = op, !.pos = pos, !.n = n, !.flag = flag]
  /\ UNCHANGED <<m_sStatus, m_bConnected, m_bReconnect, file, cache, lock, dl, eng,
                 m_bForceClose, fails>>

InHead == m_pHeadBuff # <<>> /\ rd.pos + rd.n <= m_llHeadSize
InMoov == m_pMoovBuff # <<>> /\ rd.pos >= Moov.pos /\ rd.pos + rd.n < Moov.pos + Moov.size
Part(buff, from) == SubSeq(buff, from + 1, from + rd.n)
FromCopy == IF InHead THEN Part(m_pHeadBuff, rd.pos) ELSE Part(m_pMoovBuff, rd.pos - Moov.pos)

(* ReadAt: what was copied apart is there at once. *)
ReadAt ==                                                       \* 253-271
  /\ rd.pc = "ReadAt"
  /\ IF rd.pos >= FileSize
     THEN Reply("finish", <<>>) /\ UNCHANGED <<m_llDownPos, http>>
     ELSE IF InHead \/ InMoov
     THEN Reply("none", FromCopy) /\ UNCHANGED <<m_llDownPos, http>>
     ELSE IF http.made
     THEN Go("rangeMem") /\ UNCHANGED <<m_llDownPos, http>>
     ELSE /\ Go("openURL")
          /\ m_llDownPos' = GetBuffSize(m_pMemData, 0) /\ http' = [http EXCEPT !.made = TRUE]
  /\ UNCHANGED <<m_sStatus, m_bConnected, m_bReconnect, m_llReadPos, m_pMemData, cache, lock,
                 dl, eng, m_bForceClose, calls, fails>>

(* OpenURL of the first read that is not in the copies: only a connection  *)
(* that succeeds starts the download thread.                               *)
OpenURL ==                                                      \* 717-768, 328-342
  /\ rd.pc = "openURL" /\ Go("rangeMem")
  /\ \E ok \in BOOLEAN :
       /\ Connects(ok, TRUE)
       /\ IF ok /\ m_sStatus # "run"
          THEN /\ m_sStatus' = "run"
               /\ dl' = IF dl.pc = "none" THEN [dl EXCEPT !.pc = "top"] ELSE dl
          ELSE UNCHANGED <<m_sStatus, dl>>
  /\ UNCHANGED <<m_bReconnect, m_llReadPos, m_llDownPos, m_pMemData, cache, lock, eng,
                 m_bForceClose, calls>>

(* A position before what is in memory, or far ahead of the download, is   *)
(* sought with m_mtLock held.                                              *)
ReadAtMem ==                                                    \* 273-280
  /\ rd.pc = "rangeMem" /\ Free("mem", "reader")
  /\ IF GetStartPos(m_pMemData) > rd.pos \/ rd.pos > m_llDownPos + Far
     THEN /\ Lock("mem", "reader") /\ Go("seekHttp") /\ m_bReconnect' = TRUE
          /\ UNCHANGED m_llReadPos
     ELSE /\ m_llReadPos' = rd.pos /\ Go("Read") /\ UNCHANGED <<lock, m_bReconnect>>
  /\ UNCHANGED <<m_sStatus, m_bConnected, m_llDownPos, m_pMemData, http, cache, dl, eng,
                 m_bForceClose, calls, fails>>

SetPosBegin ==                                                  \* 372
  /\ rd.pc = "SetPos" /\ m_bReconnect' = TRUE /\ Go("seekHttp")
  /\ UNCHANGED <<m_sStatus, m_bConnected, file, cache, lock, dl, eng, m_bForceClose, calls, fails>>

SetPosHttp_NoLock ==
  /\ rd.pc = "seekHttp" /\ Go("seekMem")
  /\ UNCHANGED <<m_sStatus, m_bConnected, m_bReconnect, file, cache, lock, dl, eng, m_bForceClose,
                 calls, fails>>

SetPosHttp ==                                                   \* 373
  /\ rd.pc = "seekHttp" /\ Lock("http", "reader") /\ Go("seekMem")
  /\ UNCHANGED <<m_sStatus, m_bConnected, m_bReconnect, file, cache, dl, eng, m_bForceClose,
                 calls, fails>>

(* SetPos returns; in ReadAt it is followed by Read. *)
SetPosEnds ==                                                   \* 407-410, 279-280
  /\ m_llReadPos' = rd.pos /\ m_bReconnect' = FALSE
  /\ IF rd.op = "SetPos" THEN Reply("none", <<>>) ELSE Go("Read")

(* m_mtLock is taken (again, in ReadAt) and stays so until the end. *)
SetPosMem ==                                                    \* 374-392
  /\ rd.pc = "seekMem" /\ Free("mem", "reader")
  /\ \E m \in {IF m_llReadPos = rd.pos THEN m_pMemData ELSE SetPos(m_pMemData, rd.pos)} :
     \E now \in {rd.pos + GetBuffSize(m, rd.pos)} :
     /\ m_pMemData' = m
     /\ IF m_llReadPos # rd.pos /\ http.made /\ now < FileSize /\ now # m_llDownPos
        THEN /\ m_llDownPos' = now /\ http' = [http EXCEPT !.at = -1] /\ m_bConnected' = FALSE
             /\ Lock("mem", "reader") /\ Go("seekConnect")
             /\ UNCHANGED <<m_llReadPos, m_bReconnect>>
        ELSE /\ SetPosEnds
             /\ Unlock(IF rd.op = "SetPos" THEN {"http"} ELSE {"http", "mem"})
             /\ UNCHANGED <<m_llDownPos, http, m_bConnected>>
  /\ UNCHANGED <<m_sStatus, cache, dl, eng, m_bForceClose, calls, fails>>

SetPosConnect ==                                                \* 393-410
  /\ rd.pc = "seekConnect" /\ \E ok \in BOOLEAN : Connects(ok, TRUE)
  /\ SetPosEnds
  /\ UnlockAll({"http", "mem"})
  /\ UNCHANGED <<m_sStatus, m_llDownPos, m_pMemData, cache, dl, eng, m_bForceClose, calls>>

(* Read: m_mtLockFunc is held to the end.  A full read waits without other *)
(* locks until the memory holds enough.                                    *)
Rest == Min2(rd.n, FileSize - m_llReadPos)
Enough(n) == GetBuffSize(m_pMemData, m_llReadPos) >= n

Read ==                                                         \* 187-212
  /\ rd.pc = "Read" /\ Free("func", "reader")
  /\ IF m_llReadPos >= FileSize
     THEN Reply("finish", <<>>) /\ UNCHANGED lock
     ELSE /\ Lock("func", "reader")
          /\ rd' = [rd EXCEPT !.n = Rest, !.pos = m_llReadPos,
                    !.pc = IF rd.op = "Read" \/ Enough(Rest) THEN "copy" ELSE "wait"]
  /\ UNCHANGED <<m_sStatus, m_bConnected, m_bReconnect, file, cache, dl, eng, m_bForceClose,
                 calls, fails>>

(* Without a connection the source is not an MP3, of which the read goes on *)
(* to wait (228-231).                                                       *)
ReadGivesUp ==                                                  \* 221-236
  /\ rd.pc = "wait" /\ Unlock({"func"})
  /\ \/ m_bForceClose /\ Reply("finish", <<>>)
     \/ ~m_bForceClose /\ m_sStatus # "run" /\ Reply("status", <<>>)
     \/ ~m_bForceClose /\ m_sStatus = "run" /\ ~m_bConnected /\ Reply("disconnected", <<>>)
     \/ ~m_bForceClose /\ m_sStatus = "run" /\ m_bConnected /\ m_bReconnect
        /\ Reply("status", <<>>)
  /\ UNCHANGED <<m_sStatus, m_bConnected, m_bReconnect, file, cache, dl, eng, m_bForceClose,
                 calls, fails>>

ReadGoesOn ==                                                   \* 213, 238
  /\ rd.pc = "wait" /\ Enough(rd.n) /\ Go("copy")
  /\ ~m_bForceClose /\ m_sStatus = "run" /\ m_bConnected /\ ~m_bReconnect
  /\ UNCHANGED <<m_sStatus, m_bConnected, m_bReconnect, file, cache, lock, dl, eng,
                 m_bForceClose, calls, fails>>

ReadCopy_KeepsLock ==
  LET full == rd.op # "Read" IN
  /\ rd.pc = "copy" /\ Free("mem", "reader")
  /\ \E out \in {ReadBuff(m_pMemData, m_llReadPos, rd.n, full)} :
     LET pos == m_llReadPos + Len(out) IN
     /\ m_llReadPos' = pos
     /\ m_pMemData' = IF out = <<>> THEN m_pMemData ELSE AfterRead(m_pMemData, pos, rd.flag)
     /\ Reply("none", out)
  /\ UNCHANGED <<m_sStatus, m_bConnected, m_bReconnect, m_llDownPos, http, cache, lock, dl, eng,
                 m_bForceClose, calls, fails>>

(* The bytes are copied under m_mtLock.  What was enough may be gone.      *)
ReadCopy ==                                                     \* 199-208, 241-248
  LET full == rd.op # "Read" IN
  /\ rd.pc = "copy" /\ Free("mem", "reader")
  /\ \E out \in {ReadBuff(m_pMemData, m_llReadPos, rd.n, full)} :
     LET pos == m_llReadPos + Len(out) IN
     /\ m_llReadPos' = pos
     /\ m_pMemData' = IF out = <<>> THEN m_pMemData ELSE AfterRead(m_pMemData, pos, rd.flag)
     /\ Reply(IF ~full THEN IF m_sStatus # "run" THEN "status"
                            ELSE IF out = <<>> THEN "retry" ELSE "none"
              ELSE IF Len(out) # rd.n /\ rd.flag \in {"audio", "video"} THEN "retry" ELSE "none",
              out)
  /\ Unlock({"func"})
  /\ UNCHANGED <<m_sStatus, m_bConnected, m_bReconnect, m_llDownPos, http, cache, dl, eng,
                 m_bForceClose, calls, fails>>

Return ==
  /\ rd.pc = "done" /\ rd' = NoCall
  /\ UNCHANGED <<m_sStatus, m_bConnected, m_bReconnect, file, cache, lock, dl, eng,
                 m_bForceClose, calls, fails>>

Calls ==
  \/ \E p \in ReadPos, n \in Size, f \in Flag : Call("ReadAt", p, n, f)
  \/ \E n \in Size, f \in Flag : Call("Read", 0, n, f)
  \/ \E p \in ReadPos : Call("SetPos", p, 0, "data")

Reader == \/ ReadAt \/ OpenURL \/ ReadAtMem \/ SetPosBegin \/ SetPosHttp \/ SetPosMem
          \/ SetPosConnect \/ Read \/ ReadGivesUp \/ ReadGoesOn \/ ReadCopy \/ Return

-----------------------------------------------------------------------------
(* The download thread. *)

Pass(pc) == dl' = [dl EXCEPT !.pc = pc, !.kind = "none", !.data = <<>>]

(* Nothing to do (but sleep) unless data is missing. *)
Wanted == dl.pc = "top" /\ eng.pc # "join" /\ m_llDownPos < FileSize /\ http.made

(* The pass connects again, unless it was stopped meanwhile.               *)
BeginReconnect ==                                               \* 558-578, 110-111
  /\ Wanted /\ ~m_bConnected /\ ~m_bReconnect
  /\ Lock("mem", "download") /\ Pass("againHttp")
  /\ ~m_bConnected /\ m_sStatus # "stop" /\ ~m_bForceClose
  /\ m_bReconnect' = TRUE
  /\ UNCHANGED <<m_sStatus, m_bConnected, file, cache, rd, eng, m_bForceClose, calls, fails>>

ReconnectHttp ==                                                \* 112-132
  /\ dl.pc = "againHttp" /\ Lock("http", "download") /\ Pass("again")
  /\ http' = [http EXCEPT !.at = -1] /\ m_bConnected' = FALSE
  /\ m_llDownPos' = m_llReadPos /\ m_pMemData' = Reset(m_pMemData)
  /\ UNCHANGED <<m_sStatus, m_bReconnect, m_llReadPos, cache, rd, eng, m_bForceClose, calls, fails>>

ReconnectEnds ==                                                \* 134-161
  /\ dl.pc = "again" /\ Pass("top") /\ \E ok \in BOOLEAN : Connects(ok, TRUE)
  /\ m_bReconnect' = FALSE /\ UnlockAll({"http", "mem"})
  /\ UNCHANGED <<m_sStatus, m_llReadPos, m_llDownPos, m_pMemData, cache, rd, eng,
                 m_bForceClose, calls>>

BeginRead ==                                                    \* 585-611
  /\ Wanted /\ m_bConnected /\ m_sStatus # "stop" /\ ~m_bReconnect
  /\ GetBuffSize(m_pMemData, m_llReadPos) <= MaxBuff
  /\ Lock("http", "download") /\ Pass("net")
  /\ UNCHANGED <<m_sStatus, m_bConnected, m_bReconnect, file, cache, rd, eng, m_bForceClose,
                 calls, fails>>

(* What the network gives: bytes, nothing in time, or the end of the       *)
(* connection (external: CHTTPClient).                                     *)
NetData ==                                                      \* 612
  /\ dl.pc = "net" /\ http.at \in 0..(FileSize - 1)
  /\ \E n \in 1..Min2(MEM_BUFF_SIZE, FileSize - http.at) :
       /\ dl' = [pc |-> "fill", kind |-> "data", data |-> Bytes(http.at, n)]
       /\ http' = [http EXCEPT !.at = @ + n]
  /\ UNCHANGED <<m_sStatus, m_bConnected, m_bReconnect, m_llReadPos, m_llDownPos, m_pMemData,
                 cache, lock, rd, eng, m_bForceClose, calls, fails>>

NetNothing ==                                                   \* 612
  /\ dl.pc = "net"
  /\ \/ dl' = [dl EXCEPT !.pc = "fill"] /\ UNCHANGED <<http, fails>>
     \/ /\ fails < MaxFails /\ fails' = fails + 1 /\ http' = [http EXCEPT !.at = -1]
        /\ dl' = [dl EXCEPT !.pc = "fill", !.kind = "lost"]
  /\ UNCHANGED <<m_sStatus, m_bConnected, m_bReconnect, m_llReadPos, m_llDownPos, m_pMemData,
                 cache, lock, rd, eng, m_bForceClose, calls>>

Fill_BuffSize ==
  /\ dl.pc = "fill" /\ Free("mem", "download") /\ Unlock({"http"})
  /\ IF dl.kind = "data"
     THEN /\ m_pMemData' = FillBuff(m_pMemData, m_llDownPos, dl.data)
          /\ m_llDownPos' = m_llDownPos + MEM_BUFF_SIZE
     ELSE UNCHANGED <<m_pMemData, m_llDownPos>>
  /\ Pass(IF dl.kind = "lost" THEN "lost" ELSE "top")
  /\ UNCHANGED <<m_sStatus, m_bConnected, m_bReconnect, m_llReadPos, http, cache, rd, eng,
                 m_bForceClose, calls, fails>>

Fill ==                                                         \* 613-620
  /\ dl.pc = "fill" /\ Free("mem", "download") /\ Unlock({"http"})
  /\ IF dl.kind = "data"
     THEN /\ m_pMemData' = FillBuff(m_pMemData, m_llDownPos, dl.data)
          /\ m_llDownPos' = m_llDownPos + Len(dl.data)
     ELSE UNCHANGED <<m_pMemData, m_llDownPos>>
  /\ Pass(IF dl.kind = "lost" THEN "lost" ELSE "top")
  /\ UNCHANGED <<m_sStatus, m_bConnected, m_bReconnect, m_llReadPos, http, cache, rd, eng,
                 m_bForceClose, calls, fails>>

(* After the locks are given back: not connected, and an empty memory. *)
Lost ==                                                         \* 634
  /\ dl.pc = "lost" /\ m_bConnected' = FALSE /\ Pass("reset")
  /\ UNCHANGED <<m_sStatus, m_bReconnect, file, cache, lock, rd, eng, m_bForceClose, calls, fails>>

ResetMem ==                                                     \* 635
  /\ dl.pc = "reset" /\ m_pMemData' = Reset(m_pMemData) /\ Pass("top")
  /\ UNCHANGED <<m_sStatus, m_bConnected, m_bReconnect, m_llReadPos, m_llDownPos, http, cache,
                 lock, rd, eng, m_bForceClose, calls, fails>>

Download == \/ BeginReconnect \/ ReconnectHttp \/ ReconnectEnds \/ BeginRead \/ NetData
            \/ NetNothing \/ Fill \/ Lost \/ ResetMem

-----------------------------------------------------------------------------
(* The engine: Stop, and Close (which stops first) once the reader is out. *)

Engine(pc) == eng' = [eng EXCEPT !.pc = pc]

BeginStop ==
  /\ eng.pc = "idle" /\ Engine("stop")
  /\ m_bForceClose' \in BOOLEAN
  /\ UNCHANGED <<m_sStatus, m_bConnected, m_bReconnect, file, cache, lock, rd, dl, calls, fails>>

Interrupt ==                                                    \* 354-360
  /\ eng.pc = "stop"
  /\ IF m_sStatus = "stop" THEN Engine("wait")
     ELSE (http.made => Free("http", "engine")) /\ Engine("flag")
  /\ UNCHANGED <<m_sStatus, m_bConnected, m_bReconnect, file, cache, lock, rd, dl,
                 m_bForceClose, calls, fails>>

StopThread ==                                                   \* 361-364
  /\ eng.pc = "flag" /\ Engine(IF dl.pc = "none" THEN "wait" ELSE "join")
  /\ m_bConnected' = FALSE /\ m_sStatus' = "stop"
  /\ UNCHANGED <<m_bReconnect, file, cache, lock, rd, dl, m_bForceClose, calls, fails>>

(* CThreadWork::Stop returns when the thread has ended. *)
Join ==                                                         \* 364, CThreadWork.cpp:80-97
  /\ eng.pc = "join" /\ dl.pc = "top" /\ Pass("none") /\ Engine("wait")
  /\ UNCHANGED <<m_sStatus, m_bConnected, m_bReconnect, file, cache, lock, rd,
                 m_bForceClose, calls, fails>>

(* The reader's thread has ended, and Close stops again what it started.   *)
BeginClose ==                                                   \* 164-168
  /\ eng.pc = "wait" /\ rd.pc = "idle"
  /\ eng' = [pc |-> IF m_sStatus = "stop" THEN "close" ELSE "stop", close |-> TRUE]
  /\ UNCHANGED <<m_sStatus, m_bConnected, m_bReconnect, file, cache, lock, rd, dl,
                 m_bForceClose, calls, fails>>

CloseAll ==                                                     \* 170-184
  /\ eng.pc = "close" /\ \A m \in Mutex : Free(m, "engine") /\ Engine("closed")
  /\ m_pMemData' = Reset(m_pMemData) /\ http' = [made |-> FALSE, at |-> -1]
  /\ m_bConnected' = FALSE
  /\ UNCHANGED <<m_sStatus, m_bReconnect, m_llReadPos, m_llDownPos, cache, lock, rd, dl,
                 m_bForceClose, calls, fails>>

CloserGoesOn == Interrupt \/ StopThread \/ Join \/ BeginClose \/ CloseAll
Closer == BeginStop \/ CloserGoesOn

Next == Calls \/ Reader \/ Download \/ Closer
Spec == Init /\ [][Next]_vars

-----------------------------------------------------------------------------
(* Correctness. *)

Pcs == {"idle", "ReadAt", "openURL", "rangeMem", "SetPos", "seekHttp", "seekMem", "seekConnect",
        "Read", "wait", "copy", "done"}

(* Types, and who holds a mutex: a free one counts 0, and no thread takes   *)
(* one more than twice.                                                     *)
TypeOK ==
  /\ m_sStatus \in {"init", "run", "stop"}
  /\ {m_bConnected, m_bReconnect, m_bForceClose} \subseteq BOOLEAN
  /\ {m_llReadPos, m_llDownPos, m_llHeadSize} \subseteq 0..FileSize
  /\ m_pMemData \in Memory
  /\ http.made \in BOOLEAN /\ http.at \in -1..FileSize
  /\ \A m \in Mutex : lock[m].n \in 0..2 /\ (lock[m].n = 0 <=> lock[m] = Open)
  /\ rd.pc \in Pcs
  /\ dl.pc \in {"none", "top", "againHttp", "again", "net", "fill", "lost", "reset"}
  /\ eng.pc \in {"idle", "stop", "flag", "join", "wait", "close", "closed"}

(* What the connection gives next, or has given, belongs at m_llDownPos:    *)
(* no seek and no reconnection comes between a read of the network and the  *)
(* FillBuff of its data.                                                    *)
DownloadInStep ==
  IF dl.kind = "data"
  THEN dl.data # <<>> /\ dl.data[1] = m_llDownPos /\ http.at = m_llDownPos + Len(dl.data)
  ELSE http.at >= 0 => http.at = m_llDownPos

(* Without a cache the memory is one piece of the file. *)
OnePiece == m_llHeadSize = 0 => InOnePiece(m_pMemData) /\ IsTheFile(m_pMemData, FileSize)

(* A cache has all that is copied: it begins at 0 and holds the moov box.   *)
(* One of an IO that lost its connection begins where that was made again;  *)
(* one whose parser did not come to its end may lack a part of the box.     *)
Whole(c) ==
  c # <<>> =>
    /\ c[1].m_llPos = 0
    /\ \A p \in Moov.pos..(Moov.pos + Moov.size - 1) : \E k \in DOMAIN c : Holds(c[k], p)

(* A read gives the bytes of the file at its position, from the memory and  *)
(* from what CopyOtherMem copied of a whole cache (CHTTPIO2.cpp:785-879); a *)
(* full read that succeeds all it asked for, or nothing, when the memory    *)
(* was emptied after it had enough (635).  Without a cache the memory is    *)
(* one piece of the file, in spite of seeks and reconnections.              *)
ReadsGiveTheFile ==
  /\ OnePiece
  /\ rd.pc = "done" =>
       /\ \/ rd.out = Bytes(rd.pos, Len(rd.out))
          \/ rd.op = "ReadAt" /\ ~Whole(m_pIOCache) /\ (InHead \/ InMoov)
       /\ rd.op = "ReadAt" /\ rd.rc = "none" => Len(rd.out) \in {0, rd.n}

(* m_mtLock and m_mtLockHttp are taken in both orders: SetPos in ReadAt     *)
(* waits for the connection while the download thread, which holds it,      *)
(* waits for the memory; SetPos waits for the memory while Reconnect, which *)
(* holds it, waits for the connection.                                      *)
LockCycle ==
  \/ rd.pc = "seekHttp" /\ lock["mem"].by = "reader" /\ lock["http"].by = "download"
  \/ rd.pc = "seekMem" /\ lock["mem"].by = "download"

(* A read waits for what the download has passed: ReadAt takes an empty     *)
(* memory to start at 0 (CMemFile.cpp:354-362), or the memory was emptied   *)
(* after a seek had connected behind its end.                               *)
Passed == /\ rd.pc = "wait" /\ m_llReadPos < m_llDownPos
          /\ GetBuffSize(m_pMemData, m_llReadPos) = 0

(* The threads go on, and the network gives data in the end.                *)
LiveSpec == /\ Spec /\ WF_vars(Reader) /\ WF_vars(Download) /\ WF_vars(CloserGoesOn)
            /\ SF_vars(NetData)

(* Of an IO that is not opened from a cache with data, each call of the     *)
(* reader returns, and Stop and Close return, but for the two ways above to *)
(* wait for ever: Close waits for the reader, and a first connection that   *)
(* succeeds after Stop leaves it without a stop to notice (333).            *)
CallsReturn ==
  \/ m_llHeadSize > 0
  \/ /\ []<>(rd.pc = "idle") \/ <>[]LockCycle \/ <>[]Passed
     /\ []<>(eng.pc \in {"idle", "closed"}) \/ <>[]LockCycle \/ <>[](Passed /\ m_sStatus = "run")
==============================================================================
