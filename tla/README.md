# QPlayer: a TLA+ model of the player engine

QPlayer is a media player SDK in C++ (`src/code`). An application opens a URL;
the engine opens the source, creates a renderer for every stream it can decode,
and plays, seeks, reopens and closes it. This directory models the parts where
threads meet, model-checks them with TLC and proves theorems about them with
TLAPS. All paths below are relative to `src/code` unless they start with `src/`.

## 1. Inventory

| Component | State | Operations | Hard behaviour | Correct when |
|---|---|---|---|---|
| `base/CThreadWork` | status, thread handle, working flag, two lists of events | Start, Pause, Stop, Exit, GetFree, PostEvent, RemoveEvent, ResetEventByID, the loop | unlocked flags polled by owner and worker; handlers that change the queue being scanned | one loop at a time; quiet after Stop and Pause; tasks run once, in order |
| `mfw/OMBox/COMBoxMng` | play status, opening / seeking / end-of-stream flags, source, renderers, URL, `m_mtFunc` | Open, Close, Run, Pause, Stop, SetPos, cache requests, tasks OPEN SEEK REOPEN CHECK ADDCACHE DELCACHE, ReceiveMsg | three threads; flags outside the mutex; time limits; callbacks into the application under the mutex | an open is answered; the status tells what renderers do; no report about another source; calls return |
| `base/CMsgMng` | full and free item lists, receivers | Notify, RegNotify, RemNotify, ReleaseItem, dispatch | items reused across threads; receivers removed during delivery; the gate `m_bHadOpened` | every message to every receiver once, in order; no leak; destructor returns |
| `mfw/OMBox/CBoxSource` | media source, IO, list of cached sources | OpenSource, Close, Start, Pause, SetPos, ReadBuff, AddCache, DelCache, CancelCache | cache filled on the task worker while playing | bounded cache, cache entries used once |
| renderers (`CBoxRender`, `CBoxVideoRnd`, `CBoxAudioRnd`) | status, end of stream, count of frames, seek position, the clock they share | Start, Pause, Stop, SetPos, the pass of the work thread | each waits for the other's first frame, both for the clock either may start, set or stop | the play comes to its end; quiet when paused; every wait ends when the engine asks |
| `base/CBuffMng` | audio, video, subtitle, new-stream and empty lists | Read, Send, GetEmpty, Return, SetPos, SwitchNewStream, SetStreamPlay, ReleaseBuff | switch of bit rate while reading and sending | buffers conserved; order kept across a switch |
| `mfw/Common/CBaseClock` | times, speed, offset | GetTime, SetTime, SetSpeed, SetOffset, Start, Pause | small corrections are ignored, 0 means "not set", offset applied again | stands when paused |
| `mfw/Common/CQCSource`, `CBaseSource`, ... | IO, parser, end flags, read thread | Open, Close, SetPos, SetStreamPlay, OnWorkItem | thread against seek and close | no read after close |
| `io/http2` (`CHTTPIO2`), `base/CMemFile` | connection, download and read positions, list of blocks in memory, three mutexes | Open, Read, ReadAt, SetPos, Stop, Close, the pass of the download thread, reconnect | reconnect and seek against read and download; two orders of two mutexes; the memory emptied without its mutex | reads give the bytes of the file; the download is where the memory ends; calls return |
| `io/http2` (`CHTTPClient`, `CDNSCache`, `CPDFileIO`, `CPDData`) | socket, DNS entries, map of downloaded ranges | connect, resolve, read and write ranges | time limits of the network | - |
| `parser/*` | container state | Open, Read, SetPos | layout of bytes; HLS playlist refresh | frames in order |
| `anl/*` | event list, sender queue | ReceiveMsg, OnOpen, ... , send | queue against network | reports sent once |
| platform players, renderers and codecs (`mfw/ndk`, `mfw/ios`, `codec`) | device handles | wrappers | - | - |
| `autotest`, `projects` | clients of the API | - | - | - |

`ext`, `codec/gk`, `codec/speex`, `io/rtmp/*.c` and `drm/aes128` are third-party.

How they interact. The application calls `COMBoxMng` on its own thread.
Open, SetPos and the cache requests post events to the engine's `CThreadWork`,
whose handler `OnHandleEvent` does the work under `m_mtFunc`. The source, the
buffers and the renderers post messages to `CMsgMng`; its dispatcher thread calls
`COMBoxMng::ReceiveMsg` (and the analysis, and on Android `CNDKPlayer`), which
calls the application back. `CBaseInst` is shared by all: `m_bForceClose` aborts
whatever waits, `m_bCheckReopn` marks a reopen, `m_bHadOpened` lets messages
through. Each renderer and source has a `CThreadWork` of its own.

## 2. Modules

| Module | What it is |
|---|---|
| `TaskQueue` | abstract: what a task queue promises its owner |
| `ThreadWork` | `CThreadWork`, line by line; refines `TaskQueue` |
| `BoxMng` | `COMBoxMng` on three threads; its queue makes the steps of `TaskQueue` |
| `MsgBus` | abstract: what the message manager promises |
| `MsgMng` | `CMsgMng`; refines `MsgBus` |
| `BuffMng` | `CBuffMng`: the operations on the buffers, each one step |
| `Source` | `CQCSource`, `CBaseSource` and the MP4 parser's positions, on top of `BuffMng` |
| `Clock` | `CBaseClock` as functions of its state |
| `Render` | the renderers of video and audio with the clock, and the engine's calls on them |
| `MemFile` | `CMemFile`: the blocks of a file in memory, as functions of their list |
| `HttpIO` | `CHTTPIO2`: reader, download thread and engine, on top of `MemFile` |
| `SequenceLemmas` | proved facts about the sequence operators used, and about positions |
| `ThreadWorkProof` | theorems about `ThreadWork`, among them that it refines `TaskQueue` |
| `MsgMngProof` | theorems about `MsgMng`, among them that it refines `MsgBus` |
| `BoxMngProof` | theorems about `BoxMng` |
| `BuffMngProof` | lemmas: what the operations of `BuffMng` take out of the lists and put back |
| `SourceProof` | theorems about `Source`, from these lemmas |
| `RenderProof` | theorems about `Render` |
| `HttpIOProof` | the theorems about `HttpIO` |
| `MC*` | instances for TLC |

Operators named `X_Something` just before an operator `X` are variants of `X` with
a plausible bug. They are not used; replacing `X` by one of them must break a
property (`PROJECT.json`, "mutants").

### ThreadWork

Variables carry the names of the members: `m_nStatus`, `m_hThread`,
`m_bWorking`, the holders of `m_mtThread` and `m_mtTask`, `m_lstFull` and
`m_lstFree` as sequences of event objects. `pc[w]` is the next line of `WorkLoop`
of thread `w`. One step is one access the other threads can see: the tests of the
status at 245 and 248 and the writes of `m_bWorking` at 247 and 253 are separate.
A time is "zero", "future" or "past": an event is due when its delay elapsed, and
the clock may advance between any two steps (`Expire`). The work function may call
`Exit` (`WorkExits`, `io/http2/CHTTPIO2.cpp:664`), and handlers post events or
withdraw those of another id (`ResetBy`, `RemoveBy`).

The hypothesis `NoSelfReset` of the list theorems says that a handler does not
withdraw events of its own id. The DELCACHE handler with a NULL name does
(`COMBoxMng.cpp:1881`): there the event being fired is deleted while the loop and
the handler still use it.

### BoxMng

The application thread makes one call at a time; the task worker fires one event
at a time; the message thread delivers one end-of-stream message at a time. A
section under `m_mtFunc` is one step unless it waits; every access to the status
and the flags outside the mutex is a step of its own, so that calls interleave
wherever the code lets them. `m_mtFunc` is recursive: Close calls Stop inside it,
and `stack` holds the return addresses. `CheckOpenStatus` polls at most 2 s:
the model lets it end with any outcome its last test of the flags can give.
`m_pBoxSource` is NULL, "closed", or the URL that is open; the failure of an open
and the set of decodable streams are choices. `accepted`, `closed` and `failed`
record what calls have returned.

`Call` leaves out calls that only return an error code. `Http`, `Loops`, `Live`
are properties of the URL and settings. `RunOnOpenDone` and `SeekOnComplete` are
what the callbacks of `projects/win32/TestCode/TestCode.cpp` (253, 282) and
`autotest/CTestTask.cpp` (526) do.

### MsgMng

A section under `m_lckItem` is one step. The dispatcher holds `m_lckRecv` from
`NotifyItem` to `Recycle`; a callback is two steps (`ReceiveMsg`, `Received`), in
between every other thread may post, drop, register or wait. Items have
addresses; `m_pInfo[i]` says that an item owns an info and `clones` counts infos
on the heap, so that a leak or a double release shows. `opening` and
`m_bHadOpened` are the part of `CBoxSource::OpenSource` the dispatcher depends on.
`Send` has no caller in the repository and is left out. The destructor is called
when no other thread posts or opens any more: `~COMBoxMng` has stopped the worker
and deleted the source and the renderers before it deletes the instance. An open may
be refused (`Refused`): it returns with the gate closed (`mfw/OMBox/CBoxSource.cpp:116`).

### BuffMng and Source

`BuffMng` has the members of `CBuffMng` as variables and its operations as
operators; each runs under `m_lckList` and is one step. A frame is its time and
what it is: "head" (the decoder configuration the parser sends first), "key" or
"delta". Frame i of a stream has time i. `m_lstEmpty` is one list for each type,
because `GetEmpty` only looks at buffers of its own type, and an element only says
whether a decoder still uses the buffer.

`Source` adds the threads:

* the read thread (`worker`) runs `OnWorkItem` under `m_lckSeek`: it picks the
  stream that is behind (`Behindhand`), gets an empty buffer (`Parse`), reads and
  sends it (`SendFrame`), or finds the end (`ParseEnd`, `SetEOS`) or a failure
  (`FetchRetry`, `FetchEnd`);
* each renderer (`reader[t]`) runs `ReadBuff` under `m_lckReader`: `BeginRead`
  tests the buffering, `ReadBuff` takes a frame, `AskEnd` looks at the end flag
  after the list was found empty, `StopWaiting` ends the 20 tries, `Deliver` marks
  NEW_POS and returns the buffer, `EndRead` decides on buffering;
* the engine (`engine`) runs `SetPos`: `LockSeek`, `BaseSetPos` under `m_lckReader`,
  then `ParserSetPos` if the position is not buffered; or `Flush`.

The two mutexes are variables with their holder. Three groups of accesses are one
step: `BeginRead` and `EndRead` read both buffer times and end flags together, and
`AtEnd` writes `m_bEOV` (or `m_bEOA`), the copy in the buffers and the NEW_POS mark
together. Nothing but the read thread, the other reader (excluded by
`m_lckReader`) and `SetPos` (excluded by `m_lckSeek` or `m_lckReader`) touches them;
what the readers see late only delays a read. Variables with no counterpart in
the code record the past: `last` (time of the last frame read), `jump` (why the
next may not follow it), `ended` (end reported), `cut` (a failure taken for the
end), `fails`, and two that excuse properties. `astray` is set when the parser and the
buffers do not fit: a failed parser seek, or SetPos(0) within the buffers, whose
answer 0 means "not buffered" (`mfw/Common/CQCSource.cpp:262`). `crashed` is the NULL
dereference at `base/CBuffMng.cpp:187`, after which nothing happens. Both are
hazards with a note.

Left out: a switch of stream (`m_lstNewVideo`, `m_lstNewAudio`), subtitles, live
sources, other parsers, Open and Close; what Send does when a decoder reported an
error and for a source that sets its start time by the first frame
(`base/CBuffMng.cpp:322-331`, 366-370); and frames of corrupt data, which the parser
skips after it counted them (`parser/mp4/CMP4Parser.cpp:468-473`, 489-494), so that the
order properties are about files without them.

### Clock and Render

`Clock` keeps the times of `CBaseClock` in a record; `m_llStart` includes the system
time that has passed, and `Tick` advances it. A running clock that was never set stays
at 0, and a correction below `ErrAdj` is ignored, as in the code.

`Render` has two work threads, the engine and the message thread:

* a pass (`rnd[r].pc`) tests the status of its thread (`TestStatus`), enters
  (`EnterPass`), and reads from its decoder: a frame (`ReadVideo`, `ReadAudio`), the
  end (`ReadEnd`), nothing yet (`NothingYet`) or a stream that ran dry (`Buffering`).
  Video waits for the clock (`WaitRenderTime`), shows the frame (`Show`) and behind
  its first one waits for audio (`WaitFirstAudio`). Audio waits for its time when it
  begins later than video (`WaitAudio`), starts the clock if it stands
  (`StartAudio`), waits for video (`WaitVideo`, `WaitFirstVideo`) and gives the
  frame to the device (`Play`);
* the engine makes one call at a time under `m_mtFunc`. Pause and Stop set the
  status of one thread, wait for its pass, and go on to the other (`PauseRenderer`,
  `PausedVideo`, `PausedAudio`); SetPos pauses, sets the positions of audio, video
  and source, and starts again (`SetPosAudio`, `SetPosVideo`, `SetPosSource`,
  `StartRenderer`, `SeekEnds`). Stop sets `m_bForceClose` before it takes the mutex
  (`CallStop`, `Stop`);
* a message of the end of a stream is handled or dropped (`HandleEOS`, `DropEOS`).

The status test of `CThreadWork` and the mark `m_bWorking` are two steps, so that a
pass may be between them when Pause returns. Video holds `m_mtRnd` from its read on,
and its SetPos waits for that mutex; the SetPos of audio takes none.

The source and the decoders are what they answer: the frames in order, an end that
the decoder of audio reports with the last frame and that of video one pass later, and after a seek
the last frame at or before the position. The number of frames shown counts to one: the
code only asks whether there was any. Passes without a frame that are followed by
another pass count as one (`NothingYet`).

Left out: files with one stream, live sources and a new source under running
renderers (`m_bNewSource`), speed and offset of the clock, a seek before Start,
Pause or SetPos of a stopped player, a seek the source refuses
(`mfw/OMBox/COMBoxMng.cpp:981-996`), the play in a loop, a frame of time 0 behind the
first (`mfw/OMBox/CBoxVideoRnd.cpp:358`), formats and capture.

### MemFile and HttpIO

`MemFile` is the list of blocks of a downloaded file. A byte is the position it has on the
server, so that the content of a block tells whether it was put where it belongs.
Every method holds the mutex of the memory to its return and is a function of the
memory: `FillBuff`, `ReadBuff`, `GetBuffSize`, `SetPos`, `Reset` and the rules by which
blocks are used again. It is the memory of an IO that plays: with `m_bOpenCache`, which an
IO that fills a cache sets, SetPos does nothing (`base/CMemFile.cpp:177`).

`HttpIO` has the three mutexes `m_mtLockFunc`, `m_mtLock` and `m_mtLockHttp` with
their holders and counts, since they are recursive and ReadAt calls SetPos with one
held. A step takes a mutex, or lies between two accesses to something that is shared
without one.

* The reader (`rd`) calls ReadAt (`ReadAt`, `OpenURL`, `ReadAtMem`), SetPos
  (`SetPosBegin`, `SetPosHttp`, `SetPosMem`, `SetPosConnect`) and Read (`Read`,
  `ReadGivesUp`, `ReadGoesOn`, `ReadCopy`).
* The download thread (`dl`) reads from the network (`BeginRead`, `NetData`,
  `NetNothing`) and fills the memory (`Fill`); a lost connection empties it (`Lost`,
  `ResetMem`) and is made again (`BeginReconnect`, `ReconnectHttp`, `ReconnectEnds`).
* The engine (`eng`) calls Stop at any time (`BeginStop`, `Interrupt`, `StopThread`,
  `Join`), and Close (`BeginClose`, `CloseAll`) when the thread that reads has ended.

An IO is fresh (`OpenFresh`) or made from a cached source (`OpenCached`), whose blocks
fill the memory (`CopyMem`) and whose head and moov box are copied apart (`HeadBuff`,
`MoovBuff`). The copies have the contents `CopyOtherMem` gives them: the data of the
blocks one behind the other, into buffers of which a part may stay `Unset`. ReadAt
answers from them (`FromCopy`). `CHTTPClient` is external: the next bytes, nothing, or a
lost connection.

Left out: streams without a size and the end of such a stream, the limit
`m_nCacheSize` with its Exit (660-664), Write, speed and notifications, the requests
to disconnect and to connect again (SetParam), Pause, a second Open after Close. The IO
is one that plays: not one that fills a cache, for which a failed reconnection counts
as a connection (`m_bNotifyMsg` false, 148-159); nor one whose parser wants a full read to
return early (`m_nExitRead`, 223), or of an MP3, whose read waits without a
connection (230). Copying behind the end of a buffer (839, 864) is not modelled.

## 3. Runs

| Run | Instance | Shows |
|---|---|---|
| `thread_work` | 2 owners, 2 threads, 2 events, 2 ids, all calls, Exit | handshakes, ownership of events, refinement of `TaskQueue` (88 thousand states) |
| `thread_work_live` | 1 owner, fairness | events fire, calls return |
| `box_mng` | 2 URLs, all calls but the fast open, live HTTP source, at most 2 waiting tasks for optional posts, 1 message | 6 invariants of the engine (3.5 million states) |
| `box_mng_live` | 1 URL, every call but the add-cache parameter, looping and local sources, Run and SetPos in callbacks, fairness | opens are answered, calls return but for two named waits of SetPos (432 thousand states) |
| `box_seek` | expected violation | `m_bSeeking` stays set |
| `box_reopen` | expected violation | a closed player opens its source again |
| `box_callback` | expected violation | SetPos in PLAY_COMPLETE deadlocks |
| `msg_mng` | 2 receivers, 2 messages, 3 items, refused opens, fairness | ownership, no leak, refinement of `MsgBus`, messages dispatched, calls return, but for what is held back by a refused open (163 thousand states) |
| `source` | 4 frames of each type, key frames 0 and 2, one SetPos or Flush, one failure (read taken for the end, parser seek) | buffers conserved and not reused early, end reported at the end, frames in order and decodable (1.2 million states) |
| `source_live` | 3 frames, one lost connection, fairness | SetPos returns, both streams come to their end (119 thousand states) |
| `http_io` | file of 8 bytes in blocks of 2, fresh or from one of five caches, 2 calls, 1 lost or failed connection, Stop and Close, fairness | download in step with the connection, reads give the file, calls return but for two named waits (335 thousand states) |
| `render` | three files, 2 or 3 calls, streams that run dry once, fairness | clock of a paused player stands, play ends but for three named stalls, calls return (468 thousand states) |

Bounds. Two work threads are all that can be alive: an old one past line 293 and
the one Start created. Two events show every order of two posts, and a fired event
in reuse next to a waiting one. Two URLs distinguish the source of the last Open
from the one before. `MaxTask` only bounds posts that the program may repeat
without limit (cache requests, reopen requests); OPEN and SEEK are never
suppressed. `MaxMsg` is 1 because the handler looks at the renderers, not at the
message: a second message of the same end of stream finds the same state. In
`box_mng` the fast open is left out because it replaces the source under running
renderers without the mutex, so that PLAY_COMPLETE of the old source may be reported
while the new open is pending; `box_mng_live` includes it. The
add-cache parameter, which posts one task and returns, is left to `box_mng`.
`MaxSeek` bounds SetPos by the SEEK tasks that wait: `m_bSeeking` makes
the engine refuse it while one waits, but for the moment before the flag is set (909-911),
which a callback and the application may use in turn, each time one task more: it is 1
where liveness is checked and 2 for the safety of `box_mng`. Three
items let one wait, one be delivered and one be free.

In `source` four frames let the buffers be full (`MaxBuffTime` 1), hold a key frame
that is not the first, and leave frames in the parser when SetPos comes.
Position 1 is found in the buffers or lies before the second key frame, 3 lies behind
it, 4 behind the end; 0 is left out, because within the buffers it is the excused case
above and elsewhere it does what 1 does. One call of SetPos or Flush (`MaxSeek`) meets every state of the
read thread and the renderers; one failure (`MaxFails`) comes before, during or after
it. `BuffReads` is 1 instead of 150: buffering starts once more than one frame was read.
`nKeepFrames` is 2 as in the code. `SyncFrames` is never reached by four frames: the
alignment of audio and video ends by what was read. The clock of the video renderer
may ask for any time (`Wanted`), so that frames are late.

In `http_io` two bytes per block make every read cross a block; the memory is
recycled from `KeepSpan` 4 on, and a read of position 5 lies farther ahead than
`Far`, so that ReadAt seeks. One cache is empty; two hold the head, a gap of two bytes
and the moov box, which begins with a block or within one; one begins behind the
start of the file and one ends within the moov box, as after a lost connection.
Two calls meet each other's seeks; one lost connection comes in any state
of the reader. A second failure repeats the reconnection.

In `render` a file has two frames for each stream at most. Its three scenarios are
the cases the code tells apart: video longer than audio, both equal, and audio that
begins later than video and than `Second`. The first has three calls and no gap, the
others two calls and one gap; `atEnd` says whether the end goes back to the
beginning (a local file) or not (HTTP). Position 2 is the last frame of video, or
behind it. `SeekMode` is on, so that frames before the position are dropped; without
it they are shown, which is the case of a position that is a frame's. `MaxTime` 2 is
the end of the longest file: the clock stands there.

The end-of-stream of `box_mng` is over HTTP: for other URLs the end pauses the
renderers while the status stays Run (`COMBoxMng.cpp:2090`), and
`StatusTellsRenderers` does not hold for them. `msg_mng` switches off the
deadlock check because a refused open followed by the destructor stops the
system (section 5), and `box_callback` and `box_mng_live` because the
callback that waits for a worker that needs its mutex is a real deadlock. `http_io` and `render` may come to
rest: closed, at the end of the file, or when no call is left.
The `source` runs switch it off because a file that was read to its end is at rest.

Fairness. Every thread is scheduled (weak fairness of the owner's and the
application's steps, of the worker and of the dispatcher); waits with a time
limit end; the clock advances. Strong fairness is assumed of steps that take a
mutex others take again and again, which a mutex queue gives. The application
need not call anything: its calls are not fair. In `source_live` a renderer may be
starved of `m_lckReader` by no other (strong fairness of `BeginRead`), and `SetPos` gets
`m_lckSeek` because the read thread sleeps 1 ms without it (`mfw/Common/CQCSource.cpp:573`).
The wait in `ReadBuff` ends after 20 tries (weak fairness of `StopWaiting`). In
`http_io` the reader, the download thread and the rest of Stop and Close are scheduled, and
a network that is read again and again gives data (strong fairness of `NetData`):
without it no read need ever end. In `render` the two work threads, the engine, the
message thread and the clock are scheduled; a stream that gives no frame for ever is
not among the behaviours, because passes without a frame that repeat are one pass.

## 4. Proofs

`ThreadWorkProof` proves, for every number of owners, threads, events and ids:

* `TypeCorrect`: `TypeOK`.
* `ControlCorrect`: the inductive invariant `ControlInv` of the handshakes. `OneWorker`
  alone is not inductive: it needs that a thread in the loop is the one `m_hThread`
  names, and what `m_bWorking` tells while an owner waits in Pause. From it follow
  `OneWorkerCorrect`, `StoppedIsQuietCorrect` and `PauseCorrect`.
* `ListsCorrect`: the inductive invariant of the lists under `NoSelfReset`, which adds
  where the scan and the withdrawal stand; `OnePlaceCorrect` and
  `NothingDanglesCorrect` follow.
* `TaskQueueImplemented`, under `NoSelfReset`: every step is a step of `TaskQueue` or
  leaves it alone. The task that runs is that of the event being fired, the tasks that
  wait are those of the other events of `m_lstFull` in their order. `ScanInv` adds to
  the lists that at most one event fires, and that the scan of a pass has passed only
  events with a delay: that is why a task overtakes no other but a delayed one.

`MsgMngProof` proves, for every set of messages, receivers and (finitely many)
items, `TypeCorrect`, `OnePlaceCorrect`, `InfoOwnedCorrect` and
`NothingLeaksCorrect`. One inductive invariant `Inv` serves all four: to `OnePlace`
and `InfoOwned` it adds when the dispatcher has an item in its hands (`HandInv`)
and that nothing is posted or dispatched once the destructor has returned
(`CallInv`). The steps that move items are lemmas of their own (`PostItems`,
`DeleteItems`, `TakeItems`, `RecycleItems`); counting infos uses the cardinality
theorems of finite sets. `MsgBusImplemented` proves the refinement of `MsgBus`, one lemma
for each action: the line of the bus is that of the messages in the items of
`m_lstItemFull` (`Line`), so that filling, moving and deleting items must keep the
messages of the others (`SequenceLemmas`, `Mapped`). `StepInv` says what the dispatcher
and a poster know between two steps of theirs.

`BoxMngProof` proves, for all sets of URLs and properties of theirs, bounds and calls:

* `TypeCorrect`, `NoRendererLostCorrect`, `AbortClearedCorrect` and
  `QuietWhenDeletedCorrect`;
* `StatusTellsRenderersCorrect`, unless the end of a source pauses its renderers
  (`PausedAtEnd`: a source that is not read over HTTP and does not loop, section 3);
* `ReportsAreCurrentCorrect` for applications without the fast open (`NoFastOpen`,
  section 5).

`EngineInv` is the inductive invariant of the first five. Its parts: the types with the
shape of the call stack (`CallInv`) and of the queue (`TaskInv`); who is inside
`m_mtFunc` at which line (`LockInv`); that a player being deleted has lost its worker
before its receiver (`DeleteInv`); who may have asked for an abort and clears it
(`AbortInv`); which open is pending, waiting or in the hands of the worker
(`PendingInv`); where renderers exist (`RendererInv`) and what they do (`StatusInv`).
`ReportInv` adds which source is open when an open is about to be reported.

`SourceProof` proves, for every file, key frames, buffer sizes, positions and number of
calls and failures:

* `TypeCorrect`, `ConservedCorrect` and `InUseKeptCorrect` from `SourceInv`: who holds
  the two mutexes, where the buffers of a type are, and how near to the end of
  `m_lstEmpty` a buffer lies that a decoder uses, which moves with every failed read
  of the parser (`fails`);
* `FinishIsEndCorrect` from `EndInv`, which relates the end flags of the source, the
  buffers and the readers to the position of the parser. It leaves out the states
  after a SetPos(0) that led the parser astray (`ZeroAstray`, section 5);
* `AudioContinuousCorrect` and `VideoDecodableCorrect`, action properties, from
  `AudioInv` and `VideoInv`: what was read, what is buffered and what the parser reads
  next follow one another, for video with gaps that end at a key frame. Between the
  steps of a seek that has emptied the lists and not yet moved the parser, the lists
  are empty and the gap is not judged; after a SetPos(0) that led the parser astray
  nothing is claimed.

`BuffMngProof` has what these need of the operators of `BuffMng`, each stated once: what
`Read` takes and drops, which suffix of a list it leaves, what SetPos keeps.

`HttpIOProof` proves `DownloadStaysInStep` for every file size, block size, cache and
number of calls and failures. The invariant `IInv` says who holds `m_mtLockHttp` at
which step (`HoldsHttp`), that only a pass about to fill has data in its hands
(`DataIsFilled`), and that what moves the connection without that mutex runs before
there is a connection (`NotYetMade`) or after its last user (`CloseIsLast`). It does
not need what the memory holds. `TypeCorrect` adds `TypeInv`: which mutex each thread
holds how often at each of its steps (`LockInv`: ReadAt holds `m_mtLock` once while it
seeks and twice while it connects), what the parts of a call are (`ReaderTypes`,
`DownloadTypes`), and that no block ends behind the end of the file
until there is a connection (`MemoryTypeInv`), without which the first download could
begin behind the end. It rests on what each operation of `MemFile` makes of a list of
blocks (`FillBuffBlocks`, `SetPosType`, `ReachedEnd`, `CopiedLength`), and on
`LoopExists` and `LoopStays` of `SequenceLemmas` for the loops over a list, and the copies
of a cache on what `FlattenSeq` makes of blocks (`FlatIs`, `CopiedToType`).

`ReadsCorrect` proves `ReadsGiveTheFile` for an IO that is opened without cached data
(`m_llHeadSize = 0`). `OnePiece` is not inductive: `FileInv` adds that every block but the
last is full, so that data which continues the piece goes to the last block or behind it
(`PieceRange`, `PieceFill`), that the piece ends where the download goes on (`EndsAt`
`m_llDownPos`), which needs `DownloadInStep` of the first invariant, that nothing is in
memory before there is a connection, and that there are no copies (`NoCopies`). A seek to a byte in memory keeps the whole piece and
goes on at its end, any other empties it (`PieceSetPos`); a read copies the bytes of the file
up to the end of the piece (`PieceCopied`), and where `GetBuffSize` was enough a full read
gets all (`PieceRead`). With a cache the hypothesis is needed: blocks may overlap (section 5).

`RenderProof` proves `ClockOfPausedStands` for every file whose audio does not begin
later than video, every number of calls, positions and gaps. `IInv` adds to
`PausedIsQuiet` that both threads were told to pause before the clock was stopped
(`ToldToPause`): a pass that began before may run on, and starts the clock only if
the status of its thread still is Run. A seek of a paused player keeps it (`Quiet`
includes its steps), and only a seek of a running one starts the threads
(`SeekOfRunning`). `TypeCorrect` has an invariant of its own, `TypeInv`, that types what
`TypeOK` does not mention: the clock is set to times of frames and to positions of
seeks, and a seek goes to a frame of each stream.

The assumptions are those on the constants, which each module states and TLC evaluates
(the null value is no thread, event, id, message or delivery; owners are not workers;
key frames are frames of the file, the first among them; every stream has a frame; the
blocks of a cache are sorted parts of the file that do not overlap), and
`NoSelfReset`, `NoFastOpen`, `PausedAtEnd` and `ZeroAstray` where they are stated. Each
of these four excludes behaviours of the code that TLC shows to violate the property.
`SequenceLemmas` proves what `RemoveAt`, `Append` and `Tail` do to the elements of a
sequence, with and without duplicates, and that a set of positions has a first and a
last one.

Only model-checked: all liveness (liveness under fairness is out of TLAPS's reach), the
three violations, and `ReadsGiveTheFile` for an `HttpIO` that is opened from cached data.

## 5. What the model found

The three expected violations are listed in `PROJECT.json` under "findings" with
the lines of code and the statement they contradict. What else the model met, as
far as no run is spent on it, stands at the hazard it belongs to:

* A refused open of an RTSP URL leaves the gate of the messages closed
  (`mfw/OMBox/CBoxSource.cpp:116`), and the destructor waits for ever
  (`base/CMsgMng.cpp:27`) although `mfw/OMBox/COMBoxMng.cpp:121` means to "make sure it
  can exit application".
* The end of the parser takes back the marks of the first frames after a seek, also
  while frames of both streams wait (`mfw/Common/CQCSource.cpp:631-638`).
* A fast open is accepted without `m_mtFunc` (`mfw/OMBox/COMBoxMng.cpp:269`) while the
  handler of the last open, behind its test for a newer one, may be about to report
  OPEN_DONE: the report comes after the new open was accepted.
* At the end of a source that is not read over HTTP and does not loop the engine seeks
  to 0 and pauses the renderers, while the status stays Run
  (`mfw/OMBox/COMBoxMng.cpp:2090`).
* SetPos(0) within the buffers answers 0, which the source takes for "not buffered"
  (`mfw/Common/CQCSource.cpp:262`): the parser goes back although the frames are kept. A
  second SetPos(0) in a row keeps the end flags as well, so that a stream can be
  reported at its end while the parser still has frames of it.
* `HttpIO`, `LockCycle`: SetPos takes `m_mtLockHttp` and then `m_mtLock`
  (`io/http2/CHTTPIO2.cpp:373`); Reconnect takes them the other way round (111, 569),
  as does ReadAt, which calls SetPos with `m_mtLock` held (273-277). Both orders meet.
* `HttpIO`, `Passed`: a read waits for bytes the download has passed, when the memory
  was emptied (635) after a seek had connected behind what it kept, or when ReadAt
  takes an empty memory to begin at 0 (`base/CMemFile.cpp:354`).
* A fast open whose OpenSource fails sets the status Open all the same
  (`mfw/OMBox/COMBoxMng.cpp:463`): Run succeeds on a player without a source.
* `HttpIO`, `Whole`: the copies of a cache are the bytes of the file only when its blocks
  begin at 0 and cover the moov box. Otherwise the head is shifted by the missing start
  and unset at its end (`io/http2/CHTTPIO2.cpp:832-843`), and the moov box goes on with
  blocks from elsewhere or is unset (849-878).
* `Render`, `VideoStalls`: audio stops the clock when it has no frame
  (`mfw/OMBox/CBoxAudioRnd.cpp:253`) and then comes to its end; video waits for ever.
* `Render`, `AudioStalls`: audio waits for the time of its first frame
  (`mfw/OMBox/CBoxAudioRnd.cpp:372`) when video has ended before it.
* `Render`, "lost": an end-of-stream message that comes while a seek runs is dropped
  (`mfw/OMBox/COMBoxMng.cpp:2055`); if the streams end then, the play never completes.
* `Render`: a late pass of audio that begins later than video starts the clock of a
  paused player (`mfw/OMBox/CBoxAudioRnd.cpp:294` does not test the status).

The properties name these states. `OpenEnds` and `CallsReturn` of `BoxMng` excuse the
states of `box_callback` (`CallbackDeadlock`), `CallsReturn` also those of `box_seek` in
which SetPos waits for a task that has ended (`SeekTaskGone`). `MessagesEnd` and
`CallsReturn` of `MsgMng` excuse what waits after a refused open. What they
excuse they do not catch; they show that nothing else waits for ever.
`CallsReturn` of `HttpIO` excuses `LockCycle` and
`Passed` (for Stop and Close, `Passed` only after a connection that succeeded behind
Stop has set the status back to Run, `io/http2/CHTTPIO2.cpp:333`, so that the reader
they wait for never sees the stop), `ReadsGiveTheFile` what ReadAt answers from the copies of
a cache that is not `Whole`, `PlaybackEnds` the next three and `PausedIsQuiet` the last. `CallsReturn`
and the part of `ReadsGiveTheFile` about the memory leave out an IO that is made from a
cached source: its memory holds the cached blocks with their gap, the download starts
at the gap and fills over the blocks behind it, so that blocks overlap
(`base/CMemFile.cpp:141`) and `GetBuffSize` ends at one that does not start where the
last one ended; a read behind it may wait for ever. When the connection of its first read
fails, nothing starts the download thread any more (`io/http2/CHTTPIO2.cpp:267`), and
later reads fail.

## 6. Not modelled, and the plan

`PROJECT.json` lists every component and its status, and under "hazards" what is
hard to test and which property covers it. Left, in this order:

1. The switch of a stream in `CBuffMng` (`SwitchNewStream`) and `SetStreamPlay`: order of
   frames across the switch, buffers conserved.
2. `CBoxSource`: the cache of opened sources, cancel against add; Open and Close of
   `CQCSource` against its thread.
3. As far as it goes: HLS playlist refresh, the sender of the analysis, live sources
   in `Render`.

New runs replace or join existing ones where one instance answers both questions.

Out of scope: container parsers (byte layout), device wrappers, codecs, the test
programs, third-party code. Data races on strings and objects that another
thread frees (hazards with a note) are outside the model, whose variables have no
addresses except for events and items.
