# TLA+ models of live-transcoder

live-transcoder is two programs. The **controller** (TypeScript, one Node
process) is asked by ingest servers to authenticate, set up and tear down the
tracks of a live channel; it assigns a packager, configures what the transcoders
produce, polls until the channel is playable and reports its status to the
Kaltura backend. A **transcoder** (C, ffmpeg) receives one track over the KMP
protocol, decodes, filters and encodes it into several outputs and sends these on
over KMP; an HTTP thread of it answers `GET /diagnostics`. For tests it streams a
file to itself from a thread of its own.

This directory models the parts whose correctness depends on the order of
events, checks them with TLC on small instances, and proves the main properties
with TLAPS for every value of the constants.

## 1. The system

| Part | State | Operations | Talks to |
|---|---|---|---|
| Channel lock, `LocalCache.ts` | `locker`: name -> date of the grant | `lock`, `unlock`, over `retry()` of `utils.ts` | setup, teardown |
| Requests, `BusinessLogic.ts` | none of its own | `authenticate`, `setup`, `teardown` | all of the below |
| `ChannelStarter` | `channelsPendingStart` and the loops left running | `start`, `cancel`, a poll | packager, channel objects |
| `ChannelStopper` | `channelsPendingStop`: id -> timer | `stop`, `cancel`, the timer | `KalturaDAL.removeChannel` |
| `KalturaDAL`, `KalturaChannel` | `channels`: id -> object; state, output and queue of calls of each object | `getChannel`, `addOutputs`, `removeInput`, `markPlayable`, `stop`, ... | backend |
| `ChannelOutput`, `InputConfiguration` | variants and their tracks | `setup`, `merge`, `removeInputTracks` | |
| Kaltura API client, registries, packager client, HTTP front end | session key; job map | HTTP calls | outside |
| Transcoder main, HTTP server | the listening sockets, SIGINT handler | `start`, `stop` | receiver, file streamer |
| File streamer, `file_streamer.c` | `file_streamer_t`; timestamps of its thread | `start`, `stop`, `close` | the receiver, over KMP |
| Logger, `logger.c` | one recursive mutex | `log_init`, `logger1` | every thread and the SIGINT handler |
| JSON parser, `json_parser.c` | `cur_pos`, `depth`, the C stack | `json_parse` | configuration, MEDIA_INFO |
| Receiver, `receiver_server.c` | the client's session, outputs, published diagnostics | `processClient`, `calc_diagnostics`, `get_diagnostics`, `close` | transcode session, HTTP thread |
| Transcode session, codec, filter, output | decoder, filters, encoders, outputs | `init`, `add_output`, `send_packet`, `close` | ffmpeg, KMP |
| Sample statistics, `samples_stats.c` | a ring, a window into it, its bytes | `init`, `add` | every stage of the transcoder |
| KMP, vector, config | | | |

What is hard to test here: the lock is a lease that can be stolen and a poll
that gives up; `setup` holds it across HTTP calls; the starter leaves polling
loops behind that outlive the request and look at shared state before and after
an `await`; a grace timer removes a channel without the lock; the backend is
told of states by queues that belong to objects and not to the channel; in the
transcoder three threads and a signal handler share a buffer, a structure with a
stop flag and two mutexes, one of which a thread initialises again while the
others use it; the statistics overwrite a ring by position while they drain it by
time; the parser counts depth, elements, digits and types by hand.
`PROJECT.json` lists every such hazard at its line under `hazards`.

What makes each modelled part correct:

- **Lock**: one request per channel at a time, as long as nobody outstays the
  lease; nobody waits for ever; an entry is never left behind.
- **Channel life cycle**: the grace timer never removes a channel that is
  playable or being started; a pending start is polled for and ends; an emptied
  channel is removed; one object per id is playable; the backend ends up with the
  status the controller has.
- **Output**: after a teardown the input's tracks are gone, no variant is left
  without tracks, and audio does not change which variants there are.
- **Diagnostics**: the HTTP thread copies only allocated memory, no buffer leaks
  or is freed twice, every request is answered.
- **Transcoder process**: whatever moment a SIGINT comes, the file streamer
  ends, its structure outlives it, one thread at a time writes a log line, and
  the process exits; the streamed timestamps go back at the start of a round only,
  by no more than what the file begins below 0.
- **JSON parser**: it accepts exactly its grammar, with the value the text
  stands for, and never reads past the text, overflows or recurses too deep.
- **Statistics**: the bytes counted are those of the samples in the window.
- **Receiver and pipeline**: every frame reaches every output it is due to,
  once and in order, whatever another output's stages do; what was held back is
  sent before the end; the receiver ends when its client does.

## 2. Modules

| Module | Code | What it is |
|---|---|---|
| `LeaseLock` | | abstract lock of one channel: owners, and whether somebody broke in |
| `LocalCache` | `LocalCache.ts`, `utils.ts` | the polled, expiring lock; implements `LeaseLock` |
| `ChannelOutput` | `channelOutput.ts`, `InputConfiguration.ts` | operators: `Configured`, `Merge`, `RemoveInputTracks`, `WhiteList` |
| `Channels` | `BusinessLogic.ts`, `channelStarter.ts`, `channelStopper.ts`, `KalturaChannel.ts`, `KalturaDAL.ts` | composes the abstract lock, the outputs, setups, loops, the timer and the backend |
| `Controller` | `BusinessLogic.ts`, `LocalCache.ts` | the requests of `Channels` under the lock of `LocalCache`; implements `Channels` |
| `Diagnostics` | `receiver_server.c`, `http_server.c`, `main.c` | two threads and a signal handler around one buffer |
| `FileStreamer` | `file_streamer.c`, `KMP.c` | the thread that streams a file over and over |
| `Logger` | `logger.c` | the recursive mutex, and its second initialisation |
| `Transcoder` | `main.c`, `http_server.c`, `receiver_server.c` | composes the three above: start, signal, stop, join, exit |
| `JsonParser` | `json_parser.c` | `json_parse` as a machine over characters |
| `SamplesStats` | `samples_stats.c` | ring, window and sum |
| `KmpConnection` | | abstract KMP connection: described, frames in order, ended |
| `TranscodeSession` | `transcode_session.c`, `transcode_codec.c`, `transcode_filter.c`, `transcode_session_output.c` | the pipeline, step by step |
| `Receiver` | `receiver_server.c`, `KMP.c` | `processClient`, which drives `TranscodeSession`; every output implements `KmpConnection` |
| `MC*` | | instances for TLC |
| `*Proofs` | | theorems |

`map` in `PROJECT.json` names the lines of each definition.

**LocalCache.** `entry` is the age of `locker.get(name)`, not its date: `Tick`
makes it older and runs down the `delay` of each waiting caller. `Lock(c)`
is the call, a poll is one of `Take` (no entry, or one older than the lease),
`Retry` (waits for another interval) and `Override` (the last try fails: the
`catch` of `lock()` lets the caller in, without an entry); `Unlock` deletes the
entry, also one that is now another caller's. `Pass` is a poll that lets in a
caller with no `await` between `lock()` and `unlock()`, which teardown is: it is
out again in the same step. Ages saturate just past the lease, where the code
stops telling them apart.

**Channels.** One action is what Node runs between two `await`s. `setups[s].pc`
says which call a setup waits for: `"metadata"` (profile of the channel) or
`"assign"` (the packager). The actions are `SetupBegins`, `MetadataArrives`,
`PackagerAssigned`, `SetupFails`, `Teardown`, `Authenticate`; of a polling loop
`LoopWakes`, `LoopCancelled`, `LoopServed`, `LoopUnserved`; the timer `StopFires`;
and `BackendReplies`. The lock is `LeaseLock`, which `LocalCache` implements: a
lease that runs out is a `BreakIn` of it. What a request does inside the lock is
an operator of its own (`SetupOpens`, `PackagerReady`, `SetupThrows`,
`TracksRemoved`), which `Controller` takes up. A channel object is a record: its
state, its output, the calls it has queued at the backend, and whether the
last one that reports a status failed. `BackendReplies` of a failed call may have
had its effect: the answer was lost, or a later request of the same multirequest
failed. An object nobody refers to any more is reused for the next
`getChannel`. `hazards` is a history variable: it remembers that a lease ran
out, that the timer removed an object somebody was using, or that a loop gave
up, and properties that the code does not keep in these cases say so.

**Controller.** The whole of it: setups and teardowns poll for the entry of
`LocalCache`, by the clock, and between `lock()` and `unlock()` do what
`Channels` says. `Teardown` is `Pass` of the cache with `TracksRemoved`,
`SetupEnds` the `finally` with `unlock()`; `Waits` is what only the cache sees,
`Proceeds` what runs without taking or leaving the lock. `life` is `Channels`
with those who hold the cache's lock as `owners`.

**Diagnostics.** `main` and `http` are the program counters of the two threads,
`live` the allocated buffers, `locker` the owner of `diagnostics_locker`.
`Interrupt` runs `stop()` at any place of the main thread. It destroys the mutex
the threads may be in, after which locking excludes nobody.

**Logger, FileStreamer, Transcoder.** Each of the parts has actions of its own
variables; `Transcoder` extends all three and says which thread takes which step
when. A step of the main thread waits while the thread is in the logger or the
handler runs on it (`MainRuns`). The handler is taken apart: it logs
(`HandlerLogs`), asks the streamer to stop (`HandlerStops`), and closes the
receiver (`HandlerCloses`, which is `Interrupt` of `Diagnostics`). A caller of
the logger `waits`, is `in` or `out`; handler and main thread are two callers of
one thread, which is what the recursion of the lock is for. Lines a thread writes
one after the other without a step that others see are one. `LogInit` forgets
owner and count: `lost` are those who sleep on the forgotten state, and `torn`
remembers that anybody used the lock. `fileStreamer` says what became of the
structure: allocated, started, joined, freed, and the pointer cleared a statement
later. `conn` is the streamer's connection as the receiver has it: the kernel
takes it before anybody accepts it. The packets of the file are records of stream
and timestamps, which are signed: the dts of a file with B-frames begins below 0.

**JsonParser.** The descent of the code is a sequence `stack` of the arrays and
objects that are open, each a `json_value_t` filled in so far; `place` is what is
expected at `cur_pos`, and an action is what one iteration of a loop or one call
does there. A literal counts as one character, since the parser compares it as a
whole; letters, white space and characters nothing starts with are one each. The
reference it is judged by is in `MCJsonParser`: tokens and a grammar over them,
which looks at the text as a whole, and `Written`, the tokens of a value.

**SamplesStats.** `head`, `tail`, `history` and `totalWindowSizeInBytes` are
the fields of the C struct; `added`, `bytesIn` and `bytesOut` are history: what
came in, and what its place in the window says has gone out. Timestamps wrap at
`PtsModulus`, as unsigned ones do.

**TranscodeSession and Receiver.** One thread runs all of it, and `at` is where
it is: at a read, in the body of `processClient`'s loop, adding outputs, in the
decoder, in a filter, in an encoder, closing. What ffmpeg decides is a choice:
a stage keeps some of the frames it was given and gives out the earliest ones,
and any call may fail (`ok` then remembers it for the properties only). A frame
carries the number of its packet. `peer` is the client, `header` the local
`packet_header_t` of `processClient`, which keeps its last content when a read
fails. `PeerGoes` is a step at the reads only, because the thread cannot tell
earlier. `decoder.described` says whether a MEDIA_INFO has ever been received: until
then the codec parameters are blank, and no decoder opens from them, also when a
client goes and the header left is that of a MEDIA_INFO. An output more than an
array has room for is `AddOverruns`: the code tests no index, and what the process
does afterwards (`"overrun"`) is undefined. A second MEDIA_INFO begins a second session in the same
server: `base` separates its outputs from those of the first, which stay in the
server's array and are closed with it.

## 3. Runs

| Run | Instance | Properties |
|---|---|---|
| `lock` | 3 callers, lease of 3 ticks, a poll every 2 ticks, 3 tries, fair | `EntryOwned`, `MutualExclusion`, `LeaseHonoured`, `LockReturns`, `ImplementsLeaseLock` |
| `controller` | 2 setups, 1 teardown, a lease that ends with the tick, 1 try, 2 loops, 2 objects | `TypeOK`, `StopSparesPlayable`, `PendingIsPolled`, `PendingHasOutputs`, `PlayableIsCurrent`, `EmptiedIsTimed`, `ImplementsChannels` |
| `inputs` | 2 inputs, 3 flavors | `NoEmptyVariant`, `TeardownIsComplete`, `AudioKeepsVariants` |
| `live` | 1 setup, 2 loops of 2 polls, leases kept, fair | `StartEnds`, `EmptiedIsRemoved` |
| `backend` | 1 setup, 1 loop, calls to the backend | `BackendAgrees` |
| `transcoder` | 2 buffers, 1 SIGINT, a file of 3 packets that begins at dts -1, for ever or for a limited duration, fair | `TTypeOK`, `CopiesLive`, `Accounted`, `StreamerAlive`, `LogExclusive`, `RequestAnswered`, `DtsGoesBackByLead`, `Ends` |
| `json` | 22 texts and every text one edit away from one; `int64` up to 117, `uint64` up to 235, 2 levels, 2 elements | `TypeOK`, `NoOverflow`, `DepthCounted`, `Decides` |
| `stats` | ring of 3, window of 2 ticks, 5 samples, timestamps modulo 8 | `TypeOK`, `WindowSum`, `WindowExact`, `RateCounted` |
| `pipeline` | 5 tracks (passthrough, two renditions on one filter, one that drops frames, one disabled), 2 packets | `TypeOK`, `NothingLost`, `FlushIsComplete` |
| `receiver` | audio, 2 tracks, up to two sessions, 2 packets, fair | `FlushIsComplete`, `ImplementsKmp`, `StreamEnds` |
| `software_frames` | software, hardware, software rendition of one size on a GPU decoder, every call may fail | violates `SoftwareFramesInCpuMemory` |
| `key_frames` | the ladder of `pipeline`; packets 1 and 2 are key frames, frame 1 is flagged corrupt, no stage fails | violates `KeyAligned` |

`about` in `PROJECT.json` says what each shows.

**Why the bounds are enough.**

- `lock`: one caller inside, one that steals, one that meets the thief's entry.
  A lease between one interval and two, and three tries, let both ways of entering
  beside an owner happen (expiry, last try).
- `controller`: one setup inside, a second that robs it or gives up, a teardown
  that passes through beside them. With a lease of one tick and one try a poll
  of a taken lock gives up or takes over; that one is tried again is the subject
  of `lock`, and nothing `Channels` sees.
- `Controller`, `Channels`: two setups are enough for one to overtake the other, two loops for
  a start to be cancelled and begun again while the old loop still sleeps, two
  objects for a removed one to live on beside its successor. A request waits when
  no loop, object or place in a queue is free: a bound (`Loops`, `MaxObjects`,
  `MaxCalls`), which the code does not have. `MaxPolls` is 1 or 2, since only "a
  loop gives up" matters. `Reporting = FALSE` leaves the
  calls to the backend out of the runs they decide nothing in. Symmetry is used
  in `controller`, whose properties are of states and steps only.
- `transcoder`: two buffers are the published and the new one, so the first is
  reused at once. `MaxBase` = 1 lets a round begin from a base of 0 and of 1, so
  there are three, from 0, 1 and 3: the second sends 0 after 1, back by the lead of
  the file, and the third, whose base has grown by more, 2 after 2. The duration of
  3 is reached in the second. The signal comes at any step of any thread, before the
  receiver listens, in the logger, and between `av_free` and the statement after it.
- `json`: the two limits leave a remainder when divided by ten, as the real ones
  do (9223372036854775807 and 18446744073709551615), which is what the overflow
  tests depend on. Two levels and two elements are reached and exceeded by the
  edits. An edit removes, replaces or inserts a character, so the bad texts are
  good up to one place, and end at every place.
- `stats`: five samples go round a ring of three, so the ring wraps and is
  overwritten in the window; timestamps repeat, skip, go back and wrap.
- `pipeline`, `receiver`: with two packets a stage can hold one frame while it
  gets the next, which is what order and flushing depend on. `OneFails` keeps
  `pipeline` to one failing stage, which may fail at any of its calls. The
  inductive invariant of section 5 was also run at three packets and without
  `OneFails` on the smaller instance. `MaxOutputs` and
  `MaxSessionOutputs` are the room in the server's array and in a session's (100
  and 10 in the code). `pipeline` fills both with one MEDIA_INFO, and a second
  overruns the first (`AddOverruns`).
- `key_frames`: the second packet is what matters, since an encoder begins with a
  key frame anyway; only frame 1 is forced to be one, for being corrupt.
- `software_frames`: the third output is fed from the filter of the first and
  configured from that of the second.

**Deadlock** is checked wherever the program never stops. `Transcoder` and
`Receiver` do stop: the process exits, the one client is served.

## 4. Fairness

- `LocalCache`: the clock advances and timers fire (`WF` of `Tick` and of each
  poll). `Unlock` is not fair: a request may hang in an HTTP call, and
  `LockReturns` holds nevertheless.
- `Channels`: timers fire and HTTP calls settle (`WF` of each `Poll(l)`, of
  `StopFires` and of each object's `BackendReplies`). Requests are not fair, and
  nobody promises that a packager ever becomes ready.
- `Transcoder`: every thread gets the processor, and a mutex that is free again
  and again is got in the end: the diagnostics are calculated about once a second,
  and a log line takes no time. Hence `SF` of each thread's steps (main thread with
  its handler, streamer, HTTP thread once it has a request). Excepted are those
  who sleep on a lock that was initialised meanwhile (`Awake`), whom nothing
  wakes: `Ends` allows for a main thread among them (`MainLost`). `SF` of
  `FinishClient`, because what the streamer has sent is finite and calculating
  diagnostics does not keep the main thread from reading it. No request and no
  signal has to come.
- `Receiver`: its thread is scheduled (`WF` of `ThreadStep`). The client owes it
  nothing: `StreamEnds` speaks of clients that have ended or gone.

## 5. Proofs

Everything below is checked by TLAPS for all values of the constants that meet
the named assumptions (`LocalCacheAssumption`, `ChannelsAssumption`,
`NoneAssumption`, `DiagnosticsAssumption`, `SamplesStatsAssumption`,
`SessionAssumption`, `ReceiverAssumption`, `JsonAssumption`, `FileAssumption`,
`ControllerAssumption`).
These give constants their types and
ask that bounds are positive; TLC evaluates them on the instances. Every safety
invariant and action property of the passing runs but `Decides` has a theorem. The
inductive invariants were run through TLC before they were proved.

- **`LocalCacheProofs`**: `TypeCorrect`, `NoLeakedLock`, `Exclusion`, `Lease`,
  `Implementation`. An entry belongs to a caller that is inside (`EntryOwned`),
  and unless somebody broke in, a caller that is inside has the entry: so nobody
  takes a lock that is held without an expired entry or a last try, and these are
  the break-ins of `LeaseLock`. `MutualExclusion` alone is not inductive, since
  it does not say whose the entry is. `IdleUnbroken` says that no break-in is
  remembered once nobody is inside, which callers that pass through preserve.
- **`ChannelsProofs`**: first that `Configured`, `Merge` and `RemoveInputTracks`
  return outputs whose variants all have a track, of any profile and any requests.
  `Shape` types every variable but the lock, the backend and
  the history, and `OwnersOK`, `BackendOK` and `HistoryOK` type these
  (`TypeCorrectness`); with the variants' tracks (`Full`) `Shape` is inductive
  (`NoVariantEmpty`). The others are inductive relative to it:
  - `StopIsSafe`, `StartIsPolled`: every action that begins a start, replaces the
    channel's object or makes it playable cancels the timer or runs while it is
    not armed, and a loop that serves an object does so only while the id is pending.
  - `OnlyCurrentPlays`: `UseInv` adds that every setup in progress and every loop
    refers to the object the id has. Only `StopFires` takes an object from the id,
    and while nothing uses it, unless `removedInUse` is remembered.
  - `PendingPlays`: `StartInv` adds that the owners of the lock are the setups in
    progress, that they are one at most unless a lease ran out, and that the object
    a setup gives to a packager has outputs. A teardown that would take them away
    does not get the lock. It needs a profile with a flavor for every request
    (`RequestsFeed`, a condition of `PendingHasOutputs`): see section 6.
  - `EmptiedWaits`: by `TimedInv` a suspended channel has no outputs, the owners of
    the lock are the setups in progress, and while the id's channel is an emptied
    one, a setup in progress has only just begun. So only a setup that has put
    the channel on air again cancels its stop: the safety half of
    `EmptiedIsRemoved`.
  - `AudioJoinsVariants`: what an audio request takes part in is in its white list,
    which is taken from the channel's own variants.
  - `TeardownCompletes`: by `OwnedInv` a variant made for one input has the
    `inputId` of that input and tracks of no other, whatever was merged, so the
    test for `inputId` in `removeInputTracks` finds all that the input feeds.
  - `BackendIsTold`: by `ToldInv` the last call of an object's queue that
    reports a status reports the object's state, if that is Broadcasting or
    Playable, and when no such call is left, the last one reported it, if it
    succeeded and no other object of the id has reported since.
- **`ControllerProofs`**: `Implementation`, `BreakInsHaveCause`, `StopIsSafe`,
  `StartIsPolled`, `PendingPlays`, `OnlyCurrentPlays`, `EmptiedWaits`,
  `LifeUnderLease`, `TypeCorrect`. Every step of the controller is a step of the
  cache or leaves it alone (`UsesLock`), so the invariant of `LocalCacheProofs`
  holds in it. By that an entry has a writer inside, and without an entry nobody
  is inside unless somebody broke in (`EntryAndOwners`); with `BreakInKnown`, that
  a broken lock is remembered in `hazards`, a poll that is granted is `Acquire` or
  `BreakIn` of the abstract lock (`Entering`), a teardown is `LockedBriefly`
  (`Passing`), `unlock()` is `Release` (`Leaving`), and waiting is a stutter. What
  `ChannelsProofs` proves then carries over, for any lease and tries, whichever
  caller deletes whose entry. `BreakInsHaveCause` says when the exceptions made
  for a break-in can begin: only when a setup has outstayed its lease, or the
  caller that comes in is at its last try. The theorems used are those of
  instances of the two proof modules; the lemmas `Same...` say that these have the
  operators of the instances the controller is made of.
- **`DiagnosticsProofs`**: `BuffersAccounted` for any number of buffers and
  signals, `CopiesAreLive` until a signal destroys the mutex. The invariant adds that until the
  swap the main thread's local still names the published buffer (`Remembered`),
  which is what it frees, that nothing is allocated before the receiver is open
  (`Fresh`), and that a thread between lock and unlock owns the mutex
  and the buffer being copied is the published one (`Excluded`). `Excluded` is
  stated up to the moment the handler destroys the mutex, which a signal before
  the server is open does not (`Open` initialises it again), nor one that finds it
  held and fails; and up to the end of the main thread, which destroys it too.
- **`SamplesStatsProofs`**: `TypeCorrect`, `WindowCounted`. Until a slot in the
  window is overwritten, the ring from `tail` to `head` is the samples that came
  in, so what `Drain` subtracts is what `AddSample` added. `RatesCounted`: there
  are partial sums of the samples' sizes, growing with each, of which `bytesIn` is
  the last and `bytesOut` the one at `tail` (`Summed`; that they exist is enough,
  and needs no recursion), so the bytes of a rate are between 0 and what came in.
  `WindowIsExact`: with timestamps that do not decrease, what left the window stays
  too old for it (`WindowKept`), and `Drain` stops at the first sample that is not.
- **`JsonParserProofs`**: `NumbersFit` and `DepthIsCounted`, for any texts, limits
  and digits. A digit is only added to a number below the last multiple of ten
  under the limit, so ten times it and nine more still fit, remainder or not.
  The depth is the length of the stack: the two actions that open a container add
  to both, `Close` takes from both, and an empty one is in neither.
  `TypesOfParser`: a value has the type its array wants because what starts it was
  tested against that type, and what is open inside an array is of it too
  (`Nested`, `WantedOK`), for it becomes an element when it is closed. An object
  lacks one value for its keys exactly where one is expected (`Counted`), and the
  cursor never passes the NUL.
- **`TranscoderProofs`**: `TypesOfTranscoder`, `BuffersOfTranscoder`,
  `CopiesOfTranscoder`, `StreamerOutlived`, `OneLogs`, `DtsInOrder`, for any file,
  number of buffers and signals. Each step of the process is, for each of the
  parts, a step of that part or none, and to the buffers only the death by
  `SIGPIPE` is not a step of `Diagnostics`: so its invariant carries over. `TIInv`
  adds where the streamer is for each state of its structure (`StreamerPlaced`:
  nobody frees it before the join, and nobody joins a thread that runs), and that
  the lock's count is the number of callers inside, all of the owning thread
  (`CountOK`, `Exclusive`), until a second `LogInit` finds the lock in use. Of
  an ordered file, whose packets are in decoding order and not all below 0, a round
  begins with the base at or behind what was sent last and not below 0, and sends
  nothing below what it has sent (`Between`, for any signed timestamps); so a
  round that ends has sent something at or above 0 and the base does not shrink.
  Hence `DtsGoesBackByLead`, at the first packet of a round only and by no more
  than its dts is below 0.
- **`ReceiverProofs`**: `TypeCorrect`, `FramesInOrder`, `ConnectionsFollowKmp`,
  `NothingIsLost`, `FlushCompletes`, for any ladder of tracks, any stream and any number of sessions. `IInv` says
  where the frames are: for each filter and each encoder, what it let through or
  keeps (`Seen`) is earlier than everything still ahead of it (in the decoder,
  in hand, in its filter). A step of the pipeline moves one frame from "ahead of"
  to "seen by" a stage (`Moves`) or leaves both as they are (`Rests`), so the
  order is kept. From it, a frame that an encoder emits is later than
  every frame its output has sent, so each step of the thread is, for every
  output, a step of `KmpConnection` (`Describes`, `SendsLater`, `SendEof`) or a
  stutter (`Stutters`). Without the order at every place of the thread, the order
  on the connections is not inductive. `LossInv` says in addition which frames are
  where: what a sound output wants and its encoder has not seen is exactly what is
  still ahead of the encoder (`NoneMissing`), a filter that lets every so many
  frames through has counted those it was given, which tells the next one, and
  flushing goes through the outputs in order (`Flushing`). Between packets nothing
  is ahead of an encoder but what the decoder or a filter keeps, which is
  `NothingLost`. The overrun of `TypeOK` needs `Counted`: while outputs are added, those
  of the session are at most the enabled tracks before the cursor, so the one that
  finds no room belongs to a MEDIA_INFO that enables too many (`Excess`). It does not
  follow that the arrays suffice, and they do not (section 6).

Only model-checked:

- liveness (`LockReturns`, `StartEnds`, `EmptiedIsRemoved`, `RequestAnswered`,
  `StreamEnds`, `Ends`), which is beyond the prover;
- `Decides`, which compares the parser with a recursive grammar: what that computes
  for every text takes induction over data, which is out of the prover's reach.

The two runs of section 6 refute what they check, so nothing is proved of them.

## 6. What the code does otherwise

Two runs end in a violation; `findings` quotes the lines.

- `software_frames`: `GetFilter` does not stop at the filter it finds, so the
  encoder of an output that reuses one may be configured from another.
- `key_frames`: `encodeFrame` tests a packet flag on a frame, so key frames are
  not forced on the renditions.

Behaviour the models contain and no property forbids, because the code does not
prevent it:

- The start polls up to 5000 times, not 10: `ChannelStarter.start` passes the
  wait time as the number of retries (`MaxPolls` is the bound for it).
- SIGINT destroys the diagnostics mutex while it may be locked and closes the
  listening socket, but the client in service is served on.
- A request before the first diagnostics copies from NULL (`GetCrashes`).
- A burst longer than the ring overwrites samples in the window; the byte count
  is wrong from then on (`wrapped`).
- A client that is lost when its last header was CONNECT leaves the receiver
  spinning on it; after MEDIA_INFO it initialises sessions until the array of
  outputs is overrun (`StreamEnds` speaks of FRAME and EOS).
- No index of the arrays of outputs is tested: a configuration that enables more
  than 10 tracks is written beyond the session's, and MEDIA_INFO after MEDIA_INFO
  beyond the server's 100 (`AddOverruns`).
- A file whose dts begins below 0, as with B-frames, is streamed with timestamps
  that go back at the start of its second round by up to as much
  (`DtsGoesBackByLead` allows for it).
- A decoder that fails while it is drained ends the process (`DecoderFails`).
- Filters are not flushed: what they hold at the end is lost (`Due`).
- A grace timer that fired leaves its entry, and a later `stop()` of the id does
  nothing (`EmptiedIsRemoved` excepts it).
- The timer may remove a channel a setup is working on, whose object lives on
  without being in the map (`removedInUse`).
- A loop that gives up leaves the id pending, and later starts of it do not poll
  (`gaveUp`).
- A setup whose request is too poor for every flavor, or finds none of its input,
  marks the channel as broadcasting and begins a start that has nothing to play
  (`PendingHasOutputs` speaks of the other profiles).
- A variant that belongs to no input by a stream suffix may keep tracks after a
  teardown (`TeardownIsComplete` asks for the others).
- The streamer's thread initialises the logger's mutex again while it lowers and
  raises the log level. Whoever is inside stays there beside the next one
  (`torn`), and who slept may sleep on (`lost`). If the file cannot be opened the
  level stays at WARNING for the whole process (`OpenFails` skips `RestoreLevel`).
- A SIGINT before the receiver listens closes descriptor 0, which `socket()`
  then returns and `KMP_listen` takes for an error (`Interrupt` at `"starting"`).
- A SIGINT before `file_streamer_start` is forgotten by it (`StartStreamer`
  clears `stop`); one between `av_free` and the assignment after it writes to
  freed memory (`StopStreamer`).
- A SIGINT before the streamer's connection is accepted resets it, and what the
  streamer sends then may end the process by `SIGPIPE` (`Sigpipe`).
- Each round through the file adds the last timestamp, which has the base in it
  already, to the base, which more than doubles (`StartAgain`). A file whose only
  packet has timestamp 0 therefore never reaches its duration (`Ends` holds
  for files that advance).
- The parser refuses integers from the last multiple of ten below the limit on
  (for `int64`, those of 9223372036854775800 and more), accepts leading zeros,
  and gives an array the type of its first element: `[1, 1.5]` is refused and
  `[1.5, 1]` accepted.

## 7. Simplifications

- One channel id and one lock name: two ids share no state but the packager.
- A poll that is granted and what the request does up to its next `await` are one
  step of `Controller`: only resolved promises lie between them, which Node runs
  before any timer or request.
- Code between two `await`s is one step. Between the resolution of a promise and
  its continuation other continuations may run; each model step is one of these
  continuations.
- `StopFires` waits until no loop sleeps. With the times of the default
  configuration the sleep of every loop alive when the timer was set (5 s before
  the first poll, 2 s between polls) is over when the grace period (5 s) is, and
  Node fires timers in the order they are due. The timer may still fire while a loop
  waits for the packager's answer, as it may during a setup.
- Retries of `packager.setup` inside a setup are one outcome, success or failure.
- A channel object's `token` is never set, so every `authenticate` with a token
  queues a call to the backend; requests without one are left out.
- `KalturaDAL.alignState` returns at its first line, so it has no step.
- In `Transcoder` the only client is the streamer: clients from outside are the
  subject of `Receiver`. That a foreign process has the port is an outcome of
  `OpenReceiver`. `http_server_start` cannot fail. The streamer's pacing, which
  does not consider the base, takes no time, and the option that overwrites
  packets with random bytes is left out. `file_streamer_start` is given a file
  name on `start()`'s stack, which is read after `start()` may have returned; the
  model opens the file or fails to, whatever the name is then.
- `listener.port` is read from the configuration and 9999 used, so the port is
  not in any model.
- The main receiver listens with `receiver_server_sync_listen`, one client at a
  time; the threaded listener serves only the debugging packager and is not
  modelled.
- Saving an output to a file, a debugging option, and the JSON of the statistics
  are not in `TranscodeSession`.
- Frames are numbers, given in the order in which ffmpeg hands packets over.
  Stages give out what they hold smallest first (`Prefixes`, `Earliest`), so a set
  stands for the queue. An encoder that reorders, as libx264 with B-frames does by
  default, emits packets in decoding order, and these numbers are then positions in
  what it emits: "in order" is said of that order, not of presentation. ffmpeg
  itself is external and may do anything within that.
- Timestamps of the streamer are integers of any sign. `basePts` and `lastDts` are
  `uint64_t` in the code, added to signed ones: the two agree modulo 2^64. A packet
  without a timestamp (`AV_NOPTS_VALUE`) is one with a very small one, and a file
  with such packets is not an `OrderedFile`.
- `KMP_connect` returns 0 when `socket()` does, which `file_streamer.c:51` takes for
  a connection. It would need descriptor 0 to be free when the streamer connects;
  stdin has it, or, after a SIGINT closed it, the file opened before.
- The JSON parser allocates its elements and keys; that an allocation fails is
  left out.

## 8. Not modelled

- **Configuration, utilities**: read once, formatting; no state after the start.
- **HTTP front end, packager's client**: routing and calls without state; their
  outcomes are choices in `Channels`.
- **Registries**: child processes or Kubernetes jobs begun after `setup` has
  answered; nothing of their outcome comes back into the state modelled here.
- **Kaltura API client**: signs and sends one request at a time; lost answers
  and partly failed multirequests are in `BackendReplies`.
- **Vector**: holds the sessions of the threaded listener, which only the
  debugging packager uses. **Hash**: used by nothing.
- **JSON getters and `json_decode_string`**: look values up and unescape them,
  without state.
- **KMP framing**: byte layouts.
