# A verification of ndistreamer

`ndistreamer` plays a file or a stream as an NDI source. Its core is a pipeline of five threads with
bounded queues between them and one clock that all presenters share:

```
          +-> packets[video] -> decoder -> frames[video] -> presenter --+
 demuxer -+                                                             +-> NDI
          +-> packets[audio] -> decoder -> frames[audio] -> presenter --+
```

The modules here are translated from `src/src`; line references below are to those files. TLC checks
each module on small instances, and TLAPS proves the safety of the queue, of the clock, of the pipeline of
threads, of the pacing of frames, of the decode loop, of the memory of pictures, of the timeline of a looped
input and of the teardown for any number of threads, streams, items and passes, any sizes, rates and
tolerances.

## The system

| Component | State it keeps | Operations | Interacts through |
|---|---|---|---|
| Bounded queue, `util/queue.hpp` | the items, `m_closed`, two condition variables | `Push`, `PushFor`, `Pop`, `Close`, `Size` | called by the demuxer, the decoders and the presenters; a stop token |
| Presentation clock, `util/clock.cpp` | counts of ready and expected streams, the origin, the epoch in steady time and in UTC | `WaitForStart`, `StreamFinished`, `Resync`, `DueTime`, `Timecode` | called by the presenters, and by the video decoder to see how late it is |
| Streamer, `streamer.cpp` | threads, `m_running`, `m_error`, the stop source, counters, when audio was last sent | `Start`, `Fail`, `WaitFor`, `Wait`, one loop per thread | owns everything else |
| Process, `main.cpp` | `g_interrupted`, count of signals | signal thread, `main` | requests the stop; turns errors into an exit status |
| Options, `options.cpp` | none | `ParseOptions` | `main` |
| Media input, `av/input.cpp` | demuxer context, per-stream offsets, extent of the pass | `Open`, `SelectStreams`, `Read`, `Account`, `Restart` | demuxer thread; an interrupt callback watches the token |
| Decoder, `av/decoder.cpp` | FFmpeg decoder, hardware device, errors in a row | `Send`, `Receive`, `Reset` | one decoder thread each |
| Audio processor, `av/audio_processor.cpp` | resampler, one held block, where the next one belongs | `Process`, `Configure`, `Resample`, `Emit`, `Flush` | audio decoder thread |
| Video processor, `av/video_processor.cpp` | filter graph, conversion context, buffer pool | `Process`, `BuildFilter`, `DrainFilter`, `Emit`, `Convert`, `Download`, `Flush` | video decoder thread; its buffers travel to NDI |
| NDI sender, `ndi/sender.cpp` | the frame NDI may still read | `SendVideo`, `SendAudio`, `FlushVideo` | presenters |
| NDI runtime loader, `ndi/runtime.cpp` | the library | `Load`, `~Runtime` | construction and destruction of the streamer |
| Logging, frame types, FFmpeg helpers | none that changes while streaming | | everywhere |

What is hard in it:

* **Waiting.** Two condition variables per queue, one in the clock, each with a stop token, some with a
  timeout, `notify_one` after the unlock. A lost wakeup shows once in many hours.
* **Coupling.** One demuxer feeds both streams. A stream whose queue is full holds the other one back,
  and the clock wants to hear from both streams before it starts.
* **Endings.** End of input, `Close`, drains of decoders, filters and held blocks, a looped input, an
  exception in any thread that skips the rest of its function, signals: in every state of the queues.
* **Time.** Deadlines and timecodes are anchored to two clocks, moved by whoever is master, and read
  without a common lock.
* **Overload.** Three ways of shedding video, none of which may touch audio or the last picture.
* **Memory that travels.** A picture is made on one thread, sent on another and read by NDI on a third,
  out of a pool, a conversion context and a filter graph that are kept until the input changes.
* **One timeline out of many passes.** Lengths in microseconds, tracks in ticks, samples at two rates.
* **Starting and stopping half-way.** Any constructor may throw, open may hang, and a signal may come at
  any moment of it.

What makes each component correct:

* queue: FIFO order, nothing lost or twice, its bound, no lost wakeup, every call ends after `Close` or a
  stop;
* clock: all streams that are ready start together and on time, one start, no stream waits longer than
  the timeout, timecodes agree with deadlines for ever;
* streamer: frames leave in order, and none is missing but what is counted as shed or, on a damaged input,
  given up by the read, a decoder or a filter; passes of a looped input stay apart, it ends in every case,
  and a clean exit leaves nothing inside;
* presenters: nothing early, files never ahead of themselves, only the master moves the clock;
* decode loop: skipping starts and stops at keyframes, drains are complete, decoder errors give up only
  after 30 s of nothing else;
* input: passes follow each other without gap or overlap in both streams, however often they repeat;
* audio processor: blocks do not overlap, and no sample disappears otherwise;
* video processor: a cache never serves a frame it was not made for, a graph that is replaced is emptied;
* sender: no buffer is reused or freed while NDI may read it;
* process: members outlive their users, an interruption is not a failure, a signal always ends it.

## Modules

**`ClosableFifo`** is the abstract queue: a bounded FIFO whose calls take effect at one instant, that can
be closed, and whose blocked calls give up at a stop.

**`BoundedQueue`** is `util/queue.hpp` itself. A step is what a thread does between taking `m_mutex` and
releasing it or going to sleep; the notifications that follow the unlock (`queue.hpp:46`, `66`, `84`,
`96`, `97`) are steps of their own. `pc[t] = "asleep"` is membership in the wait set of `m_not_full` (for
producers) or `m_not_empty` (for consumers); `"woken"` is a thread that was notified and has not yet
tested its predicate again; `"expired"` is a `wait_for` whose time is over. The stop token sets its flag
first and runs one callback per condition variable afterwards, each a `notify_all` (`callbacks`).
Wakeups may be spurious. `accepted` and `delivered` are history. `BoundedQueue!Fifo` is the refinement
mapping: the thread is `inCall` from its call until its critical section has decided, so the
notification after the unlock maps to a stutter.

**`PresentationClock`** is `util/clock.cpp`, one action per critical section, with the presenters' calls
around it: a presenter either calls `WaitForStart` with some first timestamp (`Arrive`), or leaves
without a frame (`StreamFinished`), or leaves after `WaitForStart` returned false, in which case it calls
`StreamFinished` as well (`streamer.cpp:365`, `385`). `Decide` is one turn of the loop at `clock.cpp:34`.
The steady clock is `now`; UTC is `now + utcOffset`, and the offset may be adjusted at any moment. The
constants stand for the durations, and `NoPts` for `INT64_MAX`.

**`Pipeline`** is `streamer.cpp` and the threads of `main.cpp`. Each thread has a place in its loop
(`demux`, `decoder[x]`, `presenter[x]`), and a queue is a sequence with a flag, as `ClosableFifo` promises.
A packet is its number within its stream, counted on over the passes of a looped input, and a frame has the
number of its packet. `held[x]` is what the decoder has not handed out, `kept[x]` what the filter or the
held audio block has not. On a damaged input (`MayLose`) the program gives packets up and counts them nowhere
but in the log: the decoder refuses one nine times (`streamer.cpp:221`) or fails on one in `Send` or `Receive`,
in a drain with all that is still inside (`decoder.cpp:175`, `187`); a filter drops a frame; a read error at
the end of a file that breaks off ends the pass (`input.cpp:237`). `CHANGELOG.md` says so ("Corrupt packets
are skipped instead of stopping the stream") and `test_streamer.cpp` counts on it (`JoinsStreamsMidGop`).
`lost[x]` is history: what went that way. A filter does not make two frames of one here. The reasons to shed (time, keyframes) are left to choice, the conditions that
involve the queues are not: a decoded frame is dropped only while packets are waiting, a late one only while
a newer one is (`streamer.cpp:257`, `351`). `WaitForStart` and `WaitUntilDue` return at any moment; that
they do return is `PresentationClock!WaitEnds` for the first, and `Presentation` is about the second. `exit`
is the status of the process, `Exited` its end: the checks run with deadlock detection on.

**`Presentation`** is what the two presenters do once the clock runs: the late drop in
`VideoPresentLoop`, `WaitUntilDue`, `AudioIsMaster`, `SendVideo` and `SendAudio`. It looks at one epoch
instead of two, because `PresentationClock!TimecodeMatchesDue` has shown that the two agree. Between
`Clock::now()`, `DueTime`, the decision, `Resync`, `Timecode` and the send the other presenter may run;
`at[x]` and `due[x]` are what a presenter has read, `moved` is history: who has a deadline in hand that
the other one has moved since. The time only passes while both rest if `input.urgent` holds; otherwise a thread
may lose any amount of it between two steps. `DropThreshold` stands for
`max(2 * duration, kMinDropThreshold)`, which is fixed for frames of one rate. The frames come from the
decoders in order at any moment, as `Pipeline!Conveyor` says they do.

**`DecodeLoop`** is `Streamer::Decode` with the two callbacks of `VideoDecodeLoop` and the class `Decoder`,
one action per call of the decoder and per decision. FFmpeg's decoder is external: a FIFO `inside` that
hands out a frame when it holds more than `Delay` packets or is draining, may fail for any packet when it
is sent or when its frame is due, and with `MayRefuse` may answer EAGAIN whenever it likes, which the API
rules out but `streamer.cpp:224` provides for. A packet stands for its frame. How late a frame is depends
on the clock and is left to choice; whether packets are waiting is not. `fate` is history: what became of
every packet. Time runs between any two steps, so that pushing a frame may take long.

**`PixelLayout`** is the pure part of `video_processor.cpp`: `FourCCFor`, `TargetFormat`, `IsFullRange`,
`ContiguousLayout` and `HasNdiLayout`, as operators on sizes in bytes.

**`VideoOut`** is the way of a picture from the decoder to NDI. Memory is a set of cells; `InUse` is what
reference counting keeps, `m_pool` what the pool hands out again. A frame has a size, a format, a range, a
matrix and maybe surfaces of the GPU, and says in which cell it lies; `memory` says what a cell holds: the
number of a frame, and the settings it was converted with, or none. A download yields the format that is wanted
if the surfaces have it, and else what the device prefers (`pixels`, `video_processor.cpp:256`); `Emit` has
named the target before (`video_processor.cpp:319`). `place` is where `VideoDecodeLoop` is
within `Process`, `BuildFilter`, `DrainFilter`, `Emit` and the sink. On the presenter's side only what
matters to memory is left: pop, drop, give up, send, flush. `reading` is what NDI may read: a picture from
`send_video_async_v2` to the return of the next call. A filter is external: it keeps `delay` frames back
and passes them on as they are, one for one; the duplicates and drops of a filter like `fps` are left out.
Memory that is not referred to may be handed out again at any time, and
its lowest cell stands for any.

**`Timeline`** joins `MediaInput` and `AudioProcessor`. A file is a set of passes it may deliver, so that a
pass may be longer or shorter than the one before; a packet has ticks, priming, padding and a rate. All
conversions round as `av_rescale` does. The resampler is external: it holds `KeptBack` samples back until it
is drained, and what it has begun of an output sample (`part`) waits for the next conversion, so the two rates
need not divide each other. `Reads` is `Account` and the hand-over of the packet; `Process` makes a block of a frame
(`Made`) and gives it to `Emit` (`Emitted`), as `Flush` does with what it drains. `given` are the blocks
offered to the sink; that the sink refuses on a stop is `Pipeline`'s. Channels are folded into `planar`,
because all they decide is whether a frame is copied or resampled.

**`Startup`** is the life of the process: the command line, the members of `Streamer` one by one, what may
fail about each, the threads as a whole, destruction, the exit status, and the signal thread beside it. A
`world` says what the program finds: libraries, an input that opens, fails or hangs, streams, codecs,
devices. `built` lists the members made, in order of declaration, and destruction takes the last.

`MCBoundedQueue`, `MCClock`, `MCPipeline`, `MCPresentation`, `MCDecode`, `MCVideoOut`, `MCTimeline` and
`MCStartup` give the constants of the runs their values.
Definitions whose comment begins with "Fault:" are not part of any specification. They are plausible
mistakes in the operation below them, put in its place to see that a property notices.

## Runs

| Run | Bounds | What it shows |
|---|---|---|
| `Queue` | a blocking producer with 3 calls and a timed one with 1, 2 consumers, 1 closer, capacity 2, so that both producers, or both consumers, may be asleep at once | every interleaving of two threads in the roles `notify_one` has to choose between: bound, order, no lost wakeup, nobody sleeps through `Close` or stop; refinement of `ClosableFifo` with fairness; calls end; accepted items are delivered |
| `Clock` | 2 streams, timestamps -1, 0, 2, preroll 1, timeout 2, one adjustment of UTC back and forth, 1 unit of time before the first report and after the timeout | all orders of report, end, timeout, stop and resync |
| `PipelineSafety` | both streams, 2 passes of 1 packet, queues of 1, one frame kept in each decoder and processor, exceptions in any thread, signals; once with shedding on a sound input, once damaged without shedding | conservation, separate passes, nothing left inside at a clean exit |
| `PipelineEnds` | video alone, 2 passes of 2 packets, frame queue of 2, one frame kept in the decoder and one in the filter, shedding, damage, exceptions, signals; and 5 packets of video and 2 of audio in any interleaving, queues of 1 | the last picture, nobody waits for a thread that has left (`NobodyIsAbandoned`), and every behaviour ends; the chain of one stream (queue, decoder, queue, hand) is full before the other has begun, and still the demuxer gets through |
| `Present` | a file of 3 pictures and 2 blocks with gaps, tolerances of 2 units, time to 6, any delay of any thread; a live input whose video jumps by 11 units, audio of 2 blocks, time to 12, a stop | nothing early but across a resync, no file ahead of itself; a jump is taken up within the time audio may stay master plus the tolerance |
| `PresentMaster` | the file of `Present` | a violation, see below |
| `Decode` | 6 items in two passes that begin in the middle of a group of pictures, a delay of 2, 1 further attempt, limits of 1 unit, time to 2, errors anywhere, refusals, a stop | complete drains, no missing references, giving up only when lost, an end |
| `DecodeSkips` | 3 packets, no delay, grace of 1 unit | a violation, see below |
| `VideoOut` | 8 inputs of 3 to 5 frames that change size, range, matrix, format or surfaces and change back, devices that prefer another format for downloads, no filter or one with a delay of 1 or 2, queue of 2, 9 cells (as many as can be in use, and one), a stop | NDI reads what was sent, caches fit, filters lose nothing |
| `FullRange` | one frame that is UYVY already, with full range | a violation, see below |
| `Timeline` | 5 inputs, up to 6 passes, ticks of 1/10 and 1/30 s, 1000 units a second, passes with priming, padding, no timestamps, small, whole and wild overlaps, a change of rate, copied or resampled to 45 or 60 from 30 or 60 | passes follow, blocks join, no sample is lost |
| `Startup` | 13 command lines, 12 worlds, any number of signals | teardown, exit status, and a signal ends the process |

The bounds are small, but each is above the point where the interesting case begins: a full and an
empty queue, more sleepers than notifications on either side of the queue, a stage that keeps something back when its input ends, a
stream longer than everything that can hold it. The run of the queue does not check for deadlock,
because there the system may rest: no producer has to push, and nobody has to close. The runs of
`Presentation` do not either, because time ends.

The runs of `Presentation` end with their time, and the inputs are long enough that by then a presenter has
been late by more than `ResyncLate`, has moved the clock and has met the other's moves.

Three runs show where a comment says more than the code does:

* `PresentMaster`: "Only the master moves the clock" (`streamer.cpp:312`). Video finds audio idle at line
  313, audio sends a block and is master again, and then video moves the clock at line 320. What the
  comment is for still holds: in a file the schedule is only ever delayed (`FilesAreOnlyDelayed`), and a
  frame is early only across such a move (`EarlyOnlyAcrossResync`).
* `FullRange`: "NDI assumes limited-range YUV, so full-range sources are converted"
  (`video_processor.cpp:217`). `TargetFormat` turns a full-range source away from its own format and returns
  UYVY; if the source is UYVY that is its own format, and `Convert` hands it on as it is. The same holds
  for a format chosen with `--pixel-format` that the source already has.
* `DecodeSkips`: "If decoding itself stays behind for kVideoBehindGrace, packets are skipped up to the next
  keyframe. Without a backlog the source itself is late, and dropping would not help" (`streamer.cpp:246`).
  `behind_since` is only cleared by a frame that comes out. If the last packet of a burst gives none, it
  stays set through a pause of the input, and the next packet is skipped though the decoder was idle.

Three smaller disagreements are modelled without a run of their own. `queue.hpp:72` says that `Pop` returns
nullopt if a stop was requested; a call that begins after the request still returns an item if there is one,
because the predicate is tested before the token. The loops tolerate it, and `Pipeline` and `DecodeLoop`
model it. `decoder.hpp` says that `Receive` returns nullptr when more input is required or the decoder is
drained; it does so on an error as well, which ends a drain: the frames behind the bad one are cut at the
end of a pass, and only those (`NothingIsCut`). `streamer.cpp:35` says that dropping never freezes the
picture for longer than `kMaxFreeze`; line 351 looks at how long the picture has stood when a frame is
dropped, not at when the newer one is due, so a picture that stands before a pause of the input can be
dropped for the one after the pause.

## Fairness

* `BoundedQueue`: a thread inside a call is scheduled and gets the mutex, a timeout expires, a
  registered stop callback runs, `Close` reaches its notifications once begun, and consumers call `Pop`
  in a loop, as all of them do (`streamer.cpp:201`, `336`, `372`). Nothing makes anybody push, close or
  stop.
* `PresentationClock`: time passes; a thread whose wait is over for a reason that lasts (deadline, stop,
  notification) runs. No stream has to deliver a frame, and spurious wakeups are not needed.
* `Pipeline`: weak fairness of each thread's own step. A read ends once there is nothing to read or a
  stop interrupts it (`input.cpp:76`, `228`); that a packet comes is not assumed, nor a signal, nor an
  exception. Presenters get through `WaitForStart` and `WaitUntilDue` because time passes.
* `DecodeLoop`: weak fairness of the loop's own step and of the demuxer's pushes. A decoder that refuses for
  ever is not excluded.
* `Startup`: weak fairness of `main`, of the signal thread, and of the end of the pipeline after a stop
  (`Pipeline!Terminates`). No signal has to come, and an input does not end by itself.
* `Presentation`, `VideoOut` and `Timeline` state no fairness: they promise bounds (`JumpIsTakenUp` gives the
  time) and safety only.

All of it is weak fairness of steps that stay enabled; nothing needs a strong scheduler, with one
exception that is visible in `BoundedQueue`: a producer competing with others for room is promised
room only as far as `ClosableFifo!Fairness` says.

## Proofs

`BoundedQueueProofs` proves `TypeOK`, `FifoOrder`, `NoLostItem`, `NoLostRoom`, `EndReachesSleepers` and
that every step implements a step of `ClosableFifo` or a stutter, from `QueueAssumption`: finite sets of
threads with disjoint roles, and any capacity. The inductive invariant is `TypeOK` with the roles spelled
out, and each of the four others is then inductive on its own. The core is a count: while a
consumer sleeps, the number of items is at most the number of awake consumers plus notifications under
way. A push adds one item and one notification; a notification wakes a sleeper if there is one; a
consumer that takes an item turns from awake to notifying and removes an item; a consumer falls asleep
only when there is no item. Timed producers make the dual harder: one whose time expired still counts,
because it looks at the room once more before it gives up.

`PresentationClockProofs` proves the two invariants and the three action properties of the run `Clock`,
and the types, from `ClockAssumption`, for any finite set of streams and any timestamps. Its invariant
`IInv` adds to the types that `m_ready` counts the streams that have arrived, `m_expected` those that have not
finished, that `m_min_first_pts` is the earliest timestamp reported, and that the two anchors agree.
`StartIsComplete` needs the counting in full: a stream that was refused is counted both as ready and as
finished, which is only sound because refusal needs a stop.

`PresentationProofs` proves `TypeOK`, `EarlyOnlyAcrossResync`, `FileNeverRunsAhead` and `FileOnlyDelayed`
from `PresentationAssumption`: any two sequences of timestamps, in any order, any tolerances, any
interleaving. The invariant `IInv` adds what a presenter may rely on between two readings: times that
were read are past, a deadline that nobody has moved since it was read is the one in force
(`DueIsCurrent`), and in a file a deadline that was read is never earlier than the frame's place, and a
resync has been decided for lateness only (`FileDeadlines`). The last two and `FileOnlyDelayed` need each
other: a resync delays because the deadline was not too early, and the deadline is not too early because
every resync before it has delayed. One lemma says how a presenter arrives at each place (`OwnSteps`),
one what its steps leave alone of the other's (`OthersKept`); the rest follows from the two.

`JumpsAreTakenUp` proves `JumpIsTakenUp` for every input whose presenters lose no time (`input.urgent`; a
thread that is not scheduled keeps a picture back for as long as it likes, so the property says nothing
without it). The invariant `Patient` bounds not the time but the end of the sleep: it is within reach if it
lies before audio must have sent again or lose its mastery (`Patience`), or if video has looked as a master
and found its deadline no further ahead than `ResyncEarly` (`WithinReach`). The deadline video has read may
be stale, because audio has moved the clock since; but then audio is on its way to `SendAudio`, and what it
sends renews the patience before time passes (`ReadDeadline`).

`PipelineProofs` proves all six invariants of `Pipeline` from `PipelineAssumption`: any setups with any
streams, passes, capacities and delays, exceptions in any thread, signals, every interleaving. Neither
`TypeOK` nor `Conveyor` is inductive. The invariant `IInv` says of the types that every number is that of a
packet (`Typed`), that `m_running` is the number of threads that have not left (`Counted`), what the
demuxer has to push in each of its places (`Demuxing`), what an exit status means (`Ending`), and of each
stream: the bounds, one below the limit wherever the next step adds one (`Room`), what a decoder and a
presenter have left behind when they leave (`Working`), that the frames in all places, joined from the
network back to the demuxer, are in order and none is missing but what was shed or given up, the latter only
on a damaged input (`Line`), and where markers divide passes (`Batches`). Three points carry the proof:

* every step moves the first item of one part of the way to the end of the part in front of it, takes one
  item out, or empties one part (a decoder that fails in a drain; a read that breaks off is the same beyond the
  demuxer), so `Line` is kept by facts about joined sequences, once for each kind of step;
* a decoder drops a late frame only when packets wait behind it, and a presenter only when a frame does, so
  a dropped frame is never the largest number in line: `LastPictureShown` is about that number;
* `PassesDoNotMix` speaks of the decoder's content, but markers must divide packets wherever they are, and
  the marker that a decoder has popped still divides what it holds from what comes (`Popped`).

The sixth, `NobodyIsAbandoned`, is what remains of `Terminates` and `DemuxerGetsThrough` without fairness:
no thread waits for one that has left, and not all of them wait. `IInv` tells where the owner of a closed
queue is; this needs the reverse (`Handover`): an owner that has left its loop has closed its queues, unless
everybody was stopped, which is what `Fail` is for where an exception skips a `Close`. If everybody waited,
each presenter would wait for its decoder, so no decoder waits for room (there is a frame in a full queue,
whose capacity is at least 1, and none in an empty one), and for the same reason the demuxer does not
either; then it would be gone, with it the decoders, and with them the presenters. Nothing in this counts
streams or compares capacities: while one stream fills its queues, the only thing that must not last is
`WaitForStart`, and that it does not is `PresentationClock!WaitEnds`.

The attempt corrected the model twice: the streams of a setup were bound to the wrong operator in
`Setup`, and `LastPictureShown` now excepts a stream that has no packet at all. That exit status 0 means a
complete presentation is true of a sound input only: on a damaged one `CleanExitIsComplete` leaves room for
what was given up, for the code exits with 0 all the same and keeps no count of it. What `DecodeLoop` shows of
the same loop is which of these losses an error excuses (`NothingIsCut`).

`DecodeLoopProofs` proves `GivesUpOnlyWhenLost`: a run of errors began after the last frame (`Accounts`), so
when the run is as long as the limit, so is the time without a frame. It proves `ReferencesAreThere` too:
by `Refs`, the packet in hand and those the decoder was fed have not been skipped, and unless the loop is
still skipping, a keyframe has come since each packet that was (`Recovered`). Every step that decides a
packet's fate does so to one that was fed or is in hand (`RefsFate`), so only `Sheds` can break it.

`NothingIsCut` needs the whole account of every packet (`Whole`): what is inside the decoder is in the
order of the input and of one pass, a marker that was taken being the end of that pass (`Chain`); a fate is
open exactly for what is inside and for the packet in hand (`Open`); a drain at the end of a pass or of the
input was asked for and the decoder agreed, or `spurned` says that it did not (`Draining`); and what was
cut, or is about to be because the decoder answered an error while it drained, has that error before it in
its own pass (`Excuses`). `TypeOK` is the invariant `Bounded`, which adds the account of errors and frames,
each packet counted once at most and what is inside not yet (`Counts`), and that the decoder has handed out
what exceeds its delay before it is asked for more (`Delays`).

`VideoOutProofs` begins with `PixelLayout`: of every format and size it proves that the contiguous layout
has room for each plane and that none overlaps another (`LayoutHoldsPicture`), that such a picture passes
`HasNdiLayout` (`RepackedIsAccepted`), and that the target is always a format NDI knows (`TargetHasFourCC`).

Then it proves `NdiReadsItsPicture` and `MadeForItsFrame` from `VideoOutAssumption`: inputs of any length,
pictures of any size, any queue, any amount of memory. The invariant `IInv` says of every frame and picture
the program refers to that its cell holds what it claims, in the size it needs (`AllOK`), of the pool that
all its cells have the size it was made for (`PoolOK`), of the context that it fits its key, and of NDI that
it reads nothing but what the sender keeps or is just handing over (`ReadingKept`). A step that writes,
writes to a cell nobody refers to (`Writes`), so all else is as before (`WritesKeep`); this is the point at
which a pool that forgot who holds its buffers would break the proof. `FilterLosesNothing` has an invariant
of its own, `InLine`: the numbers in the queue, in `Emit`, behind the filter, in it and in front of it,
joined, are 1 to `next`, and a graph is empty when it is replaced or the end comes (`Line`); what makes a
step simple is that all places but the queue and the graph hold one frame at most, and who may hold one
where (`Stages`).

`StartupProofs` proves `InterruptIsNoFailure` and `TeardownInOrder` from `StartupAssumption`, for any
command line and anything the program finds. The invariant says for each place of `main` which members
exist, and that the runtime is the first of them and a processor comes after its decoder
(`Construction`); and that the flag is set before the signal thread requests a stop, so that whatever
ended by that stop counts as interrupted (`Interruption`).

`TimelineProofs` proves `PassesFollow`, `BlocksJoin` and `NoSampleIsLost` for any inputs, time bases, rates,
resampler delays and numbers of passes. The first two rest on what `av_rescale` promises (`RescaleBounds`: the quotient is off by half
a unit at most, on either side of zero), on what follows for a conversion there and back (`RoundTrip`) and
for an instant that is moved by a converted shift (`Moved`: off by `MostRounding` at most).

* `PassesFollow` has the invariant `Follow`. It compares what `Account` measured with what was presented:
  the measured end, shifted, and the end of the packets as they were put differ by `MostRounding` at most,
  in each pass anew (`Extent`), because `Restart` converts the whole shift each time (`Tracks`); and no
  packet of any pass begins before the start that the first pass measured (`Beginning`).
* `BlocksJoin` has the invariant `Joined`: what was given away joins, and its last block joins the one that
  is held, which is whole and not empty, unless a seam was left there. `TrimmedJoins` is the arithmetic: a
  tail that `Emit` trims ends within `kOverlapToleranceUs` of where the next block begins, and it is shorter
  than the block, or there would have been nothing to trim. `EmittedJoins` and `FlushJoins` carry it over
  every call of `Emit`, and `Audio` says that rates and counts stay numbers the tolerance is made for.
* `NoSampleIsLost` has the invariant `Counted`: what `Emit` made of the samples since the last flush, what the
  resampler holds and what it has begun are the samples fed to it, in the output's rate and to the fraction;
  at a flush that comes out even (`FlushCounts`: the drained block is the quotient that is owed), so a new
  resampler starts at nothing, whatever its rates (`SettledCounts`). A sum over a sequence is a recursive
  function, and what it computes is a matter of induction. The library's induction theorems have an operator as
  parameter, but its theorem that a well-founded set has a minimal element (`WFMin`) does not: `Least` and
  `Induction` say it for sets of numbers, `SumsExist` builds the function that `SamplesIn` chooses, and
  `SamplesAddUp` is all the rest needs.

Three assumptions on the constants stand behind this. `TimelineAssumption` gives types. `PassesAssumption`
says that the passes over one input begin at the same instant, as `Restart` seeks to its beginning, and
that no timestamp is near the two values that mean none. `ToleranceAssumption` says that the tolerance
covers rounding to samples; with the code's 1000 µs it does for every rate above 500 Hz.

The attempt corrected three statements, each after TLC had shown a counterexample with other constants.
`PassesFollow` allowed half a tick of each track, but two instants that were one are each moved by up to the
larger rounding: with 15 ticks and 1000 units a second the excess shows after some 50 passes, though it never
grows beyond `Slack`. And `broken` did not mark the place of a block that is trimmed to nothing while `Flush`
drains the resampler, which takes a lower rate on the output than on the input (`Seam`). The model of the
resampler dropped the fraction of a sample that a conversion left over, which goes unnoticed as long as one
rate is a multiple of the other; it keeps it now, and the run has a rate of 45 beside 30 and 60.

What stays with TLC: liveness (`Terminates`, `DemuxerGetsThrough`, `LoopEnds`, `WaitEnds`, `EveryoneLeaves`,
`AcceptedIsDelivered`, `SignalEndsProcess`) and the fair part of the refinement: `ENABLED` and fairness are
outside TLAPS here.

## Not modelled

* Logging, and everything that is only logged or counted (`Stats`, `LogStats`).
* FFmpeg, the resampler, filters and NDI, except for what their callers rely on. Filters keep frames back and
  may drop them (`Pipeline`); that one makes more frames than it is given (`fps=50` in the tests) or
  reorders them is not modelled.
* `VideoOut`: timestamps, aspect ratio and field order that `Emit` copies; failing calls of FFmpeg, which
  are `Pipeline`'s exceptions.
* `Timeline`: a block that is trimmed to nothing, and the seam of a flush when the input changes, are not
  compared with the block that follows (`broken`): the code does not look across them either.
* `Startup`: getopt's grammar and the conversion of digits; the environment the paths of libraries come
  from.
* The negotiation of surface formats between FFmpeg and the decoder (`get_format`).

## Plan

Every safety property the runs check is proved. What is left to add is in the two
parts named as `partly` modelled: the surface formats a decoder negotiates, and timestamps and field order
that `Emit` copies.
