------------------------------- MODULE Pipeline -------------------------------
(***************************************************************************)
(* src/streamer.cpp and src/main.cpp: the threads of the streamer and the  *)
(* queues between them, from the first packet to the exit status.          *)
(*                                                                         *)
(*   demux --packets[x]--> decoder x --frames[x]--> presenter x            *)
(*                                                                         *)
(* for each stream x, video and audio.  The queues are what ClosableFifo   *)
(* promises: a call takes effect at once or blocks.  A packet is its number *)
(* in its stream, counted on over the passes of a looped input, and a frame *)
(* has the number of its packet.  Decoders and processors are FIFOs that   *)
(* keep some frames back; on a damaged input they, and the read, also give *)
(* packets up, which the code counts nowhere (`lost').  Pacing is a choice *)
(* here (see Presentation), and WaitForStart returns in the end            *)
(* (PresentationClock!WaitEnds).                                           *)
(***************************************************************************)
EXTENDS Integers, Sequences, FiniteSets, SequencesExt

CONSTANT Setups     \* the instances to look at: see Setup

VARIABLES
    setup,          \* what the options and the input have decided when the threads start
    stop,           \* the stop token
    m_error,        \* the thread whose exception is kept, or "none"
    m_running,
    m_loops,
    packets, packetsClosed,
    frames, framesClosed,
    demux,          \* where the demux thread is
    toPush,         \* what it still has to push: stream and item
    read,           \* how far each stream has been read, or given up
    decoder,        \* where each decoder thread is
    held,           \* frames inside the decoder
    kept,           \* frames inside the processor
    flushing,       \* "no"; the decoder at a "loop" or the "end"; the "processor"
    presenter,      \* where each presenter is
    inHand,         \* the frame a presenter has popped
    started,        \* presenters whose WaitForStart returned true
    sent, dropped, skipped,
    lost,           \* what was given up without being counted
    interrupted,    \* g_interrupted
    exit            \* the exit status, or NotYet

demuxVars == <<demux, toPush, read, m_loops>>
decodeVars == <<decoder, held, kept, flushing, skipped>>
presentVars == <<presenter, inHand, started, sent>>
mainVars == <<setup, interrupted, exit>>
vars == <<stop, m_error, m_running, packets, packetsClosed, frames, framesClosed,
          demuxVars, decodeVars, presentVars, dropped, lost, mainVars>>

Streams == setup.streams
PacketCapacity == setup.packetCapacity  \* of the queues from demux to decoders
FrameCapacity == setup.frameCapacity    \* of the queues from decoders to presenters
DecoderDelay == setup.decoderDelay      \* frames a decoder keeps until it has more input
ProcessorDelay == setup.processorDelay  \* frames a processor keeps: filters, the held block
Looping == setup.looping                \* options.loop
PassLength == setup.passLength          \* bound: packets of each stream in one pass
MayShed == setup.mayShed                \* whether threads find themselves late: options.pacing
MayLose == setup.mayLose                \* whether packets fail: damage, refusals, filters that drop
MaxLoops == setup.maxLoops              \* bound: restarts of the input
MayFail == setup.mayFail                \* bound: threads in which an exception may be thrown
MaySignal == setup.maySignal            \* bound: whether termination signals come

Setup ==
    [streams : (SUBSET {"video", "audio"}) \ {{}},
     packetCapacity : Nat \ {0}, frameCapacity : Nat \ {0},
     decoderDelay : Nat, processorDelay : Nat,
     looping : BOOLEAN, passLength : [{"video", "audio"} -> Nat], mayShed : BOOLEAN,
     mayLose : BOOLEAN, maxLoops : Nat,
     mayFail : SUBSET {"demux", "video", "audio"}, maySignal : BOOLEAN]

ASSUME PipelineAssumption == Setups \subseteq Setup

Marker == 0     \* PacketItem{nullptr}: the input has looped
Nobody == 0     \* no frame in hand
NotYet == -1    \* the process still runs

\* Streamer::Start has spawned every thread.
Init ==
    /\ setup \in Setups
    /\ stop = FALSE
    /\ m_error = "none"
    /\ m_running = 2 * Cardinality(Streams) + 1
    /\ m_loops = 0
    /\ packets = [x \in Streams |-> <<>>]
    /\ packetsClosed = [x \in Streams |-> FALSE]
    /\ frames = [x \in Streams |-> <<>>]
    /\ framesClosed = [x \in Streams |-> FALSE]
    /\ demux = "top"
    /\ toPush = <<>>
    /\ read = [x \in Streams |-> 0]
    /\ decoder = [x \in Streams |-> "pop"]
    /\ held = [x \in Streams |-> <<>>]
    /\ kept = [x \in Streams |-> <<>>]
    /\ flushing = [x \in Streams |-> "no"]
    /\ presenter = [x \in Streams |-> "pop"]
    /\ inHand = [x \in Streams |-> Nobody]
    /\ started = {}
    /\ sent = [x \in Streams |-> <<>>]
    /\ dropped = [x \in Streams |-> {}]
    /\ skipped = [x \in Streams |-> {}]
    /\ lost = [x \in Streams |-> {}]
    /\ interrupted = FALSE
    /\ exit = NotYet

-----------------------------------------------------------------------------
\* Fault: the error is kept, but nobody is stopped.
FailQuietly(who) ==
    /\ m_error' = IF m_error = "none" THEN who ELSE m_error
    /\ UNCHANGED stop

\* Fail, and Spawn's catch: the first error is kept, then everybody is stopped.
Fail(who) ==
    /\ m_error' = IF m_error = "none" THEN who ELSE m_error
    /\ stop' = TRUE

\* The end of Spawn's thread function.
Leaves == m_running' = m_running - 1

-----------------------------------------------------------------------------
\* DemuxLoop

Exhausted(x) == read[x] = PassLength[x] * (m_loops + 1)

DemuxTop ==
    /\ demux = "top"
    /\ demux' = IF stop THEN "closeVideo" ELSE "reading"
    /\ UNCHANGED <<stop, m_error, m_running, packets, packetsClosed, toPush, read, m_loops, lost>>

ReadPacket ==
    /\ demux = "reading"
    /\ \E x \in Streams :
         /\ ~Exhausted(x)
         /\ read' = [read EXCEPT ![x] = @ + 1]
         /\ toPush' = <<[stream |-> x, item |-> read[x] + 1]>>
    /\ demux' = "push"
    /\ UNCHANGED <<stop, m_error, m_running, packets, packetsClosed, m_loops, lost>>

\* Read returns nothing: all was read, or it was interrupted by the stop.
ReadNothing ==
    /\ demux = "reading"
    /\ stop \/ \A x \in Streams : Exhausted(x)
    /\ demux' = "atEnd"
    /\ UNCHANGED <<stop, m_error, m_running, packets, packetsClosed, toPush, read, m_loops, lost>>

\* Without a stop, a read error at the end of a file that breaks off is an end of
\* the pass like any other: what has not been read of it never comes.
ReadBreaksOff ==
    /\ demux = "reading" /\ ~stop /\ MayLose
    /\ read' = [x \in Streams |-> PassLength[x] * (m_loops + 1)]
    /\ lost' = [x \in Streams |-> lost[x] \union (read[x] + 1)..read'[x]]
    /\ demux' = "atEnd"
    /\ UNCHANGED <<stop, m_error, m_running, packets, packetsClosed, toPush, m_loops>>

\* Any other read error is thrown; Close is skipped.
ReadThrows ==
    /\ demux = "reading" /\ ~stop /\ "demux" \in MayFail
    /\ Fail("demux")
    /\ demux' = "ending"
    /\ UNCHANGED <<m_running, packets, packetsClosed, toPush, read, m_loops, lost>>

\* Fault: only the video decoder is told.
MarkersVideoOnly == <<[stream |-> "video", item |-> Marker]>>

MarkerFor(x) == IF x \in Streams THEN <<[stream |-> x, item |-> Marker]>> ELSE <<>>

\* The markers, in the order in which they are pushed.
Markers == MarkerFor("video") \o MarkerFor("audio")

EndOfPass ==
    /\ demux = "atEnd"
    /\ \/ /\ ~stop /\ Looping /\ m_loops < MaxLoops   \* Restart() returned true
          /\ m_loops' = m_loops + 1
          /\ toPush' = Markers
          /\ demux' = "push"
       \/ /\ demux' = "closeVideo"
          /\ UNCHANGED <<m_loops, toPush>>
    /\ UNCHANGED <<stop, m_error, m_running, packets, packetsClosed, read, lost>>

\* Fault: a failed push does not end the loop, and its packet is forgotten.
PushOrForget ==
    /\ demux = "push"
    /\ LET x == toPush[1].stream IN
       /\ packets' = IF Len(packets[x]) < PacketCapacity
                     THEN [packets EXCEPT ![x] = Append(@, toPush[1].item)]
                     ELSE packets
       /\ toPush' = Tail(toPush)
       /\ demux' = IF Len(toPush) = 1 THEN "top" ELSE "push"
    /\ UNCHANGED <<stop, m_error, m_running, packetsClosed, read, m_loops, lost>>

PushPacket ==
    /\ demux = "push"
    /\ LET x == toPush[1].stream IN
       \/ /\ Len(packets[x]) < PacketCapacity
          /\ packets' = [packets EXCEPT ![x] = Append(@, toPush[1].item)]
          /\ toPush' = Tail(toPush)
          /\ demux' = IF Len(toPush) = 1 THEN "top" ELSE "push"
       \/ /\ Len(packets[x]) = PacketCapacity /\ stop
          /\ toPush' = <<>>
          /\ demux' = "closeVideo"
          /\ UNCHANGED packets
    /\ UNCHANGED <<stop, m_error, m_running, packetsClosed, read, m_loops, lost>>

ClosePackets(x, at, next) ==
    /\ demux = at
    /\ packetsClosed' = IF x \in Streams THEN [packetsClosed EXCEPT ![x] = TRUE]
                                         ELSE packetsClosed
    /\ demux' = next
    /\ UNCHANGED <<stop, m_error, m_running, packets, toPush, read, m_loops, lost>>

DemuxEnds ==
    /\ demux = "ending"
    /\ demux' = "gone"
    /\ Leaves
    /\ UNCHANGED <<stop, m_error, packets, packetsClosed, toPush, read, m_loops, lost>>

DemuxWorks ==
    \/ DemuxTop \/ ReadNothing \/ EndOfPass \/ PushPacket \/ DemuxEnds
    \/ ClosePackets("video", "closeVideo", "closeAudio")
    \/ ClosePackets("audio", "closeAudio", "ending")

Demux(step) ==
    /\ step
    /\ exit = NotYet
    /\ UNCHANGED <<frames, framesClosed, decodeVars, presentVars, dropped, mainVars>>
-----------------------------------------------------------------------------
\* Decode, VideoDecodeLoop and AudioDecodeLoop

\* With pacing, and only video sheds what comes too late.
Sheds(x) == MayShed /\ x = "video"

At(x, place) == decoder' = [decoder EXCEPT ![x] = place]
Flushing(x, why) == flushing' = [flushing EXCEPT ![x] = why]

\* Pop and, for a packet, Send.
DecoderPops(x) ==
    /\ decoder[x] = "pop" /\ packets[x] # <<>>
    /\ packets' = [packets EXCEPT ![x] = Tail(@)]
    /\ LET item == Head(packets[x]) IN
       \/ /\ item = Marker
          /\ Flushing(x, "loop") /\ At(x, "drain")
          /\ UNCHANGED <<held, skipped, lost>>
       \/ /\ item # Marker
          /\ held' = [held EXCEPT ![x] = Append(@, item)]
          /\ At(x, "drain")
          /\ UNCHANGED <<flushing, skipped, lost>>
       \/ /\ item # Marker /\ Sheds(x)    \* decoding stays behind: not before a keyframe
          /\ skipped' = [skipped EXCEPT ![x] = @ \union {item}]
          /\ UNCHANGED <<decoder, held, flushing, lost>>
       \/ /\ item # Marker /\ MayLose     \* Send fails, or has been refused too often
          /\ lost' = [lost EXCEPT ![x] = @ \union {item}]
          /\ At(x, "drain")
          /\ UNCHANGED <<held, flushing, skipped>>
    /\ UNCHANGED <<stop, m_error, m_running, frames, framesClosed, kept, dropped>>

\* Pop returns nothing: the decoder is flushed, unless it was a stop.
DecoderFinds(x) ==
    /\ decoder[x] = "pop" /\ packets[x] = <<>>
    /\ packetsClosed[x] \/ stop
    /\ IF stop THEN At(x, "closing") /\ UNCHANGED flushing
               ELSE At(x, "drain") /\ Flushing(x, "end")
    /\ UNCHANGED <<stop, m_error, m_running, packets, frames, framesClosed, held, kept,
                   skipped, dropped, lost>>

\* The packets or frames of a sequence.
Items(s) == {s[n] : n \in DOMAIN s} \ {Marker}

\* What the decoder keeps back for itself.
Delay(x) == IF flushing[x] = "no" THEN DecoderDelay ELSE 0

\* Receive and on_frame: the frame enters the processor, which may hand one out.
\* The audio sink's stop test comes after the frame.
DecoderReceives(x) ==
    /\ decoder[x] = "drain" /\ Len(held[x]) > Delay(x)
    /\ held' = [held EXCEPT ![x] = Tail(@)]
    /\ \/ /\ kept' = [kept EXCEPT ![x] = Append(@, Head(held[x]))]
          /\ At(x, IF Len(kept[x]) = ProcessorDelay THEN "push"
                   ELSE IF stop THEN "closing" ELSE "drain")
          /\ UNCHANGED <<dropped, lost>>
       \/ /\ Sheds(x) /\ packets[x] # <<>>       \* late, and packets are backing up
          /\ dropped' = [dropped EXCEPT ![x] = @ \union {Head(held[x])}]
          /\ At(x, IF stop THEN "closing" ELSE "drain")
          /\ UNCHANGED <<kept, lost>>
       \/ /\ MayLose                            \* a filter drops it, or it is trimmed to nothing
          /\ lost' = [lost EXCEPT ![x] = @ \union {Head(held[x])}]
          /\ At(x, IF stop THEN "closing" ELSE "drain")
          /\ UNCHANGED <<kept, dropped>>
    /\ UNCHANGED <<stop, m_error, m_running, packets, frames, framesClosed, flushing, skipped>>

\* Receive fails and returns nothing, which ends the drain.  In a flush, the reset or the
\* end throws away what is still inside, as after a Send(nullptr) that was refused.
DecoderFails(x) ==
    /\ decoder[x] = "drain" /\ Len(held[x]) > Delay(x) /\ MayLose
    /\ \/ /\ flushing[x] = "no"
          /\ held' = [held EXCEPT ![x] = Tail(@)]
          /\ lost' = [lost EXCEPT ![x] = @ \union {Head(held[x])}]
       \/ /\ flushing[x] # "no"
          /\ held' = [held EXCEPT ![x] = <<>>]
          /\ lost' = [lost EXCEPT ![x] = @ \union Items(held[x])]
    /\ UNCHANGED <<stop, m_error, m_running, packets, frames, framesClosed, decoder, kept, flushing,
                   skipped, dropped>>

Drained(x) == decoder[x] = "drain" /\ Len(held[x]) <= Delay(x)

\* After the markers' flush, Reset.
DecoderGoesOn(x) ==
    /\ Drained(x) /\ flushing[x] \in {"no", "loop"}
    /\ Flushing(x, "no") /\ At(x, "pop")
    /\ UNCHANGED <<stop, m_error, m_running, packets, frames, framesClosed, held, kept,
                   skipped, dropped, lost>>

\* Fault: the processor is not flushed at the end.
ForgetsProcessor(x) ==
    /\ Drained(x) /\ flushing[x] = "end"
    /\ Flushing(x, "processor") /\ At(x, "closing")
    /\ UNCHANGED <<stop, m_error, m_running, packets, frames, framesClosed, held, kept,
                   skipped, dropped, lost>>

\* m_video_processor->Flush(sink), unless there was a stop.
ProcessorFlushes(x) ==
    /\ Drained(x) /\ flushing[x] = "end"
    /\ Flushing(x, "processor")
    /\ At(x, IF stop \/ kept[x] = <<>> THEN "closing" ELSE "push")
    /\ UNCHANGED <<stop, m_error, m_running, packets, frames, framesClosed, held, kept,
                   skipped, dropped, lost>>

\* The sink: after a flush the processor goes on until it is empty or the push
\* fails; otherwise the decoder looks at the token.
AfterPush(x, pushed) ==
    IF flushing[x] = "processor"
    THEN IF pushed /\ Len(kept[x]) > 1 THEN "push" ELSE "closing"
    ELSE IF stop THEN "closing" ELSE "drain"

\* Fault: the sink does not wait for room.
PushesUnbounded(x) ==
    /\ decoder[x] = "push"
    /\ kept' = [kept EXCEPT ![x] = Tail(@)]
    /\ frames' = [frames EXCEPT ![x] = Append(@, Head(kept[x]))]
    /\ At(x, AfterPush(x, TRUE))
    /\ UNCHANGED <<stop, m_error, m_running, packets, framesClosed, held, flushing, skipped,
                   dropped, lost>>

PushFrame(x) ==
    /\ decoder[x] = "push"
    /\ kept' = [kept EXCEPT ![x] = Tail(@)]
    /\ \/ /\ Len(frames[x]) < FrameCapacity
          /\ frames' = [frames EXCEPT ![x] = Append(@, Head(kept[x]))]
          /\ At(x, AfterPush(x, TRUE))
       \/ /\ Len(frames[x]) = FrameCapacity /\ stop
          /\ At(x, AfterPush(x, FALSE))
          /\ UNCHANGED frames
    /\ UNCHANGED <<stop, m_error, m_running, packets, framesClosed, held, flushing, skipped,
                   dropped, lost>>

\* Send, Receive, Process and Flush throw, and Close is skipped.
DecoderThrows(x) ==
    /\ x \in MayFail
    /\ decoder[x] = "drain"
    /\ Fail(x) /\ At(x, "ending")
    /\ UNCHANGED <<m_running, packets, frames, framesClosed, held, kept, flushing, skipped,
                   dropped, lost>>

CloseFrames(x) ==
    /\ decoder[x] = "closing"
    /\ framesClosed' = [framesClosed EXCEPT ![x] = TRUE]
    /\ At(x, "ending")
    /\ UNCHANGED <<stop, m_error, m_running, packets, frames, held, kept, flushing, skipped,
                   dropped, lost>>

DecoderEnds(x) ==
    /\ decoder[x] = "ending"
    /\ At(x, "gone") /\ Leaves
    /\ UNCHANGED <<stop, m_error, packets, frames, framesClosed, held, kept, flushing, skipped,
                   dropped, lost>>

DecoderWorks(x) ==
    \/ DecoderPops(x) \/ DecoderFinds(x) \/ DecoderReceives(x) \/ DecoderFails(x)
    \/ DecoderGoesOn(x) \/ ProcessorFlushes(x) \/ PushFrame(x) \/ CloseFrames(x) \/ DecoderEnds(x)

Decode(step) ==
    /\ step
    /\ exit = NotYet
    /\ UNCHANGED <<packetsClosed, demuxVars, presentVars, mainVars>>
-----------------------------------------------------------------------------
\* VideoPresentLoop and AudioPresentLoop

Goes(x, place) == presenter' = [presenter EXCEPT ![x] = place]

PresenterPops(x) ==
    /\ presenter[x] = "pop" /\ frames[x] # <<>>
    /\ frames' = [frames EXCEPT ![x] = Tail(@)]
    /\ inHand' = [inHand EXCEPT ![x] = Head(frames[x])]
    /\ Goes(x, IF x \in started THEN "present" ELSE "start")
    /\ UNCHANGED <<m_running, started, sent, dropped>>

\* Fault: an empty queue is taken for its end.
LeavesWhenEmpty(x) ==
    /\ presenter[x] = "pop" /\ frames[x] = <<>>
    /\ Goes(x, "leaving")
    /\ UNCHANGED <<m_running, frames, inHand, started, sent, dropped>>

PresenterFinds(x) ==
    /\ presenter[x] = "pop" /\ frames[x] = <<>>
    /\ framesClosed[x] \/ stop
    /\ Goes(x, "leaving")
    /\ UNCHANGED <<m_running, frames, inHand, started, sent, dropped>>

\* Fault: the clock has no start timeout, and waits for every stream.
StartsWhenAllReady(x) ==
    /\ presenter[x] = "start"
    /\ stop \/ \A y \in Streams : presenter[y] # "pop" \/ y \in started
    /\ Goes(x, "present")
    /\ started' = started \union {x}
    /\ UNCHANGED <<m_running, frames, inHand, sent, dropped>>

\* WaitForStart returns true: because all have come, or after the timeout.
PresenterStarts(x) ==
    /\ presenter[x] = "start"
    /\ Goes(x, "present")
    /\ started' = started \union {x}
    /\ UNCHANGED <<m_running, frames, inHand, sent, dropped>>

\* A stop: WaitForStart or WaitUntilDue returns false.
PresenterStops(x) ==
    /\ presenter[x] \in {"start", "present"}
    /\ stop
    /\ Goes(x, "leaving")
    /\ inHand' = [inHand EXCEPT ![x] = Nobody]
    /\ UNCHANGED <<m_running, frames, started, sent, dropped>>

\* Fault: any late frame is dropped.
DropsAnyLate(x) ==
    /\ presenter[x] = "present" /\ Sheds(x)
    /\ dropped' = [dropped EXCEPT ![x] = @ \union {inHand[x]}]
    /\ inHand' = [inHand EXCEPT ![x] = Nobody]
    /\ Goes(x, "pop")
    /\ UNCHANGED <<m_running, frames, started, sent>>

\* Late, and a newer frame is ready.
PresenterDrops(x) ==
    /\ presenter[x] = "present" /\ Sheds(x)
    /\ frames[x] # <<>>
    /\ dropped' = [dropped EXCEPT ![x] = @ \union {inHand[x]}]
    /\ inHand' = [inHand EXCEPT ![x] = Nobody]
    /\ Goes(x, "pop")
    /\ UNCHANGED <<m_running, frames, started, sent>>

PresenterSends(x) ==
    /\ presenter[x] = "present"
    /\ sent' = [sent EXCEPT ![x] = Append(@, inHand[x])]
    /\ inHand' = [inHand EXCEPT ![x] = Nobody]
    /\ Goes(x, "pop")
    /\ UNCHANGED <<m_running, frames, started, dropped>>

\* StreamFinished and FlushVideo, then the end of the thread.
PresenterEnds(x) ==
    /\ presenter[x] = "leaving"
    /\ Goes(x, "gone") /\ Leaves
    /\ UNCHANGED <<frames, inHand, started, sent, dropped>>

PresenterWorks(x) ==
    \/ PresenterPops(x) \/ PresenterFinds(x) \/ PresenterStarts(x) \/ PresenterStops(x)
    \/ PresenterSends(x) \/ PresenterEnds(x)

Present(step) ==
    /\ step
    /\ exit = NotYet
    /\ UNCHANGED <<stop, m_error, packets, packetsClosed, framesClosed, demuxVars, decodeVars,
                   lost, mainVars>>
-----------------------------------------------------------------------------
\* main and the signal thread

pipeVars == <<setup, m_error, m_running, packets, packetsClosed, frames, framesClosed, demuxVars,
              decodeVars, presentVars, dropped, lost>>

\* The first signal, and then the stop request it leads to.
Signal ==
    /\ MaySignal /\ ~interrupted
    /\ interrupted' = TRUE
    /\ UNCHANGED <<stop, exit, pipeVars>>

SignalStops ==
    /\ interrupted /\ ~stop
    /\ stop' = TRUE
    /\ UNCHANGED <<exit, interrupted, pipeVars>>

\* The second: std::_Exit, whatever the threads do.
ForceExit ==
    /\ interrupted /\ stop
    /\ exit' = 130
    /\ UNCHANGED <<stop, interrupted, pipeVars>>

\* WaitFor finds m_running = 0, and Wait throws what Fail has kept.
MainReturns ==
    /\ m_running = 0
    /\ exit' = IF m_error # "none" /\ ~interrupted THEN 1 ELSE 0
    /\ UNCHANGED <<stop, interrupted, pipeVars>>

MainStep == exit = NotYet /\ (SignalStops \/ MainReturns)

Exited ==
    /\ exit # NotYet
    /\ UNCHANGED vars

Next ==
    \/ Demux(DemuxWorks) \/ Demux(ReadPacket) \/ Demux(ReadBreaksOff) \/ Demux(ReadThrows)
    \/ \E x \in Streams :
         \/ Decode(DecoderWorks(x)) \/ Decode(DecoderThrows(x))
         \/ Present(PresenterWorks(x)) \/ Present(PresenterDrops(x))
    \/ exit = NotYet /\ (Signal \/ ForceExit)
    \/ MainStep
    \/ Exited

\* The threads are scheduled, WaitForStart and WaitUntilDue return, and a read
\* that has come to its end or is interrupted returns.  Neither packets nor
\* signals nor exceptions have to come.
Fairness ==
    /\ WF_vars(Demux(DemuxWorks))
    /\ \A x \in {"video", "audio"} :
         /\ WF_vars(x \in Streams /\ Decode(DecoderWorks(x)))
         /\ WF_vars(x \in Streams /\ Present(PresenterWorks(x)))
    /\ WF_vars(MainStep)

Safety == Init /\ [][Next]_vars

Spec == Safety /\ Fairness
-----------------------------------------------------------------------------
Numbers == UNION {1..(PassLength[x] * (MaxLoops + 1)) : x \in Streams}

DecoderPlaces == {"pop", "drain", "push", "closing", "ending", "gone"}
DemuxPlaces == {"top", "reading", "atEnd", "push", "closeVideo", "closeAudio", "ending", "gone"}
PresenterPlaces == {"pop", "start", "present", "leaving", "gone"}

Alive ==
    Cardinality({x \in Streams : decoder[x] # "gone"})
    + Cardinality({x \in Streams : presenter[x] # "gone"})
    + (IF demux # "gone" THEN 1 ELSE 0)

\* Types; no queue, decoder or processor holds more than it may; and m_running
\* counts the threads that are still there.
TypeOK ==
    /\ stop \in BOOLEAN
    /\ m_error \in {"none", "demux"} \union Streams
    /\ m_running = Alive
    /\ m_loops \in 0..MaxLoops
    /\ packets \in [Streams -> Seq(Numbers \union {Marker})]
    /\ {frames, held, kept, sent} \subseteq [Streams -> Seq(Numbers)]
    /\ \A x \in Streams :
         /\ Len(packets[x]) <= PacketCapacity /\ Len(frames[x]) <= FrameCapacity
         /\ Len(held[x]) <= DecoderDelay + 1 /\ Len(kept[x]) <= ProcessorDelay + 1
    /\ packetsClosed \in [Streams -> BOOLEAN]
    /\ framesClosed \in [Streams -> BOOLEAN]
    /\ demux \in DemuxPlaces
    /\ toPush \in Seq([stream : Streams, item : Numbers \union {Marker}])
    /\ read \in [Streams -> Numbers \union {0}]
    /\ decoder \in [Streams -> DecoderPlaces]
    /\ flushing \in [Streams -> {"no", "loop", "end", "processor"}]
    /\ presenter \in [Streams -> PresenterPlaces]
    /\ inHand \in [Streams -> Numbers \union {Nobody}]
    /\ started \subseteq Streams
    /\ dropped \in [Streams -> SUBSET Numbers]
    /\ skipped \in [Streams -> SUBSET Numbers]
    /\ lost \in [Streams -> SUBSET Numbers]
    /\ interrupted \in BOOLEAN
    /\ exit \in {NotYet, 0, 1, 130}

\* What the demuxer is about to push to stream x: one item at most.
Pushing(x) ==
    LET mine == {n \in DOMAIN toPush : toPush[n].stream = x}
    IN  IF mine = {} THEN <<>> ELSE <<toPush[CHOOSE n \in mine : TRUE].item>>

InHand(x) == IF inHand[x] = Nobody THEN <<>> ELSE <<inHand[x]>>

\* What is on the way of stream x, from the network back to the demuxer.
OnTheWay(x) ==
    sent[x] \o InHand(x) \o frames[x] \o kept[x] \o held[x] \o packets[x] \o Pushing(x)

\* A number comes after smaller ones, whatever markers there are.
Rising(s) == \A m, n \in DOMAIN s : m < n /\ s[n] # Marker => s[m] < s[n]

\* What may leave the way of stream x before its end: what is counted as shed, and on
\* a damaged input what is given up.
OffTheWay(x) == dropped[x] \union skipped[x] \union (IF MayLose THEN lost[x] ELSE {})

\* Frames leave in the order in which their packets were read, none twice.  Until a
\* stop, a packet that is not on its way was counted as shed or, on a damaged input,
\* given up by the read, the decoder or a filter ("Corrupt packets are skipped",
\* CHANGELOG.md): no thread loses one in handing it over, in a full queue, at a marker
\* or in the drain of a sound decoder.
Conveyor ==
    \A x \in Streams :
        /\ Rising(OnTheWay(x))
        /\ ~stop => 1..read[x] = Items(OnTheWay(x)) \union OffTheWay(x)

\* A decoder never holds frames of two passes: the marker is between the two in
\* its queue, and makes it drain and reset first.
PassesDoNotMix ==
    \A x \in Streams : \A m, n \in DOMAIN held[x] :
        (held[x][m] - 1) \div PassLength[x] = (held[x][n] - 1) \div PassLength[x]

\* Whatever is dropped, the last picture of an input that ended is shown, unless its
\* packet was skipped or given up: dropping needs a newer frame behind it.
LastPictureShown ==
    \A x \in Streams :
        (presenter[x] = "gone" /\ ~stop /\ read[x] \notin skipped[x] \union lost[x] \union {0}) =>
            sent[x] # <<>> /\ Last(sent[x]) = read[x]

\* A clean exit that nobody asked for means that nothing is left inside: everything up
\* to the end of the last pass was sent, counted as shed or, on a damaged input, given
\* up by the read, the decoder or a filter, which an exit status of 0 does not rule out.
CleanExitIsComplete ==
    (exit = 0 /\ ~interrupted) =>
        \A x \in Streams :
            /\ Exhausted(x)
            /\ 1..read[x] = Items(sent[x]) \union OffTheWay(x)

\* Where a thread waits for another one: for room or for an item.
DemuxWaits(x) ==
    demux = "push" /\ toPush[1].stream = x /\ Len(packets[x]) = PacketCapacity /\ ~stop
WaitsForPacket(x) ==
    decoder[x] = "pop" /\ packets[x] = <<>> /\ ~packetsClosed[x] /\ ~stop
WaitsForRoom(x) ==
    decoder[x] = "push" /\ Len(frames[x]) = FrameCapacity /\ ~stop
PresenterWaits(x) ==
    presenter[x] = "pop" /\ frames[x] = <<>> /\ ~framesClosed[x] /\ ~stop

\* A thread that can go on by itself.
SomebodyWorks ==
    \/ demux # "gone" /\ \A x \in Streams : ~DemuxWaits(x)
    \/ \E x \in Streams :
         \/ decoder[x] # "gone" /\ ~WaitsForPacket(x) /\ ~WaitsForRoom(x)
         \/ presenter[x] # "gone" /\ ~PresenterWaits(x)

\* Whoever waits for another thread waits for one that has not left its loop, also
\* where an exception skipped a Close, and they never all wait for each other, however
\* small the queues and however far one stream is ahead of the other.
NobodyIsAbandoned ==
    /\ \A x \in Streams :
         /\ DemuxWaits(x) => decoder[x] \notin {"closing", "ending", "gone"}
         /\ WaitsForPacket(x) => demux \notin {"ending", "gone"}
         /\ WaitsForRoom(x) => presenter[x] \notin {"leaving", "gone"}
         /\ PresenterWaits(x) => decoder[x] \notin {"ending", "gone"}
    /\ m_running > 0 => SomebodyWorks

\* Once the input has ended or a stop was requested, the process exits: no thread
\* is left in a push, a pop or a wait, also when an exception skipped a Close.
Terminates ==
    (stop \/ demux = "closeVideo") ~> (exit # NotYet)

\* The demuxer is never stuck in a push: a full queue of one stream is emptied
\* although the other stream, which may have to come first, is behind it.
DemuxerGetsThrough == (demux = "push") ~> (demux # "push" \/ exit # NotYet)
=============================================================================
