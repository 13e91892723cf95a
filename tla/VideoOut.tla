------------------------------- MODULE VideoOut -------------------------------
(***************************************************************************)
(* The way of a picture from the video decoder to NDI, and the memory it    *)
(* lies in: VideoProcessor (src/av/video_processor.cpp) on the decoder's    *)
(* thread, the queue of frames, and Sender::SendVideo (src/ndi/sender.cpp)  *)
(* on the presenter's, while NDI reads the last picture on a thread of its  *)
(* own.                                                                    *)
(*                                                                         *)
(* Memory is a set of cells, each big enough for one picture of the size it *)
(* was allocated for.  A cell is in use while an AVFrame of the program     *)
(* refers to it; NDI's reading does not keep it.  Timestamps, pacing and    *)
(* failing calls of FFmpeg are other modules' (Presentation, Pipeline).     *)
(***************************************************************************)
EXTENDS PixelLayout, FiniteSets

CONSTANTS
    Cells,          \* memory for pictures, numbered
    QueueCapacity,  \* kVideoFrameQueue
    HdHeight,       \* 720: from here on a picture is taken for BT.709
    Scenarios       \* inputs considered, each with the options it is played with

\* What the decoder hands out.  hw: the surfaces the frame lies in, or "none"; pixels:
\* what a download yields that is free to choose, which the device decides and need not
\* be the surfaces' own format; packed: its planes already sit where NDI expects them.
Kind == {k \in [w : Nat \ {0}, h : Nat \ {0}, format : STRING, pixels : STRING, full : BOOLEAN,
                matrix : STRING, hw : STRING, packed : BOOLEAN] :
            k.hw = "none" => k.pixels = k.format}

\* filter: "none", or a graph for frames in "system" or in "gpu" memory, which
\* keeps `delay` frames back; output: --pixel-format.
Scenario == [frames : Seq(Kind), filter : {"none", "system", "gpu"}, delay : Nat,
             output : OutputPixelFormat]

ASSUME VideoOutAssumption ==
    /\ Cells \subseteq Nat /\ IsFiniteSet(Cells)
    /\ QueueCapacity \in Nat \ {0}
    /\ Scenarios \subseteq Scenario

VARIABLES
    scenario,
    next,                \* frames decoded
    stop,
    place,               \* where VideoDecodeLoop is
    hand,                \* the frame of Process, if any (a sequence of at most one)
    m_graph,             \* the filter graph
    fetched,             \* the frame of Emit, if any
    out,                 \* the picture in the sink's Push, if any
    m_sws, m_sws_key,    \* what the conversion context was made for, and its key
    m_pool, m_pool_size, \* cells the pool hands out again, and their size
    room, memory,        \* of each cell: its size, and what it holds
    queue, closed,       \* m_video_frames
    presenter, shown,    \* where VideoPresentLoop is, and its frame
    m_in_flight,         \* Sender's
    reading,             \* pictures NDI may be reading
    pushed               \* history: numbers of the frames accepted by the queue

decoding == <<next, place, hand, m_graph, fetched, out, pushed>>
making == <<m_sws, m_sws_key, m_pool, m_pool_size, room, memory>>
sending == <<presenter, shown, m_in_flight, reading>>
vars == <<scenario, stop, decoding, making, queue, closed, sending>>

NoGraph == [made |-> FALSE, input |-> <<>>, held |-> <<>>]
NoKey == <<>>
AsIs == <<>>

Init ==
    /\ scenario \in Scenarios
    /\ next = 0 /\ stop = FALSE /\ place = "decode"
    /\ hand = <<>> /\ fetched = <<>> /\ out = <<>> /\ pushed = <<>>
    /\ m_graph = NoGraph
    /\ m_sws = NoKey /\ m_sws_key = NoKey
    /\ m_pool = {} /\ m_pool_size = 0
    /\ room = [c \in Cells |-> 0] /\ memory = [c \in Cells |-> <<>>]
    /\ queue = <<>> /\ closed = FALSE
    /\ presenter = "pop" /\ shown = <<>> /\ m_in_flight = <<>> /\ reading = {}

-----------------------------------------------------------------------------
\* Memory

CellsOf(frames) == {frames[i].cell : i \in DOMAIN frames}

InUse == UNION {CellsOf(s) : s \in {hand, m_graph.held, fetched, out, queue, shown, m_in_flight}}

\* Memory that neither the program refers to nor the pool keeps for itself.
Unused == Cells \ (InUse \union m_pool)

\* Unused cells differ in nothing but their names: the lowest stands for any.
Any(c, S) == c \in S /\ \A d \in S : c <= d

Holds(c, contents) == memory' = [memory EXCEPT ![c] = contents]

Size(format, w, h) == IF HasFourCC(format) THEN ContiguousLayout(format, w, h).size ELSE 0

\* Memory the decoder or the driver allocates is what the frame needs.
GetsOwn(c, format, w, h, contents) ==
    /\ Any(c, Unused)
    /\ room' = [room EXCEPT ![c] = Size(format, w, h)]
    /\ Holds(c, contents)
    /\ UNCHANGED <<m_pool, m_pool_size>>

\* The pool in force: a new one when the size is another.  Cells of the old one
\* that are in use are freed when they are returned.
PoolFor(size) == IF m_pool_size = size THEN m_pool ELSE {}

\* av_buffer_pool_get: a returned cell of the pool, or else a new one.
Allocates(c, format, w, h, contents) ==
    LET size == Size(format, w, h)
        pool == PoolFor(size)
        returned == pool \ InUse
    IN  /\ IF returned # {}
           THEN Any(c, returned) /\ UNCHANGED room
           ELSE Any(c, Cells \ (InUse \union pool)) /\ room' = [room EXCEPT ![c] = size]
        /\ m_pool' = pool \union {c}
        /\ m_pool_size' = size
        /\ Holds(c, contents)
-----------------------------------------------------------------------------
\* Download: the frame lies in system memory afterwards: straight in the buffer that
\* will be sent, laid out for NDI, when the surfaces have the format that is wanted, and
\* else in the format the device prefers.
Downloaded(f, c, direct) ==
    [f EXCEPT !.hw = "none", !.cell = c, !.packed = direct,
              !.pixels = IF direct THEN f.format ELSE f.pixels]

\* For a filter what was downloaded is the source, in whatever format and layout.
FilterSource(f, c) == [Downloaded(f, c, FALSE) EXCEPT !.format = f.pixels]

DownloadsTo(c, f, direct) ==
    IF direct
    THEN Allocates(c, f.format, f.w, f.h, <<f.n, AsIs>>)
    ELSE GetsOwn(c, f.pixels, f.w, f.h, <<f.n, AsIs>>)

\* Emit names it for the format the frame had before it was downloaded.
Target(f) == TargetFormat(scenario.output, f.format, f.full)

\* SwsColorspace.
Matrix(f) == IF f.matrix = "unspecified"
             THEN IF f.h >= HdHeight THEN "bt709" ELSE "bt601"
             ELSE f.matrix

SwsKey(f, target) == [w |-> f.w, h |-> f.h, source |-> f.pixels, target |-> target,
                      matrix |-> Matrix(f),
                      full |-> IsFullRange([format |-> f.pixels, full |-> f.full])]

\* Fault: a change of range alone goes unnoticed.
FitsButRange(key) == m_sws # NoKey /\ key = [m_sws_key EXCEPT !.full = key.full]
ContextFits(key) == m_sws # NoKey /\ key = m_sws_key

\* sws_getContext and sws_setColorspaceDetails, when the key has changed.
PreparesContext(key) ==
    IF ContextFits(key)
    THEN UNCHANGED <<m_sws, m_sws_key>>
    ELSE m_sws' = key /\ m_sws_key' = key

Picture(f, c) == [n |-> f.n, cell |-> c, format |-> Target(f), w |-> f.w, h |-> f.h]

\* Convert, for a frame in system memory.  A single plane needs no repacking.
Contiguous(f) == f.packed \/ f.pixels \notin {"nv12", "i420"}

PassesOn(f) ==
    /\ f.pixels = Target(f) /\ Contiguous(f)
    /\ out' = <<Picture(f, f.cell)>>
    /\ UNCHANGED making

Repacks(f) ==
    /\ f.pixels = Target(f) /\ ~Contiguous(f)
    /\ \E c \in Cells : /\ Allocates(c, Target(f), f.w, f.h, memory[f.cell])
                        /\ out' = <<Picture(f, c)>>
    /\ UNCHANGED <<m_sws, m_sws_key>>

Converts(f) ==
    /\ f.pixels # Target(f)
    /\ PreparesContext(SwsKey(f, Target(f)))
    /\ \E c \in Cells : /\ Allocates(c, Target(f), f.w, f.h, <<memory[f.cell][1], m_sws'>>)
                        /\ out' = <<Picture(f, c)>>
-----------------------------------------------------------------------------
\* Process and Flush, on the decoder's thread

FilterInput(f) == [w |-> f.w, h |-> f.h, format |-> f.format, hw |-> f.hw]

\* What the sink of the graph has ready: all of it once the end was fed.
Ready ==
    LET held == m_graph.held
    IN  IF place \in {"flushOld", "flushEnd"} THEN held
        ELSE IF place = "drain" THEN SubSeq(held, 1, Len(held) - scenario.delay) ELSE <<>>

Draining == place \in {"drain", "flushOld", "flushEnd"}

\* Where a drain leads, once it has nothing left or its sink has refused a picture.
AfterDrain ==
    CASE place = "drain" -> IF stop THEN "close" ELSE "decode"
      [] place = "flushOld" -> "build"
      [] place = "flushEnd" -> "close"

Frame(kind, n, c) ==
    [n |-> n, cell |-> c, w |-> kind.w, h |-> kind.h, format |-> kind.format,
     pixels |-> kind.pixels, full |-> kind.full, matrix |-> kind.matrix, hw |-> kind.hw, packed |-> kind.packed]

\* The decoder returns its next frame.
Decodes ==
    /\ place = "decode"
    /\ next < Len(scenario.frames)
    /\ \E c \in Cells :
         LET kind == scenario.frames[next + 1]
         IN  /\ hand' = <<Frame(kind, next + 1, c)>>
             /\ GetsOwn(c, kind.format, kind.w, kind.h, <<next + 1, AsIs>>)
    /\ next' = next + 1
    /\ place' = "process"
    /\ UNCHANGED <<m_graph, fetched, out, pushed, m_sws, m_sws_key, queue, closed>>

ProcessesUnfiltered ==
    /\ place = "process" /\ scenario.filter = "none"
    /\ fetched' = hand /\ hand' = <<>>
    /\ place' = "drain"
    /\ UNCHANGED <<next, m_graph, out, pushed, making, queue, closed>>

\* A graph for system memory gets the frame downloaded.
DownloadsForFilter ==
    /\ place = "process" /\ scenario.filter = "system" /\ hand[1].hw # "none"
    /\ \E c \in Cells : /\ DownloadsTo(c, hand[1], FALSE)
                        /\ hand' = <<FilterSource(hand[1], c)>>
    /\ UNCHANGED <<next, place, m_graph, fetched, out, pushed, m_sws, m_sws_key, queue, closed>>

\* Fault: the old graph is not flushed before it is replaced.
BuildsAtOnce(f) ==
    place' = IF m_graph.made /\ m_graph.input = FilterInput(f) THEN "feed" ELSE "build"

ChoosesGraph(f) ==
    place' = IF m_graph.made /\ m_graph.input = FilterInput(f) THEN "feed"
             ELSE IF m_graph.made THEN "flushOld" ELSE "build"

ProcessesFiltered ==
    /\ place = "process" /\ scenario.filter # "none"
    /\ scenario.filter = "system" => hand[1].hw = "none"
    /\ ChoosesGraph(hand[1])
    /\ UNCHANGED <<next, hand, m_graph, fetched, out, pushed, making, queue, closed>>

BuildsFilter ==
    /\ place = "build"
    /\ m_graph' = [made |-> TRUE, input |-> FilterInput(hand[1]), held |-> <<>>]
    /\ place' = "feed"
    /\ UNCHANGED <<next, hand, fetched, out, pushed, making, queue, closed>>

FeedsFilter ==
    /\ place = "feed"
    /\ m_graph' = [m_graph EXCEPT !.held = @ \o hand]
    /\ hand' = <<>>
    /\ place' = "drain"
    /\ UNCHANGED <<next, fetched, out, pushed, making, queue, closed>>

\* av_buffersink_get_frame.
Fetches ==
    /\ Draining /\ fetched = <<>> /\ out = <<>> /\ Ready # <<>>
    /\ fetched' = <<Head(m_graph.held)>>
    /\ m_graph' = [m_graph EXCEPT !.held = Tail(@)]
    /\ UNCHANGED <<next, place, hand, out, pushed, making, queue, closed>>

Drained ==
    /\ Draining /\ fetched = <<>> /\ out = <<>> /\ Ready = <<>>
    /\ place' = AfterDrain
    /\ UNCHANGED <<next, hand, m_graph, fetched, out, pushed, making, queue, closed>>

\* Emit: Convert downloads first if it has to; then the sink.
EmitDownloads ==
    /\ fetched # <<>> /\ fetched[1].hw # "none"
    /\ LET f == fetched[1]
           direct == f.format = Target(f)
       IN  \E c \in Cells : /\ DownloadsTo(c, f, direct)
                            /\ fetched' = <<Downloaded(f, c, direct)>>
    /\ UNCHANGED <<next, place, hand, m_graph, out, pushed, m_sws, m_sws_key, queue, closed>>

EmitConverts ==
    /\ fetched # <<>> /\ fetched[1].hw = "none"
    /\ LET f == fetched[1] IN PassesOn(f) \/ Repacks(f) \/ Converts(f)
    /\ fetched' = <<>>
    /\ UNCHANGED <<next, place, hand, m_graph, pushed, queue, closed>>

SinkStores ==
    /\ out # <<>> /\ Len(queue) < QueueCapacity
    /\ queue' = queue \o out /\ out' = <<>>
    /\ pushed' = Append(pushed, out[1].n)
    /\ UNCHANGED <<next, place, hand, m_graph, fetched, making, closed>>

\* Push gives up on a stop, and what called Emit goes on to its end.
SinkRefuses ==
    /\ out # <<>> /\ Len(queue) >= QueueCapacity /\ stop
    /\ out' = <<>>
    /\ place' = AfterDrain
    /\ UNCHANGED <<next, hand, m_graph, fetched, pushed, making, queue, closed>>

\* The packets have run out, or the stop ends Decode, which is not flushed then.
DecodingEnds ==
    /\ place = "decode"
    /\ stop \/ next = Len(scenario.frames)
    /\ place' = IF stop \/ ~m_graph.made THEN "close" ELSE "flushEnd"
    /\ UNCHANGED <<next, hand, m_graph, fetched, out, pushed, making, queue, closed>>

Closes ==
    /\ place = "close"
    /\ closed' = TRUE /\ place' = "done"
    /\ UNCHANGED <<next, hand, m_graph, fetched, out, pushed, making, queue>>

Decoder ==
    /\ \/ Decodes
       \/ ProcessesUnfiltered \/ DownloadsForFilter \/ ProcessesFiltered
       \/ BuildsFilter \/ FeedsFilter \/ Fetches \/ Drained
       \/ EmitDownloads \/ EmitConverts \/ SinkStores \/ SinkRefuses
       \/ DecodingEnds \/ Closes
    /\ UNCHANGED <<scenario, stop, sending>>
-----------------------------------------------------------------------------
\* VideoPresentLoop and Sender

PopsPicture ==
    /\ presenter = "pop" /\ queue # <<>>
    /\ shown' = <<Head(queue)>> /\ queue' = Tail(queue)
    /\ presenter' = "hold"
    /\ UNCHANGED <<m_in_flight, reading>>

PopsNothing ==
    /\ presenter = "pop" /\ queue = <<>> /\ (closed \/ stop)
    /\ presenter' = "flush"
    /\ UNCHANGED <<queue, shown, m_in_flight, reading>>

\* A late picture, dropped for a newer one that is ready.
DropsPicture ==
    /\ presenter = "hold" /\ queue # <<>>
    /\ shown' = <<>> /\ presenter' = "pop"
    /\ UNCHANGED <<queue, m_in_flight, reading>>

\* The wait for its time ends with the stop.
StopsWaiting ==
    /\ presenter = "hold" /\ stop
    /\ shown' = <<>> /\ presenter' = "flush"
    /\ UNCHANGED <<queue, m_in_flight, reading>>

\* Fault: the picture moves into m_in_flight before the call.
SendsMoved ==
    /\ presenter = "hold"
    /\ presenter' = "sending"
    /\ reading' = reading \union {shown[1]}
    /\ m_in_flight' = shown
    /\ UNCHANGED <<queue, shown>>

\* send_video_async_v2 takes the new picture while NDI still reads the previous,
SendVideo ==
    /\ presenter = "hold"
    /\ presenter' = "sending"
    /\ reading' = reading \union {shown[1]}
    /\ UNCHANGED <<queue, shown, m_in_flight>>

\* and returns once NDI is done with that; then it is released.
SendVideoReturns ==
    /\ presenter = "sending" /\ reading = {shown[1]}
    /\ m_in_flight' = shown /\ shown' = <<>>
    /\ presenter' = "pop"
    /\ UNCHANGED <<queue, reading>>

FlushVideo ==
    /\ presenter = "flush"
    /\ presenter' = IF m_in_flight = <<>> THEN "gone" ELSE "flushing"
    /\ UNCHANGED <<queue, shown, m_in_flight, reading>>

FlushVideoReturns ==
    /\ presenter = "flushing" /\ reading = {}
    /\ m_in_flight' = <<>>
    /\ presenter' = "gone"
    /\ UNCHANGED <<queue, shown, reading>>

Presenter ==
    /\ \/ PopsPicture \/ PopsNothing \/ DropsPicture \/ StopsWaiting
       \/ SendVideo \/ SendVideoReturns \/ FlushVideo \/ FlushVideoReturns
    /\ UNCHANGED <<scenario, stop, decoding, making, closed>>

\* NDI may read a picture until the next call on the instance is under way.
NdiIsDone ==
    /\ presenter \in {"sending", "flushing"}
    /\ \E p \in reading : /\ presenter = "sending" => p # shown[1]
                          /\ reading' = reading \ {p}
    /\ UNCHANGED <<scenario, stop, decoding, making, queue, closed, presenter, shown, m_in_flight>>

RequestStop ==
    /\ ~stop
    /\ stop' = TRUE
    /\ UNCHANGED <<scenario, decoding, making, queue, closed, sending>>

Done == place = "done" /\ presenter = "gone" /\ UNCHANGED vars

Next == Decoder \/ Presenter \/ NdiIsDone \/ RequestStop \/ Done

Spec == Init /\ [][Next]_vars
-----------------------------------------------------------------------------
Fits(p) == Size(p.format, p.w, p.h) <= room[p.cell]

\* As long as NDI may read a picture, its memory is kept, is big enough, and still
\* holds that picture: neither the pool nor the decoder has been given it again.
NdiReadsItsPicture ==
    \A p \in reading : p.cell \in InUse /\ Fits(p) /\ memory[p.cell][1] = p.n

Pictures == {out[i] : i \in DOMAIN out} \union {queue[i] : i \in DOMAIN queue} \union reading

\* Each picture was made from its own frame: as it was, if it came in the format that is
\* sent, or else by a context made for that frame's size, format, matrix and range; the
\* context outlives the frames it was made for, and so do the buffers.
MadeForItsFrame ==
    \A p \in Pictures :
        LET f == scenario.frames[p.n]
            made == memory[p.cell][2]
        IN  /\ memory[p.cell][1] = p.n
            /\ Fits(p)
            /\ \/ made = AsIs /\ p.format \in {f.format, f.pixels}
               \/ made = SwsKey(f, p.format) /\ p.format # f.pixels

Numbers(frames) == [i \in DOMAIN frames |-> frames[i].n]

\* Without a stop every frame is pushed, in order, or on its way, and none stays
\* behind in a filter graph that is replaced or comes to its end.
FilterLosesNothing ==
    ~stop =>
        /\ pushed \o Numbers(out) \o Numbers(fetched) \o Numbers(m_graph.held) \o Numbers(hand)
               = [i \in 1..next |-> i]
        /\ place = "done" => Len(pushed) = Len(scenario.frames)

\* video_processor.cpp:217, "NDI assumes limited-range YUV, so full-range sources
\* are converted": no picture of a full-range YUV frame is sent as it is.
FullRangeIsConverted ==
    \A p \in Pictures :
        LET f == scenario.frames[p.n]
        IN  (IsFullRange(f) /\ ~IsRgb(f.format)) => memory[p.cell][2] # AsIs
=============================================================================
