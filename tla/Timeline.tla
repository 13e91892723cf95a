-------------------------------- MODULE Timeline --------------------------------
(***************************************************************************)
(* One timeline out of an input that is played again and again: MediaInput  *)
(* (src/av/input.cpp) shifts the packets of each pass behind the previous   *)
(* one, and AudioProcessor (src/av/audio_processor.cpp) turns what the      *)
(* decoder makes of the audio packets into blocks that follow each other.   *)
(*                                                                         *)
(* The queue between them only keeps the order (Pipeline!Conveyor), so a    *)
(* packet is decoded before the next one is read.  A second has Micros      *)
(* units, and each stream counts in ticks of its own; every conversion      *)
(* rounds as av_rescale does.                                              *)
(***************************************************************************)
EXTENDS Integers, Sequences

CONSTANTS
    Micros,          \* 1000000: microseconds in a second
    TicksPerSecond,  \* of each stream's time base
    DefaultDuration, \* ticks of a packet of each stream that does not say
    Files,           \* inputs: what a pass over each may deliver, sequences of packets
    OutRates,        \* --sample-rate: 0 keeps the input's
    KeptBack,        \* input samples the resampler holds back
    kOverlapToleranceUs, kMaxOverlapTrimUs,
    MaxPasses        \* bound: passes over the input

Streams == {"video", "audio"}
NoTime == -1000000000   \* AV_NOPTS_VALUE, INT64_MIN
Never == 1000000000     \* INT64_MAX

\* pts and duration are in ticks; discard is AV_PKT_FLAG_DISCARD; skip and trim are
\* the samples the decoder removes at either end; planar: planar floats with as many
\* channels as are wanted.
Packet == [stream : Streams, pts : Int, duration : Nat, discard : BOOLEAN,
           samples : Nat, skip : Nat, trim : Nat, rate : Nat \ {0}, planar : BOOLEAN]

ASSUME TimelineAssumption ==
    /\ Micros \in Nat \ {0}
    /\ TicksPerSecond \in [Streams -> Nat \ {0}]
    /\ DefaultDuration \in [Streams -> Nat]
    /\ \A f \in Files : f \subseteq Seq(Packet)
    /\ OutRates \subseteq Nat /\ KeptBack \in Nat
    /\ kOverlapToleranceUs \in Nat /\ kMaxOverlapTrimUs \in Nat
    /\ MaxPasses \in Nat

VARIABLES
    stop, place,
    file,                   \* the input at hand
    pass, passes,           \* what is left of this pass; passes begun
    offset,                 \* Track::offset of each stream
    m_first_pass, m_pass_start_us, m_pass_end_us, m_offset_us,
    arrived,                \* the audio packet on its way to the processor, if any
    config_rate,            \* AudioProcessorConfig::sample_rate
    m_in,                   \* m_configured, m_in_rate, m_in_format
    m_out_rate, m_passthrough,
    inside,                 \* input samples in the resampler
    part,                   \* what it has begun of an output sample, in 1/m_in.rate
    m_next_in_us, m_held,
    before, reached, shown, \* history: where the previous pass and this one end, and
                            \* where the packet read last was put
    given, cut,             \* history: blocks the sink took; samples Emit trimmed
    broken,                 \* history: places in `given` behind which there was a flush,
                            \* or a block that was trimmed to nothing
    fed,                    \* history: input samples taken since the last flush,
    due                     \* and output samples that were owed for those before it

input == <<file, pass, passes, offset, m_first_pass, m_pass_start_us, m_pass_end_us, m_offset_us,
           before, reached, shown>>
audio == <<m_in, m_out_rate, m_passthrough, inside, part, m_next_in_us, m_held, given, cut,
           broken, fed, due>>
vars == <<stop, place, input, arrived, config_rate, audio>>

Init ==
    /\ stop = FALSE /\ place = "read"
    /\ file \in Files /\ pass \in file /\ passes = 1
    /\ offset = [x \in Streams |-> 0]
    /\ m_first_pass = TRUE /\ m_pass_start_us = Never /\ m_pass_end_us = NoTime
    /\ m_offset_us = 0
    /\ arrived = <<>>
    /\ config_rate \in OutRates
    /\ m_in = <<>> /\ m_out_rate = 0 /\ m_passthrough = FALSE
    /\ inside = 0 /\ part = 0 /\ m_next_in_us = 0 /\ m_held = <<>>
    /\ before = 0 /\ reached = NoTime /\ shown = <<>>
    /\ given = <<>> /\ cut = 0 /\ broken = {} /\ fed = 0 /\ due = 0

-----------------------------------------------------------------------------
\* av_rescale: a * b / c, to the nearest, halves away from zero.
Rescale(a, b, c) ==
    IF a >= 0 THEN (a * b + c \div 2) \div c ELSE -((-a * b + c \div 2) \div c)

ToMicros(ticks, x) == Rescale(ticks, Micros, TicksPerSecond[x])
FromMicros(us, x) == Rescale(us, TicksPerSecond[x], Micros)

Earlier(a, b) == IF a < b THEN a ELSE b
Later(a, b) == IF a < b THEN b ELSE a

\* How far rounding to ticks moves an instant, at most.
HalfTick(x) == Micros \div (2 * TicksPerSecond[x]) + 1
MostRounding == Later(HalfTick("video"), HalfTick("audio"))
-----------------------------------------------------------------------------
\* MediaInput

\* What of a packet is presented, in ticks.
Start(p) == p.pts + Rescale(p.skip, TicksPerSecond[p.stream], p.rate)
End(p) == p.pts + (IF p.duration > 0 THEN p.duration ELSE DefaultDuration[p.stream])
                - Rescale(p.trim, TicksPerSecond[p.stream], p.rate)
IsPresented(p) == p.pts # NoTime /\ ~p.discard /\ End(p) > Start(p)
From(p) == ToMicros(Start(p), p.stream)
Until(p) == ToMicros(End(p), p.stream)

Presented(packets) == {p \in {packets[i] : i \in DOMAIN packets} : IsPresented(p)}

\* The passes over one input begin at the same instant, for it is played from its
\* beginning each time, and no instant of it is near the values that mean none.
ASSUME PassesAssumption ==
    \A f \in Files : \A a, b \in f : \A p \in Presented(a) :
        /\ From(p) < Never /\ Until(p) > NoTime + MostRounding
        /\ Presented(b) # {} => \E q \in Presented(b) : From(q) <= From(p)

\* The tolerance covers what rounding to samples costs.  A millisecond does so for every
\* rate above 500 Hz, and those asked for are 8000 Hz at least (options.cpp:204).
CoversRounding(rate) == Micros + rate <= 2 * rate * kOverlapToleranceUs

ASSUME ToleranceAssumption ==
    /\ \A rate \in OutRates \ {0} : CoversRounding(rate)
    /\ \A f \in Files : \A packets \in f : \A i \in DOMAIN packets :
           packets[i].stream = "audio" => CoversRounding(packets[i].rate)

\* The first half of Account: how far the pass reaches.
Measure(p) ==
    IF IsPresented(p)
    THEN /\ m_pass_start_us' = IF m_first_pass
                               THEN Earlier(m_pass_start_us, From(p))
                               ELSE m_pass_start_us
         /\ m_pass_end_us' = Later(m_pass_end_us, Until(p))
    ELSE UNCHANGED <<m_pass_start_us, m_pass_end_us>>

\* The second: where the packet is put.
Shifted(p) == IF p.pts = NoTime THEN p ELSE [p EXCEPT !.pts = @ + offset[p.stream]]

\* av_read_frame returns a packet of a selected stream.
Reads ==
    /\ place = "read" /\ ~stop /\ arrived = <<>> /\ pass # <<>>
    /\ LET p == Head(pass)
           out == Shifted(p)
       IN  /\ Measure(p)
           /\ shown' = IF IsPresented(p) THEN <<out>> ELSE <<>>
           /\ reached' = IF IsPresented(p) THEN Later(reached, Until(out))
                         ELSE reached
           /\ arrived' = IF p.stream = "audio" THEN <<out>> ELSE <<>>
    /\ pass' = Tail(pass)
    /\ UNCHANGED <<stop, place, file, passes, offset, m_first_pass, m_offset_us, before,
                   config_rate, audio>>

HasTimeline ==
    ~(m_pass_end_us = NoTime \/ m_pass_start_us = Never \/ m_pass_end_us <= m_pass_start_us)

\* Fault: the shift of each track is added up in its own ticks.
AddsUpTicks ==
    offset' = [x \in Streams |-> offset[x] + FromMicros(m_pass_end_us - m_pass_start_us, x)]

\* The whole shift is converted anew for each track.
ShiftsTracks == offset' = [x \in Streams |-> FromMicros(m_offset_us', x)]

\* Restart: the input is at its end, can be sought, and begins again.
Restarts ==
    /\ place = "read" /\ ~stop /\ arrived = <<>> /\ pass = <<>>
    /\ HasTimeline
    /\ passes < MaxPasses /\ passes' = passes + 1
    /\ pass' \in file
    /\ m_offset_us' = m_offset_us + (m_pass_end_us - m_pass_start_us)
    /\ m_first_pass' = FALSE
    /\ m_pass_end_us' = NoTime
    /\ ShiftsTracks
    /\ before' = reached /\ reached' = NoTime /\ shown' = <<>>
    /\ UNCHANGED <<stop, place, file, m_pass_start_us, arrived, config_rate, audio>>

\* The end of the input: a stop, no loop, no usable timestamps, or a failed seek.
Ends ==
    /\ place = "read" /\ arrived = <<>>
    /\ stop \/ pass = <<>>
    /\ place' = "flush"
    /\ UNCHANGED <<stop, input, arrived, config_rate, audio>>

\* av_read_frame fails for good: Read throws, and the stop follows.
Fails ==
    /\ place = "read" /\ ~stop /\ arrived = <<>> /\ pass # <<>>
    /\ place' = "done" /\ stop' = TRUE
    /\ UNCHANGED <<input, arrived, config_rate, audio>>

RequestStop ==
    /\ ~stop
    /\ stop' = TRUE
    /\ UNCHANGED <<place, input, arrived, config_rate, audio>>
-----------------------------------------------------------------------------
\* AudioProcessor.  The decoder has removed what skip and trim say.

EndUs(block) == block.pts + Rescale(block.samples, Micros, block.rate)

Frame(p) == [pts |-> IF p.pts = NoTime THEN NoTime ELSE Start(p),
             samples |-> IF p.discard THEN 0 ELSE p.samples - p.skip - p.trim,
             rate |-> p.rate, planar |-> p.planar]

\* Fault: the tail is measured in samples of the input.
KeepOfInput(previous, next) == Rescale(next.pts - previous.pts, m_in.rate, Micros)
Keep(previous, next) == Rescale(next.pts - previous.pts, previous.rate, Micros)

Trimmed(previous, next) ==
    LET overlap == EndUs(previous) - next.pts
    IN  IF overlap > kOverlapToleranceUs /\ overlap < kMaxOverlapTrimUs
        THEN [previous EXCEPT !.samples = Earlier(Later(Keep(previous, next), 0), @)]
        ELSE previous

\* Emit holds the new block back and hands on the one it held, unless nothing is
\* left of that.  A block remembers for the properties how long it `was`.
Emits(held, block) ==
    LET next == [pts |-> block.pts, samples |-> block.samples, rate |-> block.rate,
                 was |-> block.samples]
    IN  IF held = <<>> THEN [sent |-> <<>>, held |-> <<next>>, cut |-> 0]
        ELSE LET out == Trimmed(held[1], next)
             IN  [sent |-> IF out.samples > 0 THEN <<out>> ELSE <<>>, held |-> <<next>>,
                  cut |-> held[1].samples - out.samples]

\* What becomes of a block Process or Flush has made: an empty one is dropped.
NotEmitted == [sent |-> <<>>, held |-> m_held, cut |-> 0]
Emitted(block) == IF block.samples > 0 THEN Emits(m_held, block) ELSE NotEmitted

\* A block of which nothing is left leaves a seam behind the one before it.
Seam(e) == IF e.cut > 0 /\ e.sent = <<>> THEN {Len(given)} ELSE {}

\* Resample with n more input samples at pts: the samples inside come out first, so
\* the block starts that much earlier.  All of them come out when it is drained, in
\* whole samples: what is begun of one waits for the next conversion.
Resampled(n, pts, drains) ==
    LET total == inside + n
        left == IF drains THEN 0 ELSE Earlier(total, KeptBack)
        parts == (total - left) * m_out_rate + part
    IN  [block |-> [pts |-> pts - Rescale(inside, Micros, m_in.rate),
                    samples |-> parts \div m_in.rate, rate |-> m_out_rate],
         left |-> left, part |-> parts % m_in.rate]

\* The resampler is empty, and has to have given what it was fed for.
Settles ==
    /\ inside' = 0 /\ part' = 0 /\ fed' = 0
    /\ due' = due + (IF m_in = <<>> THEN 0 ELSE (fed * m_out_rate) \div m_in.rate)

\* Flush: the resampler is drained, then the held block goes out.
Drained == IF m_in # <<>> /\ ~m_passthrough
           THEN Emitted(Resampled(0, m_next_in_us, TRUE).block)
           ELSE NotEmitted

Flush ==
    /\ given' = given \o Drained.sent \o Drained.held
    /\ cut' = cut + Drained.cut
    /\ broken' = broken \union Seam(Drained) \union {Len(given')}
    /\ m_held' = <<>>
    /\ Settles

Settings(f) == [rate |-> f.rate, planar |-> f.planar]
NeedsReconfigure(f) == m_in # Settings(f)

\* Configure: a frame in planar floats at the rate wanted is only copied.
Configure(f) ==
    /\ m_in' = Settings(f)
    /\ m_out_rate' = IF config_rate > 0 THEN config_rate ELSE f.rate
    /\ m_passthrough' = (f.planar /\ m_out_rate' = f.rate)

\* Fault: the old resampler is replaced with what it holds.
ReconfiguresAtOnce(f) ==
    /\ Configure(f)
    /\ Settles
    /\ UNCHANGED <<given, cut, broken, m_held>>

\* The first half of Process, when the input has changed: what the old resampler
\* holds goes out first.
Reconfigures(f) ==
    /\ Flush
    /\ Configure(f)

ProcessReconfigures ==
    /\ arrived # <<>>
    /\ LET f == Frame(arrived[1]) IN f.samples > 0 /\ NeedsReconfigure(f) /\ Reconfigures(f)
    /\ UNCHANGED <<stop, place, input, arrived, config_rate, m_next_in_us>>

\* Where a frame is put: by its timestamp, or else behind the one before.
PtsUs(f) == IF f.pts # NoTime THEN ToMicros(f.pts, "audio") ELSE m_next_in_us

\* A frame is copied, or goes through the resampler.
Made(f) ==
    IF m_passthrough
    THEN [block |-> [pts |-> PtsUs(f), samples |-> f.samples, rate |-> f.rate],
          left |-> 0, part |-> 0]
    ELSE Resampled(f.samples, PtsUs(f), FALSE)

\* The second half: what is made of the frame goes to Emit.
Process ==
    /\ arrived # <<>>
    /\ LET f == Frame(arrived[1])
           e == Emitted(Made(f).block)
       IN  /\ f.samples > 0 /\ ~NeedsReconfigure(f)
           /\ m_next_in_us' = PtsUs(f) + Rescale(f.samples, Micros, f.rate)
           /\ inside' = Made(f).left /\ part' = Made(f).part
           /\ given' = given \o e.sent
           /\ m_held' = e.held
           /\ cut' = cut + e.cut
           /\ broken' = broken \union Seam(e)
           /\ fed' = fed + f.samples
    /\ arrived' = <<>>
    /\ UNCHANGED <<stop, place, input, config_rate, m_in, m_out_rate, m_passthrough, due>>

\* A packet of which the decoder leaves nothing.
ProcessesNothing ==
    /\ arrived # <<>> /\ Frame(arrived[1]).samples <= 0
    /\ arrived' = <<>>
    /\ UNCHANGED <<stop, place, input, config_rate, audio>>

\* The end of AudioDecodeLoop.
Finishes ==
    /\ place = "flush"
    /\ IF stop THEN UNCHANGED <<given, cut, broken, m_held, inside, part, fed, due>> ELSE Flush
    /\ place' = "done"
    /\ UNCHANGED <<stop, input, arrived, config_rate, m_in, m_out_rate, m_passthrough,
                   m_next_in_us>>

Done == place = "done" /\ UNCHANGED vars

Next == Reads \/ Restarts \/ Ends \/ Fails \/ RequestStop
        \/ ProcessReconfigures \/ Process \/ ProcessesNothing \/ Finishes \/ Done

Spec == Init /\ [][Next]_vars
-----------------------------------------------------------------------------
\* Two instants that were one, each moved by rounding.
Slack == 2 * MostRounding

Near(a, b) == a - b <= Slack /\ b - a <= Slack

\* However often the input is looped, every pass begins where the previous one
\* ended, for all tracks alike: what rounding to each track's ticks costs does not
\* add up, a shorter pass leaves no hole, and a pass that showed nothing is the last.
PassesFollow ==
    /\ Near(ToMicros(offset["video"], "video"), ToMicros(offset["audio"], "audio"))
    /\ before # NoTime
    /\ (passes > 1 /\ shown # <<>>) =>
           LET p == shown[1]
               start == From(p)
               first == ToMicros(Start(p) - offset[p.stream], p.stream) = m_pass_start_us
           IN  /\ start >= before - Slack
               /\ first => Near(start, before)

\* Where one block ends the next begins, but for the tolerance, or the next is so far
\* back that it is a discontinuity; and no more was trimmed than what overlapped.
Joins(block, next) ==
    LET overlap == EndUs(block) - next.pts
    IN  /\ overlap <= kOverlapToleranceUs \/ overlap >= kMaxOverlapTrimUs
        /\ block.samples < block.was => overlap >= -(Micros \div block.rate)

\* The blocks the sink takes join, except where there was a flush between them or a
\* block in between was trimmed to nothing.
BlocksJoin == \A i \in 1..Len(given) - 1 : i \notin broken => Joins(given[i], given[i + 1])

SamplesIn(blocks) ==
    LET sum[i \in 0..Len(blocks)] == IF i = 0 THEN 0 ELSE sum[i - 1] + blocks[i].samples
    IN  sum[Len(blocks)]

\* What Emit made of the samples: given away, held, or trimmed.
Emissions == SamplesIn(given) + SamplesIn(m_held) + cut

\* Every sample that was taken is in a block that was given away, in the held block
\* or in the resampler, or was trimmed, whatever the two rates are: none is left
\* behind in a resampler that is replaced when the input changes, and what is begun of
\* a sample does not get lost from one conversion to the next.
NoSampleIsLost ==
    m_in # <<>> =>
        (Emissions - due) * m_in.rate + part + inside * m_out_rate = fed * m_out_rate
=============================================================================
