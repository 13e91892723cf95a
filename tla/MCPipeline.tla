------------------------------ MODULE MCPipeline ------------------------------
(* Small pipelines: both streams or one, queues of one or two, short passes. *)
EXTENDS Pipeline

Each(video, audio) == [x \in {"video", "audio"} |-> IF x = "video" THEN video ELSE audio]

\* A looped input with both streams; any thread may fail.
Looped ==
    [streams |-> {"video", "audio"}, packetCapacity |-> 1, frameCapacity |-> 1,
     decoderDelay |-> 1, processorDelay |-> 1, looping |-> TRUE, passLength |-> Each(1, 1),
     mayShed |-> TRUE, mayLose |-> FALSE, maxLoops |-> 1,
     mayFail |-> {"demux", "video", "audio"}, maySignal |-> TRUE]

\* The same input, damaged, without pacing.
Damaged == [Looped EXCEPT !.mayShed = FALSE, !.mayLose = TRUE]

\* One stream, looped and damaged, however it ends: the input, an exception, a signal.
Alone ==
    [Looped EXCEPT !.streams = {"video"}, !.frameCapacity = 2, !.passLength = Each(2, 0),
                   !.mayLose = TRUE, !.mayFail = {"demux", "video"}]

\* A pass of video longer than the queues are deep, with its audio at the end or before.
LateAudio ==
    [Looped EXCEPT !.decoderDelay = 0, !.processorDelay = 0, !.looping = FALSE, !.maxLoops = 0,
                   !.passLength = Each(5, 2), !.mayShed = FALSE, !.mayFail = {},
                   !.maySignal = FALSE]

Both == {Looped, Damaged}
Ends == {Alone, LateAudio}
=============================================================================
