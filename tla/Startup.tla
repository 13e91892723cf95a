-------------------------------- MODULE Startup --------------------------------
(***************************************************************************)
(* The life of the process: src/main.cpp reads the command line             *)
(* (src/options.cpp), receives signals on a thread of its own, builds the   *)
(* Streamer member by member (src/streamer.cpp, src/ndi/runtime.cpp,        *)
(* src/av/input.cpp, src/av/decoder.cpp, src/ndi/sender.cpp), waits for its *)
(* threads, takes it down and reports how it ended.                         *)
(*                                                                         *)
(* What the threads do is Pipeline's; here they end, fail, or stop.         *)
(***************************************************************************)
EXTENDS Integers, Sequences, FiniteSets

CONSTANTS
    CommandLines,   \* sequences of arguments, each [name, value]
    Worlds          \* what the program finds

\* libraries: what dlopen finds at each candidate of the search, in order, and
\* hinted: at the candidates of --ndi-lib; opening: what opening the input does;
\* streams: its streams; codecs: types of stream there is a decoder for;
\* devices: what opening each type of hardware does; sender: whether NDI makes it.
Library == {"absent", "broken", "incomplete", "unsupported", "dead", "good"}
Device == {"works", "fails", "unfit"}
World == [libraries : Seq(Library), hinted : Seq(Library),
          opening : {"opens", "fails", "hangs"},
          streams : Seq([type : {"video", "audio", "data"}, cover : BOOLEAN]),
          codecs : SUBSET {"video", "audio"},
          devices : [{"cuda", "vaapi", "vdpau"} -> Device],
          sender : BOOLEAN]

ASSUME StartupAssumption == Worlds \subseteq World

VARIABLES
    world, args,
    place,                  \* where main is
    built,                  \* members of the Streamer, in the order they were made
    tried,                  \* candidates the loader has tried
    m_video, m_audio,       \* the streams selected: 0 when there is none
    running, m_error,       \* whether threads run; the first error of theirs
    error,                  \* the exception on its way to main
    status,                 \* of the process: -1 while it runs
    pending,                \* a signal waits for sigwait
    count, signalThread,    \* locals of the signal thread
    g_interrupted, stop,
    initialized, destroyed  \* calls of NDIlib_initialize that succeeded, of NDIlib_destroy

choices == <<world, args>>
signals == <<pending, count, signalThread, g_interrupted>>
members == <<built, tried, m_video, m_audio, initialized, destroyed>>
vars == <<choices, place, members, running, m_error, error, status, signals, stop>>

Init ==
    /\ world \in Worlds /\ args \in CommandLines
    /\ place = "parse" /\ status = -1
    /\ built = <<>> /\ tried = 0 /\ m_video = 0 /\ m_audio = 0
    /\ running = FALSE /\ m_error = "none" /\ error = "none"
    /\ pending = FALSE /\ count = 0 /\ signalThread = "wait" /\ g_interrupted = FALSE
    /\ stop = FALSE
    /\ initialized = 0 /\ destroyed = 0

-----------------------------------------------------------------------------
\* ParseOptions

Bounds == [videoStream |-> 0..65535, audioStream |-> 0..65535, threads |-> 0..128,
           audioRate |-> 8000..384000, audioChannels |-> 1..64, stats |-> 1..86400]

\* "option" is -o, whose value says whether it has the form KEY=VALUE; "unknown"
\* is an option that does not exist or lacks its argument.
Malformed(a) ==
    \/ a.name \in DOMAIN Bounds /\ a.value \notin Bounds[a.name]
    \/ a.name = "option" /\ a.value = FALSE
    \/ a.name = "pixelFormat" /\ a.value \notin {"auto", "uyvy", "nv12", "i420", "bgra", "rgba"}
    \/ a.name = "unknown"

Answered(a) == a.name \in {"help", "version"}

Given(name) == {i \in DOMAIN args : args[i].name = name}

\* The last of several wins.
Option(name, default) ==
    IF Given(name) = {} THEN default
    ELSE args[CHOOSE i \in Given(name) : \A j \in Given(name) : j <= i].value

\* The first argument that decides does; only then is the whole looked at, with
\* the words getopt has moved behind the options.
ParseOutcome ==
    LET decisive == {i \in DOMAIN args : Malformed(args[i]) \/ Answered(args[i])}
    IN  IF decisive # {}
        THEN IF Answered(args[CHOOSE i \in decisive : \A j \in decisive : i <= j])
             THEN "ExitSuccess" ELSE "ExitError"
        ELSE IF \/ Given("word") # {}
                \/ Option("input", "") = "" \/ Option("source", "NDI Streamer") = ""
                \/ Given("noVideo") # {} /\ Given("noAudio") # {}
             THEN "ExitError" ELSE "Run"

Exits(s) == status' = s /\ place' = "exited"

Parses ==
    /\ place = "parse"
    /\ CASE ParseOutcome = "ExitSuccess" -> Exits(0)
         [] ParseOutcome = "ExitError" -> Exits(2)
         [] ParseOutcome = "Run" -> place' = "runtime" /\ UNCHANGED status
    /\ UNCHANGED <<choices, members, running, m_error, error, signals, stop>>
-----------------------------------------------------------------------------
\* The constructor of Streamer

Has(m) == m \in {built[i] : i \in DOMAIN built}
Makes(m) == built' = Append(built, m)

\* The members made so far are destroyed, from the last one.
Throws(e) == error' = e /\ place' = "destroy"

Quiet == UNCHANGED <<choices, running, m_error, status, signals, stop>>

Candidates == IF Option("ndiLib", "") # "" THEN world.hinted ELSE world.libraries

\* Runtime::Load, one candidate: what cannot be loaded is passed over, what can be
\* is taken, usable or not.
LoadsRuntime ==
    /\ place = "runtime" /\ tried < Len(Candidates)
    /\ tried' = tried + 1
    /\ CASE Candidates[tried + 1] \in {"absent", "broken"} ->
              UNCHANGED <<place, built, error, initialized>>
         [] Candidates[tried + 1] \in {"incomplete", "unsupported", "dead"} ->
              Throws("real") /\ UNCHANGED <<built, initialized>>
         [] Candidates[tried + 1] = "good" ->
              /\ initialized' = initialized + 1
              /\ Makes("runtime") /\ place' = "input" /\ UNCHANGED error
    /\ UNCHANGED <<m_video, m_audio, destroyed>> /\ Quiet

FindsNoRuntime ==
    /\ place = "runtime" /\ tried = Len(Candidates)
    /\ Throws("real")
    /\ UNCHANGED members /\ Quiet

\* MediaInput::Open, which the stop token interrupts while it waits.
OpensInput ==
    /\ place = "input" /\ world.opening = "opens"
    /\ place' = "select"
    /\ UNCHANGED <<members, error>> /\ Quiet

FailsToOpen ==
    /\ place = "input" /\ world.opening = "fails"
    /\ Throws("real")
    /\ UNCHANGED members /\ Quiet

\* Fault: nothing interrupts the wait for a peer that does not answer.
InterruptsReads ==
    /\ place = "input" /\ stop /\ world.opening # "hangs"
    /\ Throws("interrupted")
    /\ UNCHANGED members /\ Quiet

InterruptsOpening ==
    /\ place = "input" /\ stop
    /\ Throws("interrupted")
    /\ UNCHANGED members /\ Quiet

\* SelectStream: the stream asked for, or else the best one that is no cover art.
\* Streams count from 0 in the options and from 1 here.
Unfit == -1
SelectStream(type, requested) ==
    LET ofType == {i \in DOMAIN world.streams : world.streams[i].type = type}
    IN  IF requested >= 0
        THEN IF requested + 1 \in ofType THEN requested + 1 ELSE Unfit
        ELSE IF ofType = {} THEN 0
             ELSE LET best == CHOOSE i \in ofType : \A j \in ofType : i <= j
                  IN  IF world.streams[best].cover THEN 0 ELSE best

SelectsStreams ==
    /\ place = "select"
    /\ LET video == IF Given("noVideo") # {} THEN 0
                    ELSE SelectStream("video", Option("videoStream", -1))
           audio == IF Given("noAudio") # {} THEN 0
                    ELSE SelectStream("audio", Option("audioStream", -1))
       IN  IF Unfit \in {video, audio} \/ (video = 0 /\ audio = 0)
           THEN Throws("real") /\ UNCHANGED <<built, m_video, m_audio>>
           ELSE /\ m_video' = video /\ m_audio' = audio
                /\ Makes("input") /\ place' = "videoDecoder" /\ UNCHANGED error
    /\ UNCHANGED <<tried, initialized, destroyed>> /\ Quiet

\* SetupHardware: "auto" takes the first device that works and falls back to
\* software, a device that was named must work unless the codec is not for it.
HardwareFails ==
    LET name == Option("hwaccel", "none")
    IN  /\ name \notin {"", "none", "software", "auto"}
        /\ \/ name \notin DOMAIN world.devices
           \/ world.devices[name] = "fails"

MakesVideoDecoder ==
    /\ place = "videoDecoder"
    /\ IF m_video = 0
       THEN place' = "audioDecoder" /\ UNCHANGED <<built, error>>
       ELSE IF "video" \notin world.codecs \/ HardwareFails
            THEN Throws("real") /\ UNCHANGED built
            ELSE Makes("videoDecoder") /\ place' = "videoProcessor" /\ UNCHANGED error
    /\ UNCHANGED <<tried, m_video, m_audio, initialized, destroyed>> /\ Quiet

\* The processor borrows the decoder's device.
MakesVideoProcessor ==
    /\ place = "videoProcessor"
    /\ Makes("videoProcessor") /\ place' = "audioDecoder"
    /\ UNCHANGED <<tried, m_video, m_audio, initialized, destroyed, error>> /\ Quiet

MakesAudioDecoder ==
    /\ place = "audioDecoder"
    /\ IF m_audio = 0
       THEN place' = "sender" /\ UNCHANGED <<built, error>>
       ELSE IF "audio" \notin world.codecs
            THEN Throws("real") /\ UNCHANGED built
            ELSE /\ built' = built \o <<"audioDecoder", "audioProcessor">>
                 /\ place' = "sender" /\ UNCHANGED error
    /\ UNCHANGED <<tried, m_video, m_audio, initialized, destroyed>> /\ Quiet

MakesSender ==
    /\ place = "sender"
    /\ IF world.sender
       THEN Makes("sender") /\ place' = "start" /\ UNCHANGED error
       ELSE Throws("real") /\ UNCHANGED built
    /\ UNCHANGED <<tried, m_video, m_audio, initialized, destroyed>> /\ Quiet
-----------------------------------------------------------------------------
\* Start, Wait, and the end

Starts ==
    /\ place = "start"
    /\ running' = TRUE /\ place' = "wait"
    /\ UNCHANGED <<choices, members, m_error, error, status, signals, stop>>

\* The threads end: at the end of the input, with the stop,
ThreadsEnd ==
    /\ place # "exited" /\ running
    /\ running' = FALSE
    /\ UNCHANGED <<choices, place, members, m_error, error, status, signals, stop>>

\* or after one of them has failed, which stops the others.
ThreadFails ==
    /\ place # "exited" /\ running /\ m_error = "none"
    /\ m_error' = "real" /\ stop' = TRUE
    /\ UNCHANGED <<choices, place, members, running, error, status, signals>>

\* WaitFor, then Wait, which rethrows what a thread has thrown.  ~Streamer
\* requests a stop in any case.
Waits ==
    /\ place = "wait" /\ ~running
    /\ error' = m_error /\ place' = "destroy"
    /\ stop' = TRUE
    /\ UNCHANGED <<choices, members, running, m_error, status, signals>>

\* Fault: the members are destroyed in the order they were made.
DestroysFirst == built' = Tail(built)
\* Members go in the reverse order of their declaration.
DestroysLast == built' = SubSeq(built, 1, Len(built) - 1)

\* The runtime is the first, and shared with the sender, the last.
Destroys ==
    /\ place = "destroy" /\ built # <<>>
    /\ DestroysLast
    /\ destroyed' = IF Has("runtime") /\ "runtime" \notin {built'[i] : i \in DOMAIN built'}
                    THEN destroyed + 1 ELSE destroyed
    /\ UNCHANGED <<place, tried, m_video, m_audio, initialized, error>> /\ Quiet

Returns ==
    /\ place = "destroy" /\ built = <<>>
    /\ Exits(IF error = "none" \/ g_interrupted THEN 0 ELSE 1)
    /\ UNCHANGED <<choices, members, running, m_error, error, signals, stop>>

Main ==
    \/ Parses \/ LoadsRuntime \/ FindsNoRuntime
    \/ OpensInput \/ FailsToOpen \/ InterruptsOpening \/ SelectsStreams
    \/ MakesVideoDecoder \/ MakesVideoProcessor \/ MakesAudioDecoder \/ MakesSender
    \/ Starts \/ Waits \/ Destroys \/ Returns
-----------------------------------------------------------------------------
\* Signals, blocked in every thread once the command line is read; of several
\* that arrive before sigwait takes one, one is left.
Signal ==
    /\ place \notin {"parse", "exited"} /\ ~pending
    /\ pending' = TRUE
    /\ UNCHANGED <<choices, place, members, running, m_error, error, status, count,
                   signalThread, g_interrupted, stop>>

TakesSignal ==
    /\ place # "exited" /\ signalThread = "wait" /\ pending
    /\ pending' = FALSE
    /\ count' = count + 1
    /\ IF count = 0 THEN signalThread' = "flag" /\ UNCHANGED <<place, status>>
                    ELSE Exits(130) /\ UNCHANGED signalThread
    /\ UNCHANGED <<choices, members, running, m_error, error, g_interrupted, stop>>

\* Fault: the stop is requested before the flag is set.
StopsThenMarks ==
    \/ /\ signalThread = "flag" /\ signalThread' = "stop"
       /\ stop' = TRUE /\ UNCHANGED g_interrupted
    \/ /\ signalThread = "stop" /\ signalThread' = "wait"
       /\ g_interrupted' = TRUE /\ UNCHANGED stop
MarksThenStops ==
    \/ /\ signalThread = "flag" /\ signalThread' = "stop"
       /\ g_interrupted' = TRUE /\ UNCHANGED stop
    \/ /\ signalThread = "stop" /\ signalThread' = "wait"
       /\ stop' = TRUE /\ UNCHANGED g_interrupted

HandlesSignal ==
    /\ place # "exited"
    /\ MarksThenStops
    /\ UNCHANGED <<choices, place, members, running, m_error, error, status, pending, count>>

Exited == place = "exited" /\ UNCHANGED vars

Next == Main \/ ThreadsEnd \/ ThreadFails \/ Signal \/ TakesSignal \/ HandlesSignal \/ Exited

\* Every thread runs on, and the threads of the pipeline end after a stop
\* (Pipeline!Terminates).  Nothing makes an input end by itself.
Fairness ==
    /\ WF_vars(Main)
    /\ WF_vars(TakesSignal) /\ WF_vars(HandlesSignal)
    /\ WF_vars(stop /\ ThreadsEnd)

Spec == Init /\ [][Next]_vars /\ Fairness
-----------------------------------------------------------------------------
\* An interruption by the user is never reported as a failure, although it makes
\* opening the input fail; and only it excuses one.  A bad command line is told
\* apart, before anything was acquired.
InterruptIsNoFailure ==
    /\ status = 1 => error = "real"
    /\ (status = 0 /\ error # "none") => g_interrupted
    /\ status = 2 => built = <<>> /\ tried = 0

\* Each member outlives what uses it, however far the construction came: NDI the
\* sender, the decoder (with its device) the processor, all of them the threads.
\* A process that returns has destroyed NDI exactly as often as it was initialised.
TeardownInOrder ==
    /\ Has("sender") => Has("runtime") /\ initialized > destroyed
    /\ Has("videoProcessor") => Has("videoDecoder")
    /\ running => Has("sender") /\ Has("input")
    /\ status \in {0, 1, 2} => built = <<>> /\ initialized = destroyed

\* A signal ends the process, whatever it is waiting for: an input that does not
\* answer, or its threads.
SignalEndsProcess == (pending \/ count > 0) ~> place = "exited"
=============================================================================
