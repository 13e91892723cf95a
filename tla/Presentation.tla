----------------------------- MODULE Presentation -----------------------------
(***************************************************************************)
(* src/streamer.cpp: how the two presenters pace their frames once the      *)
(* clock has started, who is master, who moves the clock, and which late   *)
(* pictures are dropped.                                                   *)
(*                                                                         *)
(* Every reading of the time, of the clock or of an atomic is a step, so    *)
(* that the other presenter may run in between.  The clock is anchored at  *)
(* origin 0: a timestamp is due at m_epoch + pts, and its timecode names   *)
(* the same instant (PresentationClock!TimecodeMatchesDue), in units of the *)
(* steady clock.  Pacing is on.                                            *)
(***************************************************************************)
EXTENDS Integers, Sequences

CONSTANTS
    Inputs,          \* the inputs considered, each with the bounds of its runs
    ResyncLate, ResyncEarly, AudioMasterIdle, DropThreshold, MaxFreeze, MaxSleepStep

\* pts: the timestamps of each stream's frames, in order;
\* live: MediaInput::IsLive;
\* until (bound): how far the steady clock goes;
\* urgent (bound): no time passes while a presenter could run;
\* mayStop (bound): whether a stop is requested.
Input == [pts : [{"video", "audio"} -> Seq(Nat)], live : BOOLEAN,
          until : Nat, urgent : BOOLEAN, mayStop : BOOLEAN]

ASSUME PresentationAssumption ==
    /\ Inputs \subseteq Input
    /\ {ResyncLate, ResyncEarly, AudioMasterIdle, DropThreshold, MaxFreeze} \subseteq Nat
    /\ MaxSleepStep \in Nat \ {0}

Streams == {"video", "audio"}
NotYet == -1    \* a time_point nobody has set
LongAgo == -1 - MaxFreeze   \* last_sent of a presenter that has sent nothing

VARIABLES
    input,                \* the input at hand
    now,                  \* Clock::now()
    m_epoch,
    stop,
    m_audio_presenting, m_audio_last_sent,
    last_sent,            \* of the video presenter
    delivered,            \* frames the decoders have pushed
    popped,               \* frames the presenters have popped
    pc,
    at, due,              \* locals: the time and the deadline as read, 0 when out of scope
    wake,                 \* when the sleep of each presenter ends
    taken,                \* history: when each presenter took its frame
    moved                 \* history: presenters whose deadline was moved since they read it

locals == <<pc, at, due, wake, taken>>
shared == <<m_epoch, m_audio_presenting, m_audio_last_sent, last_sent, popped, moved>>
vars == <<input, now, stop, delivered, locals, shared>>

Pts == input.pts
m_live == input.live

Init ==
    /\ input \in Inputs
    /\ now = 0
    /\ m_epoch = 0
    /\ stop = FALSE
    /\ m_audio_presenting = TRUE
    /\ m_audio_last_sent = NotYet
    /\ last_sent = LongAgo
    /\ delivered = [x \in Streams |-> 0]
    /\ popped = [x \in Streams |-> 0]
    /\ pc = [x \in Streams |-> "pop"]
    /\ at = [x \in Streams |-> 0]
    /\ due = [x \in Streams |-> 0]
    /\ wake = [x \in Streams |-> 0]
    /\ taken = [x \in Streams |-> 0]
    /\ moved = {}

-----------------------------------------------------------------------------
pts(x) == Pts[x][popped[x]]     \* of the frame in hand
DueTime(p) == m_epoch + p
Timecode(p) == m_epoch + p

\* Fault: the frame in hand is counted as well.
SizeWithHand(x) == delivered[x] - popped[x] + 1
Size(x) == delivered[x] - popped[x]

\* Fault: a stream that has started stays master for ever.
MasterForEver == m_audio_presenting /\ m_audio_last_sent # NotYet

AudioIsMaster ==
    /\ m_audio_presenting
    /\ m_audio_last_sent # NotYet
    /\ now - m_audio_last_sent < AudioMasterIdle

Go(x, place) == pc' = [pc EXCEPT ![x] = place]

\* The time as Clock::now() returns it to presenter x.
ReadTime(x) == at' = [at EXCEPT ![x] = now]

\* Pop returns a frame; video looks at the time at once.
PopsFrame(x) ==
    /\ pc[x] = "pop"
    /\ Size(x) > 0
    /\ popped' = [popped EXCEPT ![x] = @ + 1]
    /\ taken' = [taken EXCEPT ![x] = now]
    /\ Go(x, IF x = "video" THEN "look" ELSE "wait")
    /\ IF x = "video" THEN ReadTime(x) ELSE UNCHANGED at
    /\ UNCHANGED <<due, wake, m_epoch, m_audio_presenting, m_audio_last_sent, last_sent, moved>>

\* Pop returns nothing: the end of the stream, or a stop.
PopsNothing(x) ==
    /\ pc[x] = "pop"
    /\ Size(x) = 0
    /\ stop \/ delivered[x] = Len(Pts[x])
    /\ Go(x, "leave")
    /\ UNCHANGED <<at, due, wake, taken, shared>>

\* DueTime, under the clock's lock, where `place` waits for it.
ReadsDue(x, place, next) ==
    /\ pc[x] = place
    /\ due' = [due EXCEPT ![x] = DueTime(pts(x))]
    /\ moved' = moved \ {x}
    /\ Go(x, next)
    /\ UNCHANGED <<at, wake, taken, m_epoch, m_audio_presenting, m_audio_last_sent,
                   last_sent, popped>>

Lateness == at["video"] - due["video"]
ResyncPending == ~AudioIsMaster /\ Lateness > ResyncLate

\* The frame's scope ends.
Forget(x) ==
    /\ at' = [at EXCEPT ![x] = 0]
    /\ due' = [due EXCEPT ![x] = 0]
    /\ taken' = [taken EXCEPT ![x] = 0]
    /\ moved' = moved \ {x}

\* Late, no resync in sight, a newer frame ready, and no freeze: dropped.
TooLate ==
    /\ Lateness > DropThreshold
    /\ ~ResyncPending
    /\ Size("video") > 0
    /\ at["video"] - last_sent < MaxFreeze

Judges ==
    /\ pc["video"] = "judge"
    /\ \/ TooLate /\ Go("video", "pop") /\ Forget("video")
       \/ ~TooLate /\ Go("video", "wait") /\ UNCHANGED <<at, due, taken, moved>>
    /\ UNCHANGED <<wake, m_epoch, m_audio_presenting, m_audio_last_sent, last_sent, popped>>
-----------------------------------------------------------------------------
\* WaitUntilDue

LooksAtTime(x) ==
    /\ pc[x] = "wait"
    /\ ReadTime(x)
    /\ Go(x, "waitDue")
    /\ UNCHANGED <<due, wake, taken, shared>>

FarBehind(x) == at[x] - due[x] > ResyncLate

\* Fault: files are treated like live inputs.
FarAheadAlways(x) == due[x] - at[x] > ResyncEarly
FarAhead(x) == m_live /\ due[x] - at[x] > ResyncEarly

Master(x) == x = "audio" \/ ~AudioIsMaster

Sleeps(x) ==
    /\ wake' = [wake EXCEPT ![x] = IF due[x] < at[x] + MaxSleepStep THEN due[x]
                                   ELSE at[x] + MaxSleepStep]
    /\ Go(x, "asleep")

Decides(x) ==
    /\ pc[x] = "decide"
    /\ \/ /\ Master(x) /\ (FarBehind(x) \/ FarAhead(x))
          /\ Go(x, "resync")
          /\ UNCHANGED wake
       \/ /\ ~(Master(x) /\ (FarBehind(x) \/ FarAhead(x)))
          /\ IF at[x] >= due[x] THEN Go(x, "timecode") /\ UNCHANGED wake
                                ELSE Sleeps(x)
    /\ UNCHANGED <<at, due, taken, shared>>

\* The frame in hand is due at the time that was read: every other deadline moves.
Resyncs(x) ==
    /\ pc[x] = "resync"
    /\ m_epoch' = at[x] - pts(x)
    /\ moved' = (moved \union Streams) \ {x}
    /\ Go(x, "timecode")
    /\ UNCHANGED <<at, due, wake, taken, m_audio_presenting, m_audio_last_sent, last_sent,
                   popped>>

\* Fault: the end of a sleep is taken for the deadline.
AwakesDue(x) ==
    /\ pc[x] = "asleep"
    /\ now >= wake[x] \/ stop
    /\ wake' = [wake EXCEPT ![x] = 0]
    /\ Go(x, IF stop THEN "leave" ELSE "timecode")
    /\ UNCHANGED <<at, due, taken, shared>>

\* The sleep ends at its deadline or with the stop, which ends the loop.
Awakes(x) ==
    /\ pc[x] = "asleep"
    /\ now >= wake[x] \/ stop
    /\ wake' = [wake EXCEPT ![x] = 0]
    /\ Go(x, IF stop THEN "leave" ELSE "wait")
    /\ UNCHANGED <<at, due, taken, shared>>
-----------------------------------------------------------------------------
\* The timecode is read from the clock as it is now, whatever the wait has seen.
TakesTimecode(x) ==
    /\ pc[x] = "timecode"
    /\ Go(x, "send")
    /\ UNCHANGED <<at, due, wake, taken, shared>>

\* SendVideo or SendAudio with that timecode; then the time it was sent.
Sends(x) ==
    /\ pc[x] = "send"
    /\ IF x = "audio" THEN m_audio_last_sent' = now /\ UNCHANGED last_sent
                      ELSE last_sent' = now /\ UNCHANGED m_audio_last_sent
    /\ Go(x, "pop") /\ Forget(x)
    /\ UNCHANGED <<wake, m_epoch, m_audio_presenting, popped>>

Leaves(x) ==
    /\ pc[x] = "leave"
    /\ IF x = "audio" THEN m_audio_presenting' = FALSE ELSE UNCHANGED m_audio_presenting
    /\ Go(x, "gone") /\ Forget(x)
    /\ UNCHANGED <<wake, m_epoch, m_audio_last_sent, last_sent, popped>>

Presents(x) ==
    \/ PopsFrame(x) \/ PopsNothing(x)
    \/ x = "video" /\ (ReadsDue(x, "look", "judge") \/ Judges)
    \/ LooksAtTime(x) \/ ReadsDue(x, "waitDue", "decide") \/ Decides(x)
    \/ Resyncs(x) \/ Awakes(x)
    \/ TakesTimecode(x) \/ Sends(x) \/ Leaves(x)

Presenter(x) == Presents(x) /\ UNCHANGED <<input, now, stop, delivered>>

\* The decoder of stream x gets another frame through.
Delivers(x) ==
    /\ delivered[x] < Len(Pts[x])
    /\ delivered' = [delivered EXCEPT ![x] = @ + 1]
    /\ UNCHANGED <<input, now, stop, locals, shared>>

RequestStop ==
    /\ input.mayStop /\ ~stop
    /\ stop' = TRUE
    /\ UNCHANGED <<input, now, delivered, locals, shared>>

\* Nothing to do for presenter x before time passes or something arrives.
Rests(x) ==
    \/ pc[x] = "gone"
    \/ pc[x] = "asleep" /\ now < wake[x] /\ ~stop
    \/ pc[x] = "pop" /\ Size(x) = 0 /\ ~stop /\ delivered[x] < Len(Pts[x])

Tick ==
    /\ now < input.until
    /\ input.urgent => \A x \in Streams : Rests(x)
    /\ now' = now + 1
    /\ UNCHANGED <<input, stop, delivered, locals, shared>>

Next ==
    \/ \E x \in Streams : Presenter(x) \/ Delivers(x)
    \/ RequestStop
    \/ Tick

Spec == Init /\ [][Next]_vars
-----------------------------------------------------------------------------
Places == {"pop", "look", "judge", "wait", "waitDue", "decide", "resync", "asleep",
           "timecode", "send", "leave", "gone"}

Times == 0..input.until

\* Types; and both presenters only ever have a frame in hand that was delivered.
TypeOK ==
    /\ input \in Inputs
    /\ now \in Times
    /\ m_epoch \in Int
    /\ stop \in BOOLEAN
    /\ m_audio_presenting \in BOOLEAN
    /\ m_audio_last_sent \in Times \union {NotYet}
    /\ last_sent \in Times \union {LongAgo}
    /\ pc \in [Streams -> Places]
    /\ at \in [Streams -> Times] /\ taken \in [Streams -> Times]
    /\ due \in [Streams -> Int] /\ wake \in [Streams -> Int]
    /\ moved \subseteq Streams
    /\ \A x \in Streams : 0 <= popped[x] /\ popped[x] <= delivered[x] /\ delivered[x] <= Len(Pts[x])

\* No frame goes out before the instant its timecode names, unless the other
\* presenter has moved the clock since this one read its deadline.
EarlyOnlyAcrossResync ==
    \A x \in Streams :
        (pc[x] = "timecode" /\ x \notin moved) => Timecode(pts(x)) <= now

\* A file never runs ahead of its own timeline, however often and by whom the
\* clock is moved: its gaps are pauses that are waited for.
FileNeverRunsAhead ==
    ~m_live => \A x \in Streams :
        pc[x] \in {"timecode", "send"} => now >= pts(x)

\* What a resync leaves behind: in a file the schedule is only ever moved later
\* than the one the clock started with, by more than the lateness tolerated.
FileOnlyDelayed == ~m_live => (m_epoch = 0 \/ m_epoch > ResyncLate)

LaterOf(a, b) == IF a < b THEN b ELSE a

\* Video takes over when audio goes quiet: a jump of a live input holds a picture
\* back no longer than audio can stay master, and then the gap that is tolerated.
JumpIsTakenUp ==
    (m_live /\ pc["video"] = "asleep") =>
        now <= LaterOf(taken["video"], m_audio_last_sent)
               + AudioMasterIdle + MaxSleepStep + ResyncEarly

\* streamer.cpp:312, "Only the master moves the clock": video moves it only while
\* audio is not being sent.
OnlyMasterMovesClock ==
    [][Resyncs("video") => ~AudioIsMaster]_vars
=============================================================================
