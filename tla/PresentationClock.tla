-------------------------- MODULE PresentationClock --------------------------
(***************************************************************************)
(* src/util/clock.hpp and clock.cpp: the clock the presenters share.  It    *)
(* starts once every expected stream has reported its first timestamp, or  *)
(* a timeout after the first one has, and then maps media timestamps to    *)
(* deadlines and to timecodes until a Resync moves both.                   *)
(*                                                                         *)
(* Each action is one critical section of m_mutex.  Time is a counter of   *)
(* microseconds of the steady clock; UTC is the steady clock plus an offset *)
(* that may be adjusted at any moment, in units of 100 ns.                 *)
(***************************************************************************)
EXTENDS Integers, FiniteSets

CONSTANTS
    Streams,        \* the presenters: video, audio
    Pts,            \* media timestamps
    NoPts,          \* INT64_MAX: later than all of them
    Preroll,
    StartTimeout,
    UtcOffsets,     \* UTC minus steady clock, before and after adjustments
    MaxTime         \* bound: time before the first stream is ready, and after its timeout

ASSUME ClockAssumption ==
    /\ IsFiniteSet(Streams)
    /\ Pts \subseteq Int
    /\ NoPts \in Int /\ \A p \in Pts : p < NoPts
    /\ Preroll \in Nat
    /\ StartTimeout \in Nat
    /\ UtcOffsets \subseteq Int
    /\ MaxTime \in Nat

NotYet == -1    \* an empty optional, or a time_point nobody has set

VARIABLES
    now,                \* Clock::now()
    utcOffset,          \* system_clock::now() - Clock::now()
    stop,
    m_expected, m_ready, m_min_first_pts, m_first_ready,
    m_started, m_origin_us, m_epoch, m_utc_epoch_100ns,
    pc,                 \* where each presenter is
    first,              \* history: the first timestamp each stream reported
    anchorOffset        \* history: utcOffset when the clock was last anchored

startVars == <<m_expected, m_ready, m_min_first_pts, m_first_ready, first>>
anchorVars == <<m_started, m_origin_us, m_epoch, m_utc_epoch_100ns, anchorOffset>>
vars == <<now, utcOffset, stop, startVars, anchorVars, pc>>

Init ==
    /\ now = 0
    /\ utcOffset \in UtcOffsets
    /\ stop = FALSE
    /\ m_expected = Cardinality(Streams)
    /\ m_ready = 0
    /\ m_min_first_pts = NoPts
    /\ m_first_ready = NotYet
    /\ m_started = FALSE
    /\ m_origin_us = 0
    /\ m_epoch = 0
    /\ m_utc_epoch_100ns = 0
    /\ pc = [s \in Streams |-> "before"]
    /\ first = [s \in Streams |-> NoPts]
    /\ anchorOffset = utcOffset

-----------------------------------------------------------------------------
DueTime(pts) == m_epoch + (pts - m_origin_us)
Timecode(pts) == m_utc_epoch_100ns + (pts - m_origin_us) * 10

UtcNow100ns(at) == (at + utcOffset) * 10

\* m_cv.notify_all()
NotifyAll == [s \in Streams |-> IF pc[s] = "waiting" THEN "woken" ELSE pc[s]]

\* Fault: the latest first timestamp becomes the origin.
Later(p, q) == IF p = NoPts \/ p <= q THEN q ELSE p

Earlier(p, q) == IF p <= q THEN p ELSE q

StartLocked ==
    /\ m_origin_us' = m_min_first_pts'
    /\ m_epoch' = now + Preroll
    /\ m_utc_epoch_100ns' = UtcNow100ns(now + Preroll)
    /\ m_started' = TRUE
    /\ anchorOffset' = utcOffset

\* Fault: only the number of streams counts, never the timeout.
EveryoneIsReady == m_ready' >= m_expected

\* The loop's reasons to start, from the values its critical section has set.
MustStart == m_ready' >= m_expected \/ now >= m_first_ready' + StartTimeout

\* Fault: do { ... } while (!m_started): a stream that comes later starts again.
StartAnyway(s, threads) ==
    /\ IF MustStart
       THEN StartLocked /\ pc' = [NotifyAll EXCEPT ![s] = "running"]
       ELSE UNCHANGED anchorVars
            /\ pc' = [threads EXCEPT ![s] = IF stop THEN "refused" ELSE "waiting"]

\* One turn of the loop by stream s, which holds the lock and has left the other
\* threads at `threads`: it finds the clock started, starts it, or waits; the
\* wait looks at the stop token before it sleeps.
Decide(s, threads) ==
    \/ /\ m_started
       /\ UNCHANGED anchorVars
       /\ pc' = [threads EXCEPT ![s] = "running"]
    \/ /\ ~m_started /\ MustStart
       /\ StartLocked
       /\ pc' = [NotifyAll EXCEPT ![s] = "running"]
    \/ /\ ~m_started /\ ~MustStart
       /\ UNCHANGED anchorVars
       /\ pc' = [threads EXCEPT ![s] = IF stop THEN "refused" ELSE "waiting"]

\* WaitForStart up to the point where it returns or sleeps.
Arrive(s) ==
    /\ pc[s] = "before"
    /\ \E pts \in Pts :
         /\ first' = [first EXCEPT ![s] = pts]
         /\ m_min_first_pts' = Earlier(m_min_first_pts, pts)
    /\ m_ready' = m_ready + 1
    /\ m_first_ready' = IF m_first_ready = NotYet THEN now ELSE m_first_ready
    /\ Decide(s, NotifyAll)
    /\ UNCHANGED <<now, utcOffset, stop, m_expected>>

\* Fault: the stream is counted again after every wakeup.
CountAgain(s) ==
    /\ pc[s] = "woken"
    /\ m_ready' = m_ready + 1
    /\ UNCHANGED <<m_expected, m_min_first_pts, m_first_ready, first>>
    /\ \/ /\ stop
          /\ UNCHANGED anchorVars
          /\ pc' = [pc EXCEPT ![s] = "refused"]
       \/ ~stop /\ Decide(s, pc)
    /\ UNCHANGED <<now, utcOffset, stop>>

\* The wait is over, or was woken for nothing and goes to sleep again.  A stop
\* request is looked at first, even when the clock has started meanwhile.
Resume(s) ==
    /\ pc[s] = "woken"
    /\ UNCHANGED startVars
    /\ \/ /\ stop
          /\ UNCHANGED anchorVars
          /\ pc' = [pc EXCEPT ![s] = "refused"]
       \/ ~stop /\ Decide(s, pc)
    /\ UNCHANGED <<now, utcOffset, stop>>

\* What ends a sleep besides NotifyAll: the deadline, the stop callback, nothing.
WakesUp(s) ==
    /\ pc[s] = "waiting"
    /\ pc' = [pc EXCEPT ![s] = "woken"]
    /\ UNCHANGED <<now, utcOffset, stop, startVars, anchorVars>>

Expires(s) == now >= m_first_ready + StartTimeout /\ WakesUp(s)
Interrupts(s) == stop /\ WakesUp(s)
SpuriousWake(s) == WakesUp(s)

\* Fault: nobody is told.
FinishSilently(s) ==
    /\ pc[s] \in {"before", "refused"}
    /\ m_expected' = m_expected - 1
    /\ pc' = [pc EXCEPT ![s] = "finished"]
    /\ UNCHANGED <<now, utcOffset, stop, m_ready, m_min_first_pts, m_first_ready,
                   first, anchorVars>>

\* The presenters call it when they leave before the clock started for them:
\* without a frame, or after WaitForStart returned false.
StreamFinished(s) ==
    /\ pc[s] \in {"before", "refused"}
    /\ m_expected' = m_expected - 1
    /\ pc' = [NotifyAll EXCEPT ![s] = "finished"]
    /\ UNCHANGED <<now, utcOffset, stop, m_ready, m_min_first_pts, m_first_ready,
                   first, anchorVars>>

\* Fault: the timecode moves as if the timestamp were due at the epoch.
ResyncEpochOnly(s) ==
    /\ pc[s] = "running"
    /\ \E pts \in Pts, when \in 0..now :
         /\ m_epoch' = when - (pts - m_origin_us)
         /\ m_utc_epoch_100ns' = UtcNow100ns(when)
    /\ anchorOffset' = utcOffset
    /\ UNCHANGED <<now, utcOffset, stop, startVars, m_started, m_origin_us, pc>>

\* The caller has read the clock a while before.
Resync(s) ==
    /\ pc[s] = "running"
    /\ \E pts \in Pts, when \in 0..now :
         LET offset_us == pts - m_origin_us IN
         /\ m_epoch' = when - offset_us
         /\ m_utc_epoch_100ns' = UtcNow100ns(when) - offset_us * 10
    /\ anchorOffset' = utcOffset
    /\ UNCHANGED <<now, utcOffset, stop, startVars, m_started, m_origin_us, pc>>

RequestStop ==
    /\ ~stop
    /\ stop' = TRUE
    /\ UNCHANGED <<now, utcOffset, startVars, anchorVars, pc>>

Horizon == MaxTime + (IF m_first_ready = NotYet THEN 0 ELSE m_first_ready + StartTimeout)

Tick ==
    /\ now < Horizon
    /\ now' = now + 1
    /\ UNCHANGED <<utcOffset, stop, startVars, anchorVars, pc>>

AdjustUtc ==
    /\ utcOffset' \in UtcOffsets
    /\ UNCHANGED <<now, stop, startVars, anchorVars, pc>>

Next ==
    \/ \E s \in Streams :
         \/ Arrive(s) \/ Resume(s) \/ StreamFinished(s) \/ Resync(s)
         \/ Expires(s) \/ Interrupts(s) \/ SpuriousWake(s)
    \/ RequestStop
    \/ Tick
    \/ AdjustUtc

\* Time passes, and a thread that can leave the wait or give up the stream is
\* scheduled.  No stream has to deliver a first frame.
Fairness ==
    /\ WF_vars(Tick)
    /\ \A s \in Streams : /\ WF_vars(Resume(s))
                          /\ WF_vars(Expires(s))
                          /\ WF_vars(Interrupts(s))

Safety == Init /\ [][Next]_vars

Spec == Safety /\ Fairness
-----------------------------------------------------------------------------
Places == {"before", "waiting", "woken", "running", "refused", "finished"}

Arrived == {s \in Streams : first[s] # NoPts}

TypeOK ==
    /\ now \in Nat
    /\ utcOffset \in Int
    /\ stop \in BOOLEAN
    /\ m_expected \in 0..Cardinality(Streams)
    /\ m_ready \in 0..Cardinality(Streams)
    /\ m_min_first_pts \in Pts \union {NoPts}
    /\ m_first_ready \in Nat \union {NotYet}
    /\ m_started \in BOOLEAN
    /\ m_origin_us \in Int
    /\ m_epoch \in Int
    /\ m_utc_epoch_100ns \in Int
    /\ pc \in [Streams -> Places]
    /\ first \in [Streams -> Pts \union {NoPts}]
    /\ anchorOffset \in Int

\* The deadline and the timecode of every timestamp name the same instant, in the
\* UTC of the last anchoring: StartLocked and Resync move both together.
TimecodeMatchesDue ==
    m_started => \A pts \in Pts : Timecode(pts) = (DueTime(pts) + anchorOffset) * 10

\* No stream sleeps in WaitForStart once the clock has started or nobody else is
\* expected: the last stream to report or to finish tells the others.
NoNeedlessWait ==
    (m_started \/ m_ready >= m_expected) => \A s \in Streams : pc[s] # "waiting"

\* Nothing that was ready at the start is due before the preroll is over, and the
\* earliest timestamp is due right then.
FirstFramesOnTime ==
    [][(~m_started /\ m_started') =>
         /\ \A s \in Arrived' : DueTime(first[s])' >= now + Preroll
         /\ \E s \in Arrived' : DueTime(first[s])' = now + Preroll]_vars

\* Unless the timeout is over or a stop is under way, the clock starts only when
\* every stream has reported its first timestamp or has finished: the counters
\* count each stream once.
StartIsComplete ==
    [][(~m_started /\ m_started' /\ now < m_first_ready' + StartTimeout /\ ~stop) =>
         \A s \in Streams : s \in Arrived' \/ pc'[s] = "finished"]_vars

\* The clock starts once; its origin then stays, and only Resync moves the epoch.
StartsOnce ==
    [][m_started =>
         /\ m_started'
         /\ m_origin_us' = m_origin_us
         /\ (m_epoch' # m_epoch) => \E s \in Streams : Resync(s)]_vars

\* WaitForStart returns.
WaitEnds ==
    \A s \in Streams :
        (pc[s] \in {"waiting", "woken"}) ~> (pc[s] \in {"running", "refused", "finished"})
=============================================================================
