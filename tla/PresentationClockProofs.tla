----------------------- MODULE PresentationClockProofs -----------------------
(***************************************************************************)
(* Theorems about PresentationClock, for any number of presenters, any     *)
(* timestamps, any preroll and timeout and any adjustments of UTC.         *)
(***************************************************************************)
EXTENDS PresentationClock, FiniteSetTheorems, TLAPS

Finished == {s \in Streams : pc[s] = "finished"}

Types ==
    /\ now \in Nat
    /\ utcOffset \in Int
    /\ stop \in BOOLEAN
    /\ m_min_first_pts \in Pts \union {NoPts}
    /\ m_first_ready \in Nat \union {NotYet}
    /\ m_started \in BOOLEAN
    /\ m_origin_us \in Int
    /\ m_epoch \in Int
    /\ m_utc_epoch_100ns \in Int
    /\ pc \in [Streams -> Places]
    /\ first \in [Streams -> Pts \union {NoPts}]
    /\ anchorOffset \in Int

\* The counters count the streams that reported and those that gave up.
Counted ==
    /\ m_ready = Cardinality(Arrived)
    /\ m_expected = Cardinality(Streams) - Cardinality(Finished)

\* Where a presenter is tells whether it has reported; without a stop none that
\* has reported gives up.
Reported ==
    \A s \in Streams :
        /\ pc[s] = "before" => s \notin Arrived
        /\ pc[s] \in {"waiting", "woken", "running", "refused"} => s \in Arrived
        /\ ~stop => pc[s] # "refused" /\ (pc[s] = "finished" => s \notin Arrived)

\* m_min_first_pts is the earliest timestamp reported.
MinIsEarliest ==
    /\ \A s \in Arrived : m_min_first_pts <= first[s]
    /\ Arrived # {} => \E s \in Arrived : m_min_first_pts = first[s]
    /\ Arrived = {} => m_min_first_pts = NoPts

\* One equation says that deadlines and timecodes agree for every timestamp.
AnchorsAgree == m_started => m_utc_epoch_100ns = (m_epoch + anchorOffset) * 10

IInv ==
    /\ Types
    /\ Counted
    /\ Reported
    /\ MinIsEarliest
    /\ AnchorsAgree
    /\ NoNeedlessWait
-----------------------------------------------------------------------------
LEMMA Constants ==
    /\ Pts \union {NoPts} \subseteq Int
    /\ Preroll \in Nat /\ StartTimeout \in Nat
    /\ NotYet = -1
    /\ \A p \in Pts : p # NoPts
BY ClockAssumption DEF NotYet

LEMMA SomeStreams ==
    ASSUME NEW S, S \subseteq Streams
    PROVE  /\ IsFiniteSet(S)
           /\ Cardinality(S) \in Nat
           /\ Cardinality(S) <= Cardinality(Streams)
           /\ Cardinality(Streams) \in Nat
BY ClockAssumption, FS_Subset, FS_CardinalityType

LEMMA OneMoreStream ==
    ASSUME NEW S, NEW s, s \notin S, S \subseteq Streams
    PROVE  Cardinality(S \union {s}) = Cardinality(S) + 1
BY SomeStreams, FS_AddElement

\* Disjoint sets of streams that together count all of them are all of them.
LEMMA CountsCover ==
    ASSUME NEW A, NEW B, A \subseteq Streams, B \subseteq Streams, A \intersect B = {},
           Cardinality(A) >= Cardinality(Streams) - Cardinality(B)
    PROVE  A \union B = Streams
<1>1. /\ IsFiniteSet(A) /\ IsFiniteSet(B) /\ IsFiniteSet(Streams)
      /\ Cardinality(A) \in Nat /\ Cardinality(B) \in Nat /\ Cardinality(Streams) \in Nat
    BY SomeStreams, ClockAssumption
<1>2. Cardinality(A \intersect B) = 0
    BY FS_EmptySet
<1>3. Cardinality(A \union B) = Cardinality(A) + Cardinality(B) - Cardinality(A \intersect B)
    BY <1>1, FS_Union
<1>4. A \union B \in SUBSET Streams
    OBVIOUS
<1>5. Cardinality(A \union B) <= Cardinality(Streams)
    BY <1>1, <1>4, FS_Subset
<1>6. Cardinality(A \union B) = Cardinality(Streams)
    BY <1>1, <1>2, <1>3, <1>5
<1>7. QED
    BY <1>1, <1>4, <1>6, FS_Subset

LEMMA InitHolds == Init => IInv
<1> SUFFICES ASSUME Init
             PROVE  IInv
    OBVIOUS
<1> USE DEF Init
<1>1. Types
    <2>1. pc \in [Streams -> Places] /\ first \in [Streams -> Pts \union {NoPts}]
        BY DEF Places
    <2>2. utcOffset \in Int /\ anchorOffset \in Int
        BY ClockAssumption
    <2>3. stop \in BOOLEAN /\ m_started \in BOOLEAN
        OBVIOUS
    <2>4. /\ now \in Nat /\ m_origin_us \in Int /\ m_epoch \in Int /\ m_utc_epoch_100ns \in Int
          /\ m_min_first_pts \in Pts \union {NoPts}
          /\ m_first_ready \in Nat \union {NotYet}
        OBVIOUS
    <2>5. QED
        BY <2>1, <2>2, <2>3, <2>4 DEF Types
<1>2. Arrived = {} /\ Finished = {}
    BY DEF Arrived, Finished
<1>3. Counted
    BY <1>2, FS_EmptySet, SomeStreams DEF Counted
<1>4. Reported /\ MinIsEarliest
    BY <1>2 DEF Reported, MinIsEarliest, Arrived
<1>5. AnchorsAgree /\ NoNeedlessWait
    BY DEF AnchorsAgree, NoNeedlessWait
<1>6. QED
    BY <1>1, <1>3, <1>4, <1>5 DEF IInv

\* What one turn of the loop does, given types: three outcomes.
LEMMA DecideOutcomes ==
    ASSUME Types, NEW s \in Streams, NEW threads \in [Streams -> Places],
           Decide(s, threads), UNCHANGED <<now, utcOffset>>,
           m_min_first_pts' \in Int
    PROVE  /\ m_started' \in BOOLEAN
           /\ m_origin_us' \in Int
           /\ m_epoch' \in Int
           /\ m_utc_epoch_100ns' \in Int
           /\ anchorOffset' \in Int
           /\ pc' \in [Streams -> Places]
<1>1. pc' \in [Streams -> Places]
    <2>1. NotifyAll \in [Streams -> Places]
        BY DEF NotifyAll, Places, Types
    <2>2. QED
        BY <2>1 DEF Decide, Places
<1> DEFINE Numbers == /\ m_origin_us' \in Int
                      /\ m_epoch' \in Int
                      /\ m_utc_epoch_100ns' \in Int
                      /\ anchorOffset' \in Int
<1>2. CASE UNCHANGED anchorVars
    <2>1. m_started' \in BOOLEAN
        BY <1>2 DEF anchorVars, Types
    <2>2. Numbers
        BY <1>2 DEF anchorVars, Types
    <2>3. QED
        BY <2>1, <2>2, <1>1
<1>3. CASE StartLocked
    <2>1. m_started' \in BOOLEAN
        BY <1>3 DEF StartLocked
    <2>2. now \in Int /\ utcOffset \in Int /\ Preroll \in Int
        BY Constants DEF Types
    <2>3. Numbers
        BY <1>3, <2>2 DEF StartLocked, UtcNow100ns
    <2>4. QED
        BY <2>1, <2>3, <1>1
<1>4. UNCHANGED anchorVars \/ StartLocked
    BY DEF Decide
<1>5. QED
    BY <1>2, <1>3, <1>4

\* It moves s out of the loop or to sleep, and may wake others.
LEMMA DecidePlaces ==
    ASSUME Types, NEW s \in Streams, NEW threads \in {NotifyAll, pc}, Decide(s, threads)
    PROVE  /\ pc'[s] \in {"running", "waiting", "refused"}
           /\ pc'[s] = "refused" => stop
           /\ \A t \in Streams \ {s} :
                 pc'[t] = pc[t] \/ (pc[t] = "waiting" /\ pc'[t] = "woken")
BY DEF Types, Decide, NotifyAll

LEMMA TypesKept == Types /\ [Next]_vars => Types'
<1> SUFFICES ASSUME Types, [Next]_vars
             PROVE  Types'
    OBVIOUS
<1> USE Constants
<1>0. /\ NotifyAll \in [Streams -> Places]
      /\ pc \in [Streams -> Places]
    BY DEF NotifyAll, Types, Places
<1>1. ASSUME NEW s \in Streams, Arrive(s)
      PROVE  Types'
    <2>1. PICK pts \in Pts : /\ first' = [first EXCEPT ![s] = pts]
                             /\ m_min_first_pts' = Earlier(m_min_first_pts, pts)
        BY <1>1 DEF Arrive
    <2>2. /\ m_min_first_pts' \in Pts \union {NoPts}
          /\ first' \in [Streams -> Pts \union {NoPts}]
        BY <2>1 DEF Types, Earlier
    <2>3. m_first_ready' \in Nat \union {NotYet}
        BY <1>1 DEF Arrive, Types
    <2>4. Decide(s, NotifyAll) /\ UNCHANGED <<now, utcOffset, stop>>
        BY <1>1 DEF Arrive
    <2>5. m_min_first_pts' \in Int
        BY <2>2
    <2>6. QED
        BY <1>0, <2>2, <2>3, <2>4, <2>5, DecideOutcomes DEF Types
<1>2. ASSUME NEW s \in Streams, Resume(s)
      PROVE  Types'
    <2>1. UNCHANGED <<now, utcOffset, stop, m_min_first_pts, m_first_ready, first>>
        BY <1>2 DEF Resume, startVars
    <2>2. CASE Decide(s, pc)
        <3>1. m_min_first_pts' \in Int
            BY <2>1 DEF Types
        <3>2. QED
            BY <1>0, <2>1, <2>2, <3>1, DecideOutcomes DEF Types
    <2>3. CASE UNCHANGED anchorVars /\ pc' = [pc EXCEPT ![s] = "refused"]
        BY <2>1, <2>3 DEF Types, anchorVars, Places
    <2>4. QED
        BY <1>2, <2>2, <2>3 DEF Resume
<1>3. ASSUME NEW s \in Streams, StreamFinished(s)
      PROVE  Types'
    BY <1>0, <1>3 DEF StreamFinished, anchorVars, Types, Places
<1>4. ASSUME NEW s \in Streams, Resync(s)
      PROVE  Types'
    <2>1. PICK pts \in Pts, when \in 0..now :
             /\ m_epoch' = when - (pts - m_origin_us)
             /\ m_utc_epoch_100ns' = UtcNow100ns(when) - (pts - m_origin_us) * 10
        BY <1>4 DEF Resync
    <2>2. /\ when \in Int /\ pts \in Int /\ m_origin_us \in Int /\ utcOffset \in Int
        BY DEF Types
    <2>3. m_epoch' \in Int /\ m_utc_epoch_100ns' \in Int
        BY <2>1, <2>2 DEF UtcNow100ns
    <2>4. QED
        BY <1>4, <2>3 DEF Resync, startVars, Types
<1>5. ASSUME NEW s \in Streams, WakesUp(s)
      PROVE  Types'
    BY <1>5 DEF WakesUp, startVars, anchorVars, Types, Places
<1>6. ASSUME RequestStop \/ Tick \/ AdjustUtc \/ UNCHANGED vars
      PROVE  Types'
    <2>1. UNCHANGED <<startVars, anchorVars, pc>>
        BY <1>6 DEF RequestStop, Tick, AdjustUtc, vars
    <2>2. stop' \in BOOLEAN
        BY <1>6 DEF RequestStop, Tick, AdjustUtc, vars, Types
    <2>3. now' \in Nat
        BY <1>6 DEF RequestStop, Tick, AdjustUtc, vars, Types
    <2>4. utcOffset' \in Int
        BY <1>6, ClockAssumption DEF RequestStop, Tick, AdjustUtc, vars, Types
    <2>5. QED
        BY <2>1, <2>2, <2>3, <2>4 DEF startVars, anchorVars, Types
<1>7. QED
    BY ONLY [Next]_vars, <1>1, <1>2, <1>3, <1>4, <1>5, <1>6
    DEF Next, Expires, Interrupts, SpuriousWake

\* A step of s moves s from one stage to the next and wakes others at most.
Others(s) == \A t \in Streams \ {s} :
                 pc'[t] = pc[t] \/ (pc[t] = "waiting" /\ pc'[t] = "woken")

LEMMA ArriveStage ==
    ASSUME Types, NEW s \in Streams, Arrive(s)
    PROVE  /\ pc[s] = "before"
           /\ pc'[s] \in {"running", "waiting", "refused"}
           /\ pc'[s] = "refused" => stop
           /\ Others(s)
BY DecidePlaces DEF Arrive, Others

LEMMA ResumeStage ==
    ASSUME Types, NEW s \in Streams, Resume(s)
    PROVE  /\ pc[s] = "woken"
           /\ pc'[s] \in {"running", "waiting", "refused"}
           /\ pc'[s] = "refused" => stop
           /\ Others(s)
<1>1. CASE Decide(s, pc)
    BY <1>1, DecidePlaces DEF Resume, Others
<1>2. CASE stop /\ pc' = [pc EXCEPT ![s] = "refused"]
    BY <1>2 DEF Resume, Types, Others
<1>3. QED
    BY <1>1, <1>2 DEF Resume

LEMMA FinishStage ==
    ASSUME Types, NEW s \in Streams, StreamFinished(s)
    PROVE  /\ pc[s] \in {"before", "refused"}
           /\ pc'[s] = "finished"
           /\ Others(s)
BY DEF StreamFinished, NotifyAll, Types, Others

LEMMA WakeStage ==
    ASSUME Types, NEW s \in Streams, WakesUp(s)
    PROVE  /\ pc[s] = "waiting"
           /\ pc'[s] = "woken"
           /\ Others(s)
BY DEF WakesUp, Types, Others

\* The other actions leave every presenter where it is.
LEMMA OtherSteps ==
    ASSUME \/ \E s \in Streams : Resync(s)
           \/ RequestStop \/ Tick \/ AdjustUtc \/ UNCHANGED vars
    PROVE  /\ UNCHANGED <<startVars, pc>>
           /\ m_started' = m_started
BY DEF Resync, RequestStop, Tick, AdjustUtc, vars, startVars, anchorVars

\* Next, by stage.
LEMMA Steps ==
    ASSUME [Next]_vars
    PROVE  \/ \E s \in Streams : Arrive(s)
           \/ \E s \in Streams : Resume(s)
           \/ \E s \in Streams : StreamFinished(s)
           \/ \E s \in Streams : WakesUp(s)
           \/ \E s \in Streams : Resync(s)
           \/ RequestStop \/ Tick \/ AdjustUtc \/ UNCHANGED vars
BY DEF Next, Expires, Interrupts, SpuriousWake

\* Who has reported after each step.
LEMMA ArrivedAfter ==
    ASSUME Types, Reported, NEW s \in Streams
    PROVE  /\ Arrive(s) => /\ s \notin Arrived
                           /\ Arrived' = Arrived \union {s}
                           /\ m_ready' = m_ready + 1 /\ m_expected' = m_expected
                           /\ Finished' = Finished
           /\ Resume(s) \/ WakesUp(s) =>
                           /\ Arrived' = Arrived /\ Finished' = Finished
                           /\ m_ready' = m_ready /\ m_expected' = m_expected
           /\ StreamFinished(s) =>
                           /\ Arrived' = Arrived
                           /\ s \notin Finished
                           /\ Finished' = Finished \union {s}
                           /\ m_ready' = m_ready /\ m_expected' = m_expected - 1
<1>1. ASSUME Arrive(s)
      PROVE  /\ s \notin Arrived
             /\ Arrived' = Arrived \union {s}
             /\ m_ready' = m_ready + 1 /\ m_expected' = m_expected
             /\ Finished' = Finished
    <2>1. PICK pts \in Pts : first' = [first EXCEPT ![s] = pts]
        BY <1>1 DEF Arrive
    <2>2. Arrived' = Arrived \union {s}
        BY <2>1, Constants DEF Arrived, Types
    <2>3. Finished' = Finished
        BY <1>1, ArriveStage DEF Finished, Others
    <2>4. QED
        BY <1>1, <2>2, <2>3 DEF Arrive, Reported
<1>2. ASSUME Resume(s) \/ WakesUp(s)
      PROVE  /\ Arrived' = Arrived /\ Finished' = Finished
             /\ m_ready' = m_ready /\ m_expected' = m_expected
    <2>1. Finished' = Finished
        BY <1>2, ResumeStage, WakeStage DEF Finished, Others
    <2>2. QED
        BY <1>2, <2>1 DEF Resume, WakesUp, startVars, Arrived
<1>3. ASSUME StreamFinished(s)
      PROVE  /\ Arrived' = Arrived
             /\ s \notin Finished
             /\ Finished' = Finished \union {s}
             /\ m_ready' = m_ready /\ m_expected' = m_expected - 1
    <2>1. s \notin Finished /\ Finished' = Finished \union {s}
        BY <1>3, FinishStage DEF Finished, Others
    <2>2. QED
        BY <1>3, <2>1 DEF StreamFinished, Arrived
<1>4. QED
    BY <1>1, <1>2, <1>3

LEMMA CountedKept == Types /\ Reported /\ Counted /\ [Next]_vars => Counted'
<1> SUFFICES ASSUME Types, Reported, Counted, [Next]_vars
             PROVE  Counted'
    OBVIOUS
<1>0. Arrived \subseteq Streams /\ Finished \subseteq Streams
    BY DEF Arrived, Finished
<1>1. ASSUME NEW s \in Streams, Arrive(s)
      PROVE  Counted'
    BY <1>0, <1>1, ArrivedAfter, OneMoreStream DEF Counted
<1>2. ASSUME NEW s \in Streams, Resume(s) \/ WakesUp(s)
      PROVE  Counted'
    BY <1>2, ArrivedAfter DEF Counted
<1>3. ASSUME NEW s \in Streams, StreamFinished(s)
      PROVE  Counted'
    <2>1. Cardinality(Finished') = Cardinality(Finished) + 1
        BY <1>0, <1>3, ArrivedAfter, OneMoreStream
    <2>2. QED
        BY <1>0, <1>3, <2>1, ArrivedAfter, SomeStreams DEF Counted
<1>4. ASSUME UNCHANGED <<startVars, pc>>
      PROVE  Counted'
    BY <1>4 DEF Counted, startVars, Arrived, Finished
<1>5. QED
    BY <1>1, <1>2, <1>3, <1>4, Steps, OtherSteps

LEMMA ReportedKept == Types /\ Reported /\ [Next]_vars => Reported'
<1> SUFFICES ASSUME Types, Reported, [Next]_vars
             PROVE  Reported'
    OBVIOUS
<1>1. ASSUME NEW s \in Streams, Arrive(s)
      PROVE  Reported'
    BY <1>1, ArrivedAfter, ArriveStage DEF Reported, Others, Arrive
<1>2. ASSUME NEW s \in Streams, Resume(s)
      PROVE  Reported'
    BY <1>2, ArrivedAfter, ResumeStage DEF Reported, Others, Resume
<1>3. ASSUME NEW s \in Streams, StreamFinished(s)
      PROVE  Reported'
    BY <1>3, ArrivedAfter, FinishStage DEF Reported, Others, StreamFinished
<1>4. ASSUME NEW s \in Streams, WakesUp(s)
      PROVE  Reported'
    BY <1>4, ArrivedAfter, WakeStage DEF Reported, Others, WakesUp
<1>5. ASSUME UNCHANGED <<startVars, pc>>, stop' = stop \/ stop'
      PROVE  Reported'
    BY <1>5 DEF Reported, startVars, Arrived
<1>6. (RequestStop \/ Tick \/ AdjustUtc \/ UNCHANGED vars \/ \E s \in Streams : Resync(s))
          => (stop' = stop \/ stop')
    BY DEF RequestStop, Tick, AdjustUtc, vars, Resync
<1>7. QED
    BY <1>1, <1>2, <1>3, <1>4, <1>5, <1>6, Steps, OtherSteps

LEMMA MinKept == Types /\ Reported /\ MinIsEarliest /\ [Next]_vars => MinIsEarliest'
<1> SUFFICES ASSUME Types, Reported, MinIsEarliest, [Next]_vars
             PROVE  MinIsEarliest'
    OBVIOUS
<1>1. ASSUME NEW s \in Streams, Arrive(s)
      PROVE  MinIsEarliest'
    <2>1. PICK pts \in Pts : /\ first' = [first EXCEPT ![s] = pts]
                             /\ m_min_first_pts' = Earlier(m_min_first_pts, pts)
        BY <1>1 DEF Arrive
    <2>2. /\ Arrived' = Arrived \union {s} /\ s \notin Arrived
          /\ first'[s] = pts
          /\ \A t \in Arrived : first'[t] = first[t] /\ first[t] \in Int
        BY <1>1, <2>1, ArrivedAfter, Constants DEF Types, Arrived
    <2>3. pts \in Int /\ pts < NoPts /\ m_min_first_pts \in Int
        BY Constants, ClockAssumption DEF Types
    <2>4. \A t \in Arrived' : m_min_first_pts' <= first'[t]
        BY <2>1, <2>2, <2>3 DEF MinIsEarliest, Earlier
    <2>5. \E t \in Arrived' : m_min_first_pts' = first'[t]
        BY <2>1, <2>2, <2>3 DEF MinIsEarliest, Earlier
    <2>6. QED
        BY <2>2, <2>4, <2>5 DEF MinIsEarliest
<1>2. ASSUME NEW s \in Streams, Resume(s) \/ StreamFinished(s) \/ WakesUp(s)
      PROVE  MinIsEarliest'
    BY <1>2 DEF Resume, StreamFinished, WakesUp, startVars, MinIsEarliest, Arrived
<1>3. ASSUME UNCHANGED startVars
      PROVE  MinIsEarliest'
    BY <1>3 DEF startVars, MinIsEarliest, Arrived
<1>4. QED
    BY <1>1, <1>2, <1>3, Steps, OtherSteps

LEMMA StartAnchors ==
    ASSUME Types, StartLocked
    PROVE  /\ m_utc_epoch_100ns' = (m_epoch' + anchorOffset') * 10
           /\ m_epoch' = now + Preroll
           /\ m_origin_us' = m_min_first_pts'
           /\ m_started'
BY DEF StartLocked, UtcNow100ns

LEMMA AnchorsKept == Types /\ AnchorsAgree /\ [Next]_vars => AnchorsAgree'
<1> SUFFICES ASSUME Types, AnchorsAgree, [Next]_vars
             PROVE  AnchorsAgree'
    OBVIOUS
<1>1. ASSUME UNCHANGED anchorVars
      PROVE  AnchorsAgree'
    BY <1>1 DEF anchorVars, AnchorsAgree
<1>2. ASSUME NEW s \in Streams, Arrive(s) \/ Resume(s)
      PROVE  AnchorsAgree'
    <2>1. UNCHANGED anchorVars \/ StartLocked
        BY <1>2 DEF Arrive, Resume, Decide
    <2>2. QED
        BY <1>1, <2>1, StartAnchors DEF AnchorsAgree
<1>3. ASSUME NEW s \in Streams, Resync(s)
      PROVE  AnchorsAgree'
    <2>1. PICK pts \in Pts, when \in 0..now :
             /\ m_epoch' = when - (pts - m_origin_us)
             /\ m_utc_epoch_100ns' = UtcNow100ns(when) - (pts - m_origin_us) * 10
        BY <1>3 DEF Resync
    <2>2. when \in Int /\ pts \in Int /\ m_origin_us \in Int /\ utcOffset \in Int
        BY Constants DEF Types
    <2>3. anchorOffset' = utcOffset
        BY <1>3 DEF Resync
    <2>4. QED
        BY <2>1, <2>2, <2>3 DEF AnchorsAgree, UtcNow100ns
<1>4. ASSUME \E s \in Streams : StreamFinished(s) \/ WakesUp(s)
      PROVE  UNCHANGED anchorVars
    BY <1>4 DEF StreamFinished, WakesUp
<1>5. ASSUME RequestStop \/ Tick \/ AdjustUtc \/ UNCHANGED vars
      PROVE  UNCHANGED anchorVars
    BY <1>5 DEF RequestStop, Tick, AdjustUtc, vars
<1>6. QED
    BY <1>1, <1>2, <1>3, <1>4, <1>5, Steps

\* Starting the clock, or finding it started, leaves nobody waiting; and whoever
\* begins to wait has found the clock stopped and a stream missing.
LEMMA DecideWakes ==
    ASSUME Types, NoNeedlessWait, NEW s \in Streams, pc[s] # "waiting",
           NEW threads \in {NotifyAll, pc}, Decide(s, threads)
    PROVE  /\ m_started' => \A t \in Streams : pc'[t] # "waiting"
           /\ pc'[s] = "waiting" => ~(m_ready' >= m_expected)
<1>1. CASE m_started
    <2>1. \A t \in Streams : threads[t] # "waiting"
        BY <1>1 DEF NotifyAll, NoNeedlessWait
    <2>2. QED
        BY <1>1, <2>1 DEF Decide, Types, NotifyAll
<1>2. CASE ~m_started /\ MustStart
    BY <1>2 DEF Decide, Types, NotifyAll
<1>3. CASE ~m_started /\ ~MustStart
    <2>1. ~m_started' /\ ~(m_ready' >= m_expected)
        BY <1>3 DEF Decide, MustStart, anchorVars
    <2>2. QED
        BY <2>1
<1>4. QED
    BY <1>1, <1>2, <1>3

LEMMA WaitKept ==
    Types /\ NoNeedlessWait /\ [Next]_vars => NoNeedlessWait'
<1> SUFFICES ASSUME Types, NoNeedlessWait, [Next]_vars
             PROVE  NoNeedlessWait'
    OBVIOUS
<1>1. ASSUME NEW s \in Streams, Arrive(s)
      PROVE  NoNeedlessWait'
    <2>1. /\ pc[s] = "before" /\ Decide(s, NotifyAll) /\ m_expected' = m_expected
        BY <1>1 DEF Arrive
    <2>2. \A t \in Streams \ {s} : pc'[t] # "waiting"
        BY <2>1 DEF Decide, NotifyAll, Types, StartLocked
    <2>3. /\ m_started' => \A t \in Streams : pc'[t] # "waiting"
          /\ pc'[s] = "waiting" => ~(m_ready' >= m_expected)
        BY <2>1, DecideWakes
    <2>4. QED
        BY <2>1, <2>2, <2>3 DEF NoNeedlessWait
<1>2. ASSUME NEW s \in Streams, Resume(s)
      PROVE  NoNeedlessWait'
    <2>1. /\ pc[s] = "woken" /\ UNCHANGED <<m_expected, m_ready>>
          /\ \A t \in Streams \ {s} : pc'[t] = "waiting" => pc[t] = "waiting"
        BY <1>2, ResumeStage DEF Resume, startVars, Others
    <2>2. CASE Decide(s, pc)
        <3>1. /\ m_started' => \A t \in Streams : pc'[t] # "waiting"
              /\ pc'[s] = "waiting" => ~(m_ready' >= m_expected)
            BY <2>1, <2>2, DecideWakes
        <3>2. QED
            BY <2>1, <3>1 DEF NoNeedlessWait
    <2>3. CASE UNCHANGED anchorVars /\ pc' = [pc EXCEPT ![s] = "refused"]
        BY <2>1, <2>3 DEF NoNeedlessWait, anchorVars, Types
    <2>4. QED
        BY <1>2, <2>2, <2>3 DEF Resume
<1>3. ASSUME NEW s \in Streams, StreamFinished(s)
      PROVE  NoNeedlessWait'
    BY <1>3 DEF StreamFinished, NotifyAll, NoNeedlessWait, Types
<1>4. ASSUME NEW s \in Streams, WakesUp(s)
      PROVE  NoNeedlessWait'
    BY <1>4, WakeStage DEF WakesUp, startVars, anchorVars, NoNeedlessWait, Others
<1>5. ASSUME UNCHANGED <<startVars, pc>>, m_started' = m_started
      PROVE  NoNeedlessWait'
    BY <1>5 DEF startVars, NoNeedlessWait
<1>6. QED
    BY <1>1, <1>2, <1>3, <1>4, <1>5, Steps, OtherSteps

LEMMA StepHolds == IInv /\ [Next]_vars => IInv'
BY TypesKept, CountedKept, ReportedKept, MinKept, AnchorsKept, WaitKept DEF IInv

LEMMA Invariance == Safety => []IInv
BY InitHolds, StepHolds, PTL DEF Safety
-----------------------------------------------------------------------------
\* Types, and counters that count each stream at most once (clock.cpp:29, 51).
THEOREM TypeCorrect == Safety => []TypeOK
<1>1. IInv => TypeOK
    <2> SUFFICES ASSUME IInv
                 PROVE  TypeOK
        OBVIOUS
    <2>1. Arrived \subseteq Streams /\ Finished \subseteq Streams
        BY DEF Arrived, Finished
    <2>2. m_ready \in 0..Cardinality(Streams) /\ m_expected \in 0..Cardinality(Streams)
        BY <2>1, SomeStreams DEF IInv, Counted
    <2>3. QED
        BY <2>2 DEF IInv, Types, TypeOK
<1>2. QED
    BY <1>1, Invariance, PTL

\* Deadlines and timecodes agree for every timestamp, whatever was resynchronized
\* and however UTC was adjusted (clock.cpp:55-78).
THEOREM TimecodesAgree == Safety => []TimecodeMatchesDue
<1>1. IInv => TimecodeMatchesDue
    <2> SUFFICES ASSUME IInv, m_started, NEW pts \in Pts
                 PROVE  Timecode(pts) = (DueTime(pts) + anchorOffset) * 10
        BY DEF TimecodeMatchesDue
    <2>1. /\ m_utc_epoch_100ns = (m_epoch + anchorOffset) * 10
          /\ m_epoch \in Int /\ anchorOffset \in Int /\ m_origin_us \in Int /\ pts \in Int
        BY Constants DEF IInv, Types, AnchorsAgree
    <2>2. QED
        BY <2>1 DEF Timecode, DueTime
<1>2. QED
    BY <1>1, Invariance, PTL

\* Nobody sleeps in WaitForStart without need (clock.cpp:32, 42, 52, 60).
THEOREM NobodyWaitsNeedlessly == Safety => []NoNeedlessWait
BY Invariance, PTL DEF IInv
-----------------------------------------------------------------------------
\* The step that starts the clock is a turn of the loop that had to start it.
LEMMA StartingStep ==
    ASSUME [Next]_vars, ~m_started, m_started'
    PROVE  \E s \in Streams : /\ Arrive(s) \/ Resume(s)
                              /\ ~(stop /\ Resume(s) /\ UNCHANGED anchorVars)
                              /\ MustStart /\ StartLocked
<1>1. \E s \in Streams : Arrive(s) \/ Resume(s)
    BY OtherSteps, Steps DEF StreamFinished, WakesUp, anchorVars
<1>2. ASSUME NEW s \in Streams, Arrive(s) \/ Resume(s)
      PROVE  /\ ~(UNCHANGED anchorVars)
             /\ MustStart /\ StartLocked
    BY <1>2 DEF Arrive, Resume, Decide, anchorVars
<1>3. QED
    BY <1>1, <1>2

\* Nothing ready at the start is late from the first instant, and the stream with
\* the earliest timestamp begins right after the preroll (clock.cpp:30, 55-61).
THEOREM NobodyStartsLate == Safety => FirstFramesOnTime
<1> DEFINE OnTime == (~m_started /\ m_started') =>
                        /\ \A s \in Arrived' : DueTime(first[s])' >= now + Preroll
                        /\ \E s \in Arrived' : DueTime(first[s])' = now + Preroll
<1>1. ASSUME IInv, IInv', [Next]_vars
      PROVE  OnTime
    <2> SUFFICES ASSUME ~m_started, m_started'
                 PROVE  /\ \A s \in Arrived' : DueTime(first[s])' >= now + Preroll
                        /\ \E s \in Arrived' : DueTime(first[s])' = now + Preroll
        OBVIOUS
    <2>1. PICK s \in Streams : (Arrive(s) \/ Resume(s)) /\ StartLocked
        BY <1>1, StartingStep
    <2>2. /\ m_epoch' = now + Preroll /\ m_origin_us' = m_min_first_pts'
        BY <1>1, <2>1, StartAnchors DEF IInv
    <2>3. s \in Arrived'
        BY <1>1, <2>1, ArrivedAfter, s \in Arrived \/ Arrive(s) DEF IInv, Resume, Reported
    <2>4. /\ \A t \in Arrived' : m_min_first_pts' <= first'[t]
          /\ \E t \in Arrived' : m_min_first_pts' = first'[t]
        BY <1>1, <2>3 DEF IInv, MinIsEarliest
    <2>5. /\ now + Preroll \in Int /\ m_min_first_pts' \in Int
          /\ \A t \in Arrived' : first'[t] \in Int
        BY <1>1, Constants DEF IInv, Types, Arrived
    <2>6. QED
        BY <2>2, <2>4, <2>5 DEF DueTime
<1>2. IInv /\ IInv' /\ [Next]_vars => [OnTime]_vars
    BY <1>1
<1>3. Safety => [][OnTime]_vars
    BY <1>2, Invariance, PTL DEF Safety
<1>4. QED
    BY <1>3 DEF FirstFramesOnTime

\* The clock does not start before every stream has reported or given up, unless
\* the timeout is over or a stop is under way (clock.cpp:29, 37, 51).
THEOREM NobodyIsForgotten == Safety => StartIsComplete
<1> DEFINE Complete ==
        (~m_started /\ m_started' /\ now < m_first_ready' + StartTimeout /\ ~stop) =>
            \A s \in Streams : s \in Arrived' \/ pc'[s] = "finished"
<1>1. ASSUME IInv, IInv', [Next]_vars
      PROVE  Complete
    <2> SUFFICES ASSUME ~m_started, m_started', now < m_first_ready' + StartTimeout, ~stop
                 PROVE  \A s \in Streams : s \in Arrived' \/ pc'[s] = "finished"
        OBVIOUS
    <2>1. PICK s \in Streams : (Arrive(s) \/ Resume(s)) /\ MustStart
        BY <1>1, StartingStep
    <2>2. now \in Int /\ m_first_ready' \in Int /\ StartTimeout \in Int
          /\ m_ready' \in Int /\ m_expected \in Int
        <3>1. Arrived' \subseteq Streams /\ Finished \subseteq Streams
            BY DEF Arrived, Finished
        <3>2. m_ready' \in Int /\ m_expected \in Int
            BY <1>1, <3>1, SomeStreams DEF IInv, Counted
        <3>3. now \in Int /\ m_first_ready' \in Int /\ StartTimeout \in Int
            BY <1>1, Constants DEF IInv, Types
        <3>4. QED
            BY <3>2, <3>3
    <2>3. m_ready' >= m_expected' /\ ~stop'
        <3>1. m_expected' = m_expected /\ stop' = stop
            BY <2>1 DEF Arrive, Resume, startVars
        <3>2. ~stop'
            BY <3>1
        <3>3. MustStart
            BY <2>1
        <3>4. m_ready' >= m_expected
            <4> DEFINE deadline == m_first_ready' + StartTimeout
            <4>1. deadline \in Int
                BY <2>2
            <4>2. now \in Int
                BY <2>2
            <4>3. now < deadline
                OBVIOUS
            <4> HIDE DEF deadline
            <4>4. ~(now >= deadline)
                BY <4>1, <4>2, <4>3
            <4>5. QED
                BY <3>3, <4>4 DEF MustStart, deadline
        <3>5. QED
            BY <3>1, <3>2, <3>4
    <2>4. /\ m_ready' = Cardinality(Arrived')
          /\ m_expected' = Cardinality(Streams) - Cardinality(Finished')
          /\ Arrived' \intersect Finished' = {}
        BY <1>1, <2>3 DEF IInv, Counted, Reported, Finished
    <2>5. Arrived' \subseteq Streams /\ Finished' \subseteq Streams
        BY DEF Arrived, Finished
    <2>6. Arrived' \union Finished' = Streams
        BY <2>3, <2>4, <2>5, CountsCover
    <2>7. QED
        BY <2>6 DEF Finished
<1>2. IInv /\ IInv' /\ [Next]_vars => [Complete]_vars
    BY <1>1
<1>3. Safety => [][Complete]_vars
    BY <1>2, Invariance, PTL DEF Safety
<1>4. QED
    BY <1>3 DEF StartIsComplete

\* The clock starts once, and only Resync moves it afterwards (clock.cpp:34-44).
THEOREM StartsOnlyOnce == Safety => StartsOnce
<1> DEFINE Once == m_started => /\ m_started'
                                /\ m_origin_us' = m_origin_us
                                /\ (m_epoch' # m_epoch) => \E s \in Streams : Resync(s)
<1>1. [Next]_vars => [Once]_vars
    <2>1. ASSUME [Next]_vars, m_started
          PROVE  Once
        <3>1. CASE \E s \in Streams : Arrive(s) \/ Resume(s) \/ StreamFinished(s) \/ WakesUp(s)
            <4>1. UNCHANGED anchorVars
                BY <2>1, <3>1 DEF Arrive, Resume, Decide, StreamFinished, WakesUp
            <4>2. QED
                BY <2>1, <4>1 DEF anchorVars
        <3>2. CASE \E s \in Streams : Resync(s)
            <4>1. UNCHANGED <<m_started, m_origin_us>>
                BY <3>2 DEF Resync
            <4>2. QED
                BY <2>1, <3>2, <4>1
        <3>3. CASE RequestStop \/ Tick \/ AdjustUtc \/ UNCHANGED vars
            <4>1. UNCHANGED anchorVars
                BY <3>3 DEF RequestStop, Tick, AdjustUtc, vars
            <4>2. QED
                BY <2>1, <4>1 DEF anchorVars
        <3>4. QED
            BY <2>1, <3>1, <3>2, <3>3, Steps
    <2>2. QED
        BY <2>1
<1>2. Safety => [][Once]_vars
    BY <1>1, PTL DEF Safety
<1>3. QED
    BY <1>2 DEF StartsOnce
=============================================================================
