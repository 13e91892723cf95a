-------------------------- MODULE PresentationProofs --------------------------
(***************************************************************************)
(* What Presentation guarantees for inputs of any length, any tolerances    *)
(* and any interleaving: types, no frame before its timecode, and files     *)
(* that are only ever delayed.                                             *)
(***************************************************************************)
EXTENDS Presentation, TLAPS

\* TypeOK in three parts, with what its parts need to be kept: the functions have
\* numbers for values, times that were read are past, a frame in hand was popped.
Scalars ==
    /\ input \in Inputs
    /\ now \in Times /\ m_epoch \in Int
    /\ stop \in BOOLEAN /\ m_audio_presenting \in BOOLEAN
    /\ m_audio_last_sent \in Times \union {NotYet}
    /\ last_sent \in Times \union {LongAgo}
    /\ moved \subseteq Streams

Locals ==
    /\ pc \in [Streams -> Places]
    /\ at \in [Streams -> Times] /\ taken \in [Streams -> Times]
    /\ due \in [Streams -> Int] /\ wake \in [Streams -> Int]

Counts ==
    /\ delivered \in [Streams -> Nat] /\ popped \in [Streams -> Nat]
    /\ \A x \in Streams : popped[x] <= delivered[x] /\ delivered[x] <= Len(Pts[x])
    /\ \A x \in Streams : at[x] <= now
    /\ \A x \in Streams : pc[x] \notin {"pop", "leave", "gone"} => popped[x] > 0

Types == Scalars /\ Locals /\ Counts

\* A deadline that was read and not moved since is the one in force.
DueIsCurrent ==
    \A x \in Streams :
        (pc[x] \in {"decide", "asleep", "resync"} /\ x \notin moved) => due[x] = DueTime(pts(x))

\* In a file no deadline was ever earlier than the frame's place in the file.
FileDeadlines ==
    ~m_live => \A x \in Streams :
        /\ pc[x] \in {"decide", "resync"} => due[x] >= pts(x)
        /\ pc[x] = "resync" => FarBehind(x)

IInv ==
    /\ Types
    /\ DueIsCurrent
    /\ FileDeadlines
    /\ EarlyOnlyAcrossResync
    /\ FileOnlyDelayed
    /\ FileNeverRunsAhead

-----------------------------------------------------------------------------
LEMMA InputFacts ==
  ASSUME input \in Inputs
  PROVE  /\ \A x \in Streams : Pts[x] \in Seq(Nat) /\ Len(Pts[x]) \in Nat
         /\ m_live \in BOOLEAN /\ input.until \in Nat
<1>1. input \in Input  BY PresentationAssumption
<1>2. input.pts \in [Streams -> Seq(Nat)] /\ m_live \in BOOLEAN /\ input.until \in Nat
  BY <1>1 DEF Input, Streams, m_live
<1> QED  BY <1>2 DEF Pts

\* Nothing changes the input.
LEMMA InputStays ==
  ASSUME UNCHANGED input
  PROVE  UNCHANGED <<Pts, m_live, Times>>
BY DEF Pts, m_live, Times

LEMMA PtsOfHand ==
  ASSUME Scalars, Counts, NEW x \in Streams, popped[x] > 0
  PROVE  pts(x) \in Nat
<1>1. Pts[x] \in Seq(Nat)  BY InputFacts DEF Scalars
<1>2. popped[x] \in 1..Len(Pts[x])  BY DEF Counts
<1> QED  BY <1>1, <1>2 DEF pts

\* The parts of Types say all that TypeOK does.
LEMMA TypesIsEnough == Types => TypeOK
BY DEF Types, Scalars, Locals, Counts, TypeOK

LEMMA InitHolds == Init => IInv
<1> SUFFICES ASSUME Init PROVE IInv  OBVIOUS
<1>0. input \in Inputs  BY DEF Init
<1>1. \A x \in Streams : Len(Pts[x]) \in Nat  BY <1>0, InputFacts
<1>2. 0 \in Times  BY <1>0, InputFacts DEF Times
<1>a. last_sent \in Times \union {LongAgo} /\ m_audio_last_sent \in Times \union {NotYet}
  BY DEF Init
<1>b. now \in Times /\ m_epoch \in Int  BY <1>2 DEF Init
<1>c. stop \in BOOLEAN /\ m_audio_presenting \in BOOLEAN /\ moved \subseteq Streams
  BY DEF Init
<1>3. Scalars  BY <1>0, <1>a, <1>b, <1>c DEF Scalars
<1>4. Locals  BY <1>2 DEF Init, Locals, Places
<1>5. Counts  BY <1>1 DEF Init, Counts
<1>6. DueIsCurrent /\ FileDeadlines /\ EarlyOnlyAcrossResync /\ FileOnlyDelayed /\ FileNeverRunsAhead
  BY DEF Init, DueIsCurrent, FileDeadlines, EarlyOnlyAcrossResync, FileOnlyDelayed, FileNeverRunsAhead
<1> QED  BY <1>3, <1>4, <1>5, <1>6 DEF IInv, Types

-----------------------------------------------------------------------------
\* A step of a presenter keeps each part of Types.
LEMMA ScalarsKept ==
  ASSUME Types, NEW x \in Streams, Presenter(x)
  PROVE  Scalars'
<1> USE DEF Types, Scalars, Presenter, Go, shared, Times
<1>0. CASE PopsFrame(x)  BY <1>0 DEF PopsFrame, ReadTime
<1>1. CASE PopsNothing(x)  BY <1>1 DEF PopsNothing
<1>2. CASE ReadsDue(x, "look", "judge") \/ ReadsDue(x, "waitDue", "decide")
  BY <1>2 DEF ReadsDue
<1>3. CASE x = "video" /\ Judges  BY <1>3 DEF Judges, Forget
<1>4. CASE LooksAtTime(x)  BY <1>4 DEF LooksAtTime, ReadTime
<1>5. CASE Decides(x)  BY <1>5 DEF Decides, Sleeps
<1>6. CASE Resyncs(x)
  <2>1. popped[x] > 0  BY <1>6 DEF Resyncs, Counts
  <2>2. pts(x) \in Nat  BY <2>1, PtsOfHand
  <2>3. m_epoch' \in Int
    BY <1>6, <2>2, PresentationAssumption DEF Resyncs, Locals
  <2> QED  BY <1>6, <2>3 DEF Resyncs
<1>7. CASE Awakes(x)  BY <1>7 DEF Awakes
<1>8. CASE TakesTimecode(x)  BY <1>8 DEF TakesTimecode
<1>9. CASE Sends(x)  BY <1>9 DEF Sends, Forget
<1>10. CASE Leaves(x)  BY <1>10 DEF Leaves, Forget
<1> QED
  BY <1>0, <1>1, <1>2, <1>3, <1>4, <1>5, <1>6, <1>7, <1>8, <1>9, <1>10 DEF Presents

LEMMA LocalsKept ==
  ASSUME Types, NEW x \in Streams, Presenter(x)
  PROVE  Locals'
<1>z. 0 \in Times /\ now \in Times  BY InputFacts DEF Times, Types, Scalars
<1>y. UNCHANGED Times  BY InputStays DEF Presenter
<1> USE <1>z, <1>y DEF Types, Locals, Presenter, Go, shared, Places
<1>0. CASE PopsFrame(x)  BY <1>0 DEF PopsFrame, ReadTime
<1>1. CASE PopsNothing(x)  BY <1>1 DEF PopsNothing
<1>2. ASSUME NEW place \in {"look", "waitDue"}, NEW next \in {"judge", "decide"},
             ReadsDue(x, place, next)
      PROVE  Locals'
  <2>1. popped[x] > 0  BY <1>2 DEF ReadsDue, Counts
  <2>2. DueTime(pts(x)) \in Int  BY <2>1, PtsOfHand DEF DueTime, Scalars
  <2>3. due' \in [Streams -> Int]  BY <1>2, <2>2 DEF ReadsDue
  <2> QED  BY <1>2, <2>3 DEF ReadsDue
<1>3. CASE x = "video" /\ Judges
  <2>1. CASE Forget("video")  BY <1>3, <2>1 DEF Judges, Forget
  <2>2. CASE UNCHANGED <<at, due, taken, moved>>  BY <1>3, <2>2 DEF Judges
  <2> QED  BY <1>3, <2>1, <2>2 DEF Judges
<1>4. CASE LooksAtTime(x)  BY <1>4 DEF LooksAtTime, ReadTime
<1>5. CASE Decides(x)
  <2>1. CASE UNCHANGED wake
    <3>1. pc' \in [Streams -> Places]  BY <1>5 DEF Decides, Sleeps
    <3> QED  BY <1>5, <2>1, <3>1 DEF Decides
  <2>2. CASE Sleeps(x)
    <3>1. wake' \in [Streams -> Int]
      BY <2>2, PresentationAssumption DEF Sleeps, Times
    <3> QED  BY <1>5, <2>2, <3>1 DEF Decides, Sleeps
  <2> QED  BY <1>5, <2>1, <2>2 DEF Decides
<1>6. CASE Resyncs(x)  BY <1>6 DEF Resyncs
<1>7. CASE Awakes(x)  BY <1>7 DEF Awakes
<1>8. CASE TakesTimecode(x)  BY <1>8 DEF TakesTimecode
<1>9. CASE Sends(x)  BY <1>9 DEF Sends, Forget
<1>10. CASE Leaves(x)  BY <1>10 DEF Leaves, Forget
<1> QED
  BY <1>0, <1>1, <1>2, <1>3, <1>4, <1>5, <1>6, <1>7, <1>8, <1>9, <1>10 DEF Presents

LEMMA CountsKept ==
  ASSUME Types, NEW x \in Streams, Presenter(x)
  PROVE  Counts'
<1>y. UNCHANGED <<Pts, Times>>  BY InputStays DEF Presenter
<1> USE <1>y DEF Types, Scalars, Locals, Counts, Presenter, Go, shared, Times
<1>0. CASE PopsFrame(x)
  <2>1. popped' \in [Streams -> Nat]  BY <1>0 DEF PopsFrame
  <2>2. popped[x] < delivered[x]  BY <1>0 DEF PopsFrame, Size
  <2>3. \A y \in Streams : popped'[y] <= delivered'[y] /\ delivered'[y] <= Len(Pts[y])
    BY <1>0, <2>2 DEF PopsFrame
  <2>4. \A y \in Streams : at'[y] <= now'
    <3>1. CASE ReadTime(x)  BY <3>1 DEF ReadTime
    <3>2. CASE UNCHANGED at  BY <3>2
    <3> QED  BY <1>0, <3>1, <3>2 DEF PopsFrame
  <2>5. \A y \in Streams : pc'[y] \notin {"pop", "leave", "gone"} => popped'[y] > 0
    BY <1>0 DEF PopsFrame
  <2> QED  BY <1>0, <2>1, <2>3, <2>4, <2>5
<1>1. CASE PopsNothing(x)  BY <1>1 DEF PopsNothing
<1>2. CASE ReadsDue(x, "look", "judge") \/ ReadsDue(x, "waitDue", "decide")
  BY <1>2 DEF ReadsDue
<1>3. CASE x = "video" /\ Judges
  <2>1. CASE Go("video", "pop") /\ Forget("video")  BY <1>3, <2>1 DEF Judges, Forget
  <2>2. CASE Go("video", "wait") /\ UNCHANGED <<at, due, taken, moved>>
    BY <1>3, <2>2 DEF Judges
  <2> QED  BY <1>3, <2>1, <2>2 DEF Judges
<1>4. CASE LooksAtTime(x)  BY <1>4 DEF LooksAtTime, ReadTime
<1>5. CASE Decides(x)  BY <1>5 DEF Decides, Sleeps
<1>6. CASE Resyncs(x)  BY <1>6 DEF Resyncs
<1>7. CASE Awakes(x)  BY <1>7 DEF Awakes
<1>8. CASE TakesTimecode(x)  BY <1>8 DEF TakesTimecode
<1>9. CASE Sends(x)  BY <1>9 DEF Sends, Forget
<1>10. CASE Leaves(x)  BY <1>10 DEF Leaves, Forget
<1> QED
  BY <1>0, <1>1, <1>2, <1>3, <1>4, <1>5, <1>6, <1>7, <1>8, <1>9, <1>10 DEF Presents

LEMMA TypesKept == Types /\ [Next]_vars => Types'
<1> SUFFICES ASSUME Types, [Next]_vars PROVE Types'  OBVIOUS
<1> USE DEF Types
<1>1. ASSUME NEW x \in Streams, Presenter(x)  PROVE Types'
  BY <1>1, ScalarsKept, LocalsKept, CountsKept
<1>2. ASSUME NEW x \in Streams, Delivers(x)  PROVE Types'
  <2>1. Len(Pts[x]) \in Nat  BY InputFacts DEF Scalars
  <2>2. Scalars'  BY <1>2, InputStays DEF Delivers, Scalars, shared
  <2>3. Locals'  BY <1>2, InputStays DEF Delivers, Locals, locals
  <2>4. Counts'  BY <1>2, <2>1, InputStays DEF Delivers, Counts, locals, shared
  <2> QED  BY <2>2, <2>3, <2>4
<1>3. CASE RequestStop
  BY <1>3, InputStays DEF RequestStop, locals, shared, Scalars, Locals, Counts
<1>4. CASE Tick
  <2>1. input.until \in Nat  BY InputFacts DEF Scalars
  <2>2. Scalars'  BY <1>4, <2>1, InputStays DEF Tick, Scalars, shared, Times
  <2>3. Locals'  BY <1>4, InputStays DEF Tick, Locals, locals
  <2>4. Counts'  BY <1>4, <2>1, InputStays DEF Tick, Counts, Locals, Scalars, Times, locals, shared
  <2> QED  BY <2>2, <2>3, <2>4
<1>5. CASE UNCHANGED vars
  BY <1>5, InputStays DEF vars, locals, shared, Scalars, Locals, Counts
<1> QED  BY ONLY [Next]_vars, <1>1, <1>2, <1>3, <1>4, <1>5 DEF Next

\* Types hold in every reachable state; and no presenter pops a frame its decoder
\* has not pushed.
THEOREM TypeCorrect == Spec => []TypeOK
<1>1. Init => Types  BY InitHolds DEF IInv
<1> QED  BY <1>1, TypesKept, TypesIsEnough, PTL DEF Spec
-----------------------------------------------------------------------------
\* What the steps of presenter x leave alone of the other's.
LEMMA OthersKept ==
  ASSUME Types, NEW x \in Streams, NEW y \in Streams \ {x}, Presenter(x)
  PROVE  /\ pc'[y] = pc[y] /\ at'[y] = at[y] /\ due'[y] = due[y]
         /\ popped'[y] = popped[y] /\ now' = now
         /\ (y \in moved => y \in moved')
         /\ (m_epoch' # m_epoch => y \in moved')
<1> USE DEF Types, Scalars, Locals, Counts, Presenter, Go, shared
<1>0. CASE PopsFrame(x)  BY <1>0 DEF PopsFrame, ReadTime
<1>1. CASE PopsNothing(x)  BY <1>1 DEF PopsNothing
<1>2. CASE ReadsDue(x, "look", "judge") \/ ReadsDue(x, "waitDue", "decide")
  BY <1>2 DEF ReadsDue
<1>3. CASE x = "video" /\ Judges  BY <1>3 DEF Judges, Forget
<1>4. CASE LooksAtTime(x)  BY <1>4 DEF LooksAtTime, ReadTime
<1>5. CASE Decides(x)  BY <1>5 DEF Decides, Sleeps
<1>6. CASE Resyncs(x)  BY <1>6 DEF Resyncs
<1>7. CASE Awakes(x)  BY <1>7 DEF Awakes
<1>8. CASE TakesTimecode(x)  BY <1>8 DEF TakesTimecode
<1>9. CASE Sends(x)  BY <1>9 DEF Sends, Forget
<1>10. CASE Leaves(x)  BY <1>10 DEF Leaves, Forget
<1> QED
  BY <1>0, <1>1, <1>2, <1>3, <1>4, <1>5, <1>6, <1>7, <1>8, <1>9, <1>10 DEF Presents

\* How presenter x comes to each place the invariant speaks of.
Arrives(x) ==
    /\ pc'[x] = "decide" => due'[x] = DueTime(pts(x)) /\ UNCHANGED <<popped, m_epoch>>
    /\ pc'[x] \in {"asleep", "resync"} =>
         pc[x] = "decide" /\ UNCHANGED <<at, due, popped, m_epoch, moved>>
    /\ pc'[x] = "resync" => FarBehind(x) \/ FarAhead(x)
    /\ pc'[x] = "timecode" =>
         \/ pc[x] = "decide" /\ at[x] >= due[x] /\ UNCHANGED <<popped, m_epoch, moved>>
         \/ pc[x] = "resync" /\ m_epoch' = at[x] - pts(x) /\ UNCHANGED popped
    /\ pc'[x] = "send" => pc[x] = "timecode" /\ UNCHANGED <<popped, m_epoch>>
    /\ m_epoch' # m_epoch => pc[x] = "resync" /\ m_epoch' = at[x] - pts(x)

LEMMA OwnSteps ==
  ASSUME Types, NEW x \in Streams, Presenter(x)
  PROVE  Arrives(x)
<1>z. pc \in [Streams -> Places]  BY DEF Types, Locals
<1> USE <1>z DEF Arrives, Presenter, Go, shared
<1>0. CASE PopsFrame(x)  BY <1>0 DEF PopsFrame
<1>1. CASE PopsNothing(x)  BY <1>1 DEF PopsNothing
<1>2. CASE ReadsDue(x, "look", "judge")  BY <1>2 DEF ReadsDue
<1>3. CASE ReadsDue(x, "waitDue", "decide")
  BY <1>3 DEF ReadsDue, Types, Locals
<1>4. CASE x = "video" /\ Judges  BY <1>4 DEF Judges
<1>5. CASE LooksAtTime(x)  BY <1>5 DEF LooksAtTime
<1>6. CASE Decides(x)  BY <1>6 DEF Decides, Sleeps
<1>7. CASE Resyncs(x)  BY <1>7 DEF Resyncs
<1>8. CASE Awakes(x)  BY <1>8 DEF Awakes
<1>9. CASE TakesTimecode(x)  BY <1>9 DEF TakesTimecode
<1>10. CASE Sends(x)  BY <1>10 DEF Sends
<1>11. CASE Leaves(x)  BY <1>11 DEF Leaves
<1> QED
  BY <1>0, <1>1, <1>2, <1>3, <1>4, <1>5, <1>6, <1>7, <1>8, <1>9, <1>10, <1>11 DEF Presents

-----------------------------------------------------------------------------
\* A deadline stays current until the clock is moved, which marks it.
LEMMA DueKept ==
  ASSUME Types, DueIsCurrent, NEW x \in Streams, Presenter(x)
  PROVE  DueIsCurrent'
<1>i. UNCHANGED <<Pts, m_live, Times>>  BY InputStays DEF Presenter
<1> USE <1>i
<1> SUFFICES ASSUME NEW y \in Streams, pc'[y] \in {"decide", "asleep", "resync"}, y \notin moved'
             PROVE  due'[y] = DueTime(pts(y))'
  BY DEF DueIsCurrent
<1>1. CASE y = x
  BY <1>1, OwnSteps DEF Arrives, DueIsCurrent, DueTime, pts
<1>2. CASE y # x
  <2>1. /\ pc'[y] = pc[y] /\ due'[y] = due[y] /\ popped'[y] = popped[y]
        /\ y \notin moved /\ m_epoch' = m_epoch
    BY <1>2, OthersKept
  <2> QED  BY <2>1 DEF DueIsCurrent, DueTime, pts
<1> QED  BY <1>1, <1>2

\* Whoever reaches "timecode" without a move has waited for the deadline.
LEMMA EarlyKept ==
  ASSUME Types, DueIsCurrent, EarlyOnlyAcrossResync, NEW x \in Streams, Presenter(x)
  PROVE  EarlyOnlyAcrossResync'
<1>i. UNCHANGED <<Pts, m_live, Times>>  BY InputStays DEF Presenter
<1> USE <1>i
<1> SUFFICES ASSUME NEW y \in Streams, pc'[y] = "timecode", y \notin moved'
             PROVE  Timecode(pts(y))' <= now'
  BY DEF EarlyOnlyAcrossResync
<1>t. now' = now  BY DEF Presenter
<1>1. CASE y = x
  <2>0. at[x] <= now /\ at[x] \in Int /\ now \in Int /\ m_epoch \in Int /\ due[x] \in Int
    BY DEF Types, Scalars, Locals, Counts, Times
  <2>1. CASE pc[x] = "decide" /\ at[x] >= due[x] /\ UNCHANGED <<popped, m_epoch, moved>>
    <3>1. due[x] = DueTime(pts(x))  BY <1>1, <2>1 DEF DueIsCurrent
    <3> QED  BY <1>t, <1>1, <2>0, <2>1, <3>1 DEF DueTime, Timecode, pts
  <2>2. CASE pc[x] = "resync" /\ m_epoch' = at[x] - pts(x) /\ UNCHANGED popped
    <3>1. pts(x) \in Nat /\ pts(x)' = pts(x)
      BY <2>2, PtsOfHand DEF Types, Counts, pts
    <3> QED  BY <1>t, <1>1, <2>0, <2>2, <3>1 DEF Timecode
  <2> QED  BY <1>1, <2>1, <2>2, OwnSteps DEF Arrives
<1>2. CASE y # x
  <2>1. /\ pc'[y] = pc[y] /\ popped'[y] = popped[y]
        /\ y \notin moved /\ m_epoch' = m_epoch
    BY <1>2, OthersKept
  <2> QED  BY <1>t, <2>1 DEF EarlyOnlyAcrossResync, Timecode, pts
<1> QED  BY <1>1, <1>2

-----------------------------------------------------------------------------
\* In a file the schedule moves only for a frame that is too late, hence later.
LEMMA ScheduleKept ==
  ASSUME Types, FileDeadlines, FileOnlyDelayed, NEW x \in Streams, Presenter(x)
  PROVE  FileOnlyDelayed'
<1>i. UNCHANGED <<Pts, m_live, Times>>  BY InputStays DEF Presenter
<1> USE <1>i
<1> SUFFICES ASSUME ~m_live, m_epoch' # m_epoch PROVE m_epoch' > ResyncLate
  BY DEF FileOnlyDelayed
<1>1. pc[x] = "resync" /\ m_epoch' = at[x] - pts(x)  BY OwnSteps DEF Arrives
<1>2. due[x] >= pts(x) /\ at[x] - due[x] > ResyncLate
  BY <1>1 DEF FileDeadlines, FarBehind
<1>3. pts(x) \in Nat  BY <1>1, PtsOfHand DEF Types, Counts
<1>4. at[x] \in Int /\ due[x] \in Int  BY DEF Types, Locals, Times
<1>5. ResyncLate \in Nat  BY PresentationAssumption
<1> QED  BY <1>1, <1>2, <1>3, <1>4, <1>5

\* What is read in a file is a deadline no earlier than the frame's own place.
LEMMA DeadlinesKept ==
  ASSUME Types, FileDeadlines, FileOnlyDelayed, NEW x \in Streams, Presenter(x)
  PROVE  FileDeadlines'
<1>i. UNCHANGED <<Pts, m_live, Times>>  BY InputStays DEF Presenter
<1> USE <1>i
<1> SUFFICES ASSUME ~m_live, NEW y \in Streams, pc'[y] \in {"decide", "resync"}
             PROVE  /\ due'[y] >= pts(y)'
                    /\ pc'[y] = "resync" => FarBehind(y)'
  BY DEF FileDeadlines
<1>1. CASE y = x
  <2>1. CASE pc'[x] = "decide"
    <3>1. due'[x] = DueTime(pts(x)) /\ UNCHANGED <<popped, m_epoch>>
      BY <2>1, OwnSteps DEF Arrives
    <3>2. Types'  BY ScalarsKept, LocalsKept, CountsKept DEF Types
    <3>3. popped[x] > 0  BY <2>1, <3>1, <3>2 DEF Types, Counts
    <3>4. pts(x) \in Nat /\ pts(x)' = pts(x)
      BY <3>1, <3>3, PtsOfHand DEF Types, pts
    <3>5. m_epoch \in Nat
      BY PresentationAssumption DEF FileOnlyDelayed, Types, Scalars
    <3> QED  BY <1>1, <2>1, <3>1, <3>4, <3>5 DEF DueTime
  <2>2. CASE pc'[x] = "resync"
    <3>1. /\ pc[x] = "decide" /\ UNCHANGED <<at, due, popped>>
          /\ FarBehind(x)
      BY <2>2, OwnSteps DEF Arrives, FarAhead
    <3>2. due[x] >= pts(x)  BY <3>1 DEF FileDeadlines
    <3> QED  BY <1>1, <3>1, <3>2 DEF FarBehind, pts
  <2> QED  BY <1>1, <2>1, <2>2
<1>2. CASE y # x
  <2>1. /\ pc'[y] = pc[y] /\ due'[y] = due[y] /\ popped'[y] = popped[y] /\ at'[y] = at[y]
    BY <1>2, OthersKept
  <2> QED  BY <2>1 DEF FileDeadlines, FarBehind, pts
<1> QED  BY <1>1, <1>2

\* A frame of a file goes out after its deadline, or after a resync that was late.
LEMMA NeverAheadKept ==
  ASSUME Types, FileDeadlines, FileNeverRunsAhead, NEW x \in Streams, Presenter(x)
  PROVE  FileNeverRunsAhead'
<1>i. UNCHANGED <<Pts, m_live, Times>>  BY InputStays DEF Presenter
<1> USE <1>i
<1> SUFFICES ASSUME ~m_live, NEW y \in Streams, pc'[y] \in {"timecode", "send"}
             PROVE  now' >= pts(y)'
  BY DEF FileNeverRunsAhead
<1>t. now' = now  BY DEF Presenter
<1>1. CASE y = x
  <2>0. /\ at[x] <= now /\ at[x] \in Int /\ now \in Int /\ due[x] \in Int
        /\ ResyncLate \in Nat
    BY PresentationAssumption DEF Types, Scalars, Locals, Counts, Times
  <2>1. CASE pc[x] \in {"decide", "resync"} /\ at[x] >= due[x] /\ UNCHANGED popped
    <3>1. pts(x) \in Nat /\ pts(x)' = pts(x)
      BY <2>1, PtsOfHand DEF Types, Counts, pts
    <3>2. due[x] >= pts(x)  BY <2>1, <2>0, <3>1 DEF FileDeadlines
    <3> QED  BY <1>t, <1>1, <2>0, <2>1, <3>1, <3>2
  <2>2. CASE pc[x] = "timecode" /\ UNCHANGED popped
    BY <1>t, <1>1, <2>2 DEF FileNeverRunsAhead, pts
  <2>3. pc[x] = "resync" => at[x] >= due[x]
    BY <2>0 DEF FileDeadlines, FarBehind
  <2> QED  BY <1>1, <2>1, <2>2, <2>3, OwnSteps DEF Arrives
<1>2. CASE y # x
  <2>1. pc'[y] = pc[y] /\ popped'[y] = popped[y]  BY <1>2, OthersKept
  <2> QED  BY <1>t, <2>1 DEF FileNeverRunsAhead, pts
<1> QED  BY <1>1, <1>2

-----------------------------------------------------------------------------
LEMMA IInvKept == IInv /\ [Next]_vars => IInv'
<1> SUFFICES ASSUME IInv, [Next]_vars PROVE IInv'  OBVIOUS
<1> USE DEF IInv
<1>t. Types'  BY TypesKept
<1>1. ASSUME NEW x \in Streams, Presenter(x)  PROVE IInv'
  BY <1>t, <1>1, DueKept, EarlyKept, ScheduleKept, DeadlinesKept, NeverAheadKept
<1>2. CASE UNCHANGED <<input, locals, shared>> /\ now' >= now
  <2>i. UNCHANGED <<Pts, m_live, Times>>  BY <1>2, InputStays
  <2> USE <2>i
  <2>1. DueIsCurrent' /\ FileDeadlines'
    BY <1>2 DEF DueIsCurrent, FileDeadlines, FarBehind, DueTime, pts, locals, shared
  <2>2. FileOnlyDelayed'  BY <1>2 DEF FileOnlyDelayed, shared
  <2>3. now \in Nat /\ now' \in Nat /\ m_epoch \in Int
    BY <1>t, PresentationAssumption DEF Types, Scalars, Times
  <2>4. ASSUME NEW y \in Streams, popped[y] > 0
        PROVE  pts(y) \in Nat /\ pts(y)' = pts(y)
    BY <1>2, <2>4, PtsOfHand DEF Types, pts, shared
  <2>5. ASSUME NEW y \in Streams, pc[y] \in {"timecode", "send"}
        PROVE  popped[y] > 0
    BY <2>5 DEF Types, Counts
  <2>6. EarlyOnlyAcrossResync'
    BY <1>2, <2>3, <2>4, <2>5 DEF EarlyOnlyAcrossResync, Timecode, locals, shared
  <2>7. FileNeverRunsAhead'
    BY <1>2, <2>3, <2>4, <2>5 DEF FileNeverRunsAhead, locals, shared
  <2> QED  BY <1>t, <2>1, <2>2, <2>6, <2>7
<1>3. now \in Nat  BY PresentationAssumption DEF Types, Scalars, Times
<1>4. ASSUME NEW x \in Streams, Delivers(x)  PROVE IInv'
  BY <1>2, <1>3, <1>4 DEF Delivers
<1>5. CASE RequestStop  BY <1>2, <1>3, <1>5 DEF RequestStop
<1>6. CASE Tick  BY <1>2, <1>3, <1>6 DEF Tick
<1>7. CASE UNCHANGED vars  BY <1>2, <1>3, <1>7 DEF vars
<1> QED  BY ONLY [Next]_vars, <1>1, <1>4, <1>5, <1>6, <1>7 DEF Next

\* No frame is given a timecode of the future, whatever the other presenter does
\* meanwhile, unless it moved the clock: WaitUntilDue waits for what it read.
THEOREM NothingIsEarly == Spec => []EarlyOnlyAcrossResync
BY InitHolds, IInvKept, PTL DEF Spec, IInv

\* However often and by whom the clock of a file is resynced, no frame is sent
\* before its own place in the file.
THEOREM FilesNeverRunAhead == Spec => []FileNeverRunsAhead
BY InitHolds, IInvKept, PTL DEF Spec, IInv

\* A resync of a file only ever moves the schedule later than it was at the start.
THEOREM FilesAreOnlyDelayed == Spec => []FileOnlyDelayed
BY InitHolds, IInvKept, PTL DEF Spec, IInv
-----------------------------------------------------------------------------
\* The picture in hand, from its arrival to the decision to sleep.
Looking == pc["video"] \in {"look", "judge", "wait", "waitDue", "decide"}
AudioIsSending == pc["audio"] \in {"timecode", "send"}

\* Until when audio may keep the picture waiting.
Patience == LaterOf(taken["video"], m_audio_last_sent) + AudioMasterIdle + MaxSleepStep

\* Audio is about to send, which renews the patience; or t is within it; or video is
\* master already, and its deadline no further ahead than is tolerated.
WithinReach(t) ==
    \/ AudioIsSending
    \/ t <= Patience
    \/ t <= Patience + ResyncEarly /\ DueTime(pts("video")) <= Patience + ResyncEarly

\* A deadline that audio has moved since it was read: audio is sending, or just has.
ReadDeadline ==
    /\ pc["video"] \in {"waitDue", "decide"} => at["video"] = now
    /\ pc["video"] = "decide" =>
         \/ due["video"] = DueTime(pts("video"))
         \/ AudioIsSending \/ m_audio_last_sent = now

HeldBack ==
    /\ Looking => WithinReach(now)
    /\ pc["video"] = "asleep" =>
         /\ now <= wake["video"]
         /\ wake["video"] <= at["video"] + MaxSleepStep
         /\ WithinReach(wake["video"])
    /\ Looking \/ pc["video"] = "asleep" => now <= Patience + ResyncEarly

\* Of a live input whose presenters lose no time.
Patient == input.urgent /\ m_live => ReadDeadline /\ HeldBack

\* The numbers of the invariant are numbers.
Reckoned ==
    /\ Patience \in Int /\ now \in Nat /\ m_audio_last_sent \in Int /\ m_epoch \in Int
    /\ at["video"] \in Nat /\ due["video"] \in Int /\ wake["video"] \in Int
    /\ at["video"] <= now
    /\ taken["video"] + AudioMasterIdle + MaxSleepStep <= Patience
    /\ m_audio_last_sent + AudioMasterIdle + MaxSleepStep <= Patience

LEMMA Tolerances ==
    ResyncEarly \in Nat /\ AudioMasterIdle \in Nat /\ MaxSleepStep \in Nat \ {0}
BY PresentationAssumption

LEMMA ReckonedHolds == Types => Reckoned
<1> SUFFICES ASSUME Types PROVE Reckoned  OBVIOUS
<1>1. "video" \in Streams /\ Times \subseteq Nat /\ NotYet \in Int
  BY InputFacts DEF Streams, Times, NotYet, Types, Scalars
<1>2. now \in Times /\ m_audio_last_sent \in Times \union {NotYet} /\ m_epoch \in Int
  BY DEF Types, Scalars
<1>3. /\ taken["video"] \in Times /\ at["video"] \in Times
      /\ due["video"] \in Int /\ wake["video"] \in Int
  BY <1>1 DEF Types, Locals
<1>4. taken["video"] \in Int /\ m_audio_last_sent \in Int /\ now \in Nat /\ at["video"] \in Nat
  <2>1. m_audio_last_sent \in Int  BY <1>1, <1>2
  <2>2. taken["video"] \in Nat /\ at["video"] \in Nat /\ now \in Nat  BY <1>1, <1>2, <1>3, Zenon
  <2> QED  BY <2>1, <2>2
<1>5. at["video"] <= now  BY <1>1 DEF Types, Counts
<1>6. /\ Patience \in Int
      /\ taken["video"] + AudioMasterIdle + MaxSleepStep <= Patience
      /\ m_audio_last_sent + AudioMasterIdle + MaxSleepStep <= Patience
  <2>1. PICK a, b : a = taken["video"] /\ b = m_audio_last_sent  OBVIOUS
  <2>2. a \in Int /\ b \in Int  BY <1>4, <2>1
  <2>3. Patience = LaterOf(a, b) + AudioMasterIdle + MaxSleepStep  BY <2>1 DEF Patience
  <2>4. LaterOf(a, b) \in Int /\ a <= LaterOf(a, b) /\ b <= LaterOf(a, b)  BY <2>2 DEF LaterOf
  <2> QED  BY <2>1, <2>2, <2>3, <2>4, Tolerances
<1> QED  BY <1>2, <1>3, <1>4, <1>5, <1>6 DEF Reckoned

\* What a step of the audio presenter does to the picture that waits.
LEMMA AudioSteps ==
  ASSUME Types, Presenter("audio")
  PROVE  /\ UNCHANGED <<pc["video"], at["video"], due["video"], wake["video"], taken["video"],
                        popped["video"], now, stop, input>>
         /\ \/ AudioIsSending' /\ UNCHANGED m_audio_last_sent
            \/ ~AudioIsSending /\ UNCHANGED <<m_epoch, m_audio_last_sent>>
            \/ m_audio_last_sent' = now /\ UNCHANGED m_epoch
<1>s. "audio" \in Streams /\ "video" \in Streams /\ "audio" # "video"  BY DEF Streams
<1> USE <1>s DEF Types, Scalars, Locals, Counts, Presenter, Go, shared, AudioIsSending
<1>0. CASE PopsFrame("audio")  BY <1>0 DEF PopsFrame
<1>1. CASE PopsNothing("audio")  BY <1>1 DEF PopsNothing
<1>2. CASE ReadsDue("audio", "waitDue", "decide")  BY <1>2 DEF ReadsDue
<1>4. CASE LooksAtTime("audio")  BY <1>4 DEF LooksAtTime, ReadTime
<1>5. CASE Decides("audio")  BY <1>5 DEF Decides, Sleeps
<1>6. CASE Resyncs("audio")  BY <1>6 DEF Resyncs
<1>7. CASE Awakes("audio")  BY <1>7 DEF Awakes
<1>8. CASE TakesTimecode("audio")  BY <1>8 DEF TakesTimecode
<1>9. CASE Sends("audio")  BY <1>9 DEF Sends, Forget
<1>10. CASE Leaves("audio")  BY <1>10 DEF Leaves, Forget
<1> QED
  BY <1>s, <1>0, <1>1, <1>2, <1>4, <1>5, <1>6, <1>7, <1>8, <1>9, <1>10 DEF Presents

\* Audio moves the clock only when it is about to send, and what it sends renews the
\* patience.
LEMMA PatientThroughAudio ==
  ASSUME Types, Types', ReadDeadline, HeldBack, Presenter("audio")
  PROVE  ReadDeadline' /\ HeldBack'
<1>a. UNCHANGED <<pc["video"], at["video"], due["video"], wake["video"], taken["video"],
                  popped["video"], now, stop, input>>
  BY AudioSteps
<1>p. pts("video")' = pts("video") /\ Looking' = Looking  BY <1>a DEF pts, Pts, Looking
<1>r. Reckoned'  BY ReckonedHolds, PTL
<1>1. CASE AudioIsSending' /\ UNCHANGED m_audio_last_sent
  <2>1. Patience' = Patience  BY <1>a, <1>1 DEF Patience
  <2>2. ReadDeadline'  BY <1>a, <1>1 DEF ReadDeadline
  <2>3. HeldBack'  BY <1>a, <1>p, <1>1, <2>1 DEF HeldBack, WithinReach
  <2> QED  BY <2>2, <2>3
<1>2. CASE ~AudioIsSending /\ UNCHANGED <<m_epoch, m_audio_last_sent>>
  <2>1. Patience' = Patience /\ DueTime(pts("video"))' = DueTime(pts("video"))
    BY <1>a, <1>p, <1>2 DEF Patience, DueTime
  <2>2. ReadDeadline'  BY <1>a, <1>2, <2>1 DEF ReadDeadline
  <2>3. HeldBack'  BY <1>a, <1>p, <1>2, <2>1 DEF HeldBack, WithinReach
  <2> QED  BY <2>2, <2>3
<1>3. CASE m_audio_last_sent' = now /\ UNCHANGED m_epoch
  <2>1. ReadDeadline'  BY <1>a, <1>3 DEF ReadDeadline
  <2>2. PICK P : P = Patience'  OBVIOUS
  <2>3. P \in Int /\ now \in Nat /\ now + AudioMasterIdle + MaxSleepStep <= P
    BY <1>a, <1>3, <1>r, <2>2 DEF Reckoned
  <2>4. now <= P /\ now <= P + ResyncEarly  BY <2>3, Tolerances
  <2>5. ASSUME pc["video"] = "asleep"
        PROVE  /\ now <= wake["video"] /\ wake["video"] <= at["video"] + MaxSleepStep
               /\ wake["video"] <= P
    <3>1. at["video"] <= now /\ at["video"] \in Nat /\ wake["video"] \in Int
      BY ReckonedHolds DEF Reckoned
    <3>2. now <= wake["video"] /\ wake["video"] <= at["video"] + MaxSleepStep
      BY <2>5 DEF HeldBack
    <3> QED  BY <2>3, <3>1, <3>2, Tolerances
  <2>6. HeldBack'  BY <1>a, <2>2, <2>4, <2>5 DEF HeldBack, WithinReach
  <2> QED  BY <2>1, <2>6
<1> QED  BY <1>1, <1>2, <1>3, AudioSteps

\* How the video presenter comes to each place of the invariant.
LEMMA VideoSteps ==
  ASSUME Types, Presenter("video")
  PROVE  /\ UNCHANGED <<pc["audio"], m_audio_last_sent, now, input>>
         /\ pc'["video"] = "look" => taken'["video"] = now
         /\ pc'["video"] \in {"judge", "wait", "waitDue", "decide"} =>
              /\ UNCHANGED <<taken["video"], popped["video"], m_epoch>>
              /\ Looking \/ (pc["video"] = "asleep" /\ now >= wake["video"])
         /\ pc'["video"] = "waitDue" => at'["video"] = now
         /\ pc'["video"] = "decide" =>
              /\ pc["video"] = "waitDue" /\ UNCHANGED at["video"]
              /\ due'["video"] = DueTime(pts("video"))
         /\ pc'["video"] = "asleep" =>
              /\ pc["video"] = "decide" /\ Sleeps("video")
              /\ at["video"] < due["video"]
              /\ AudioIsMaster \/ ~FarAhead("video")
              /\ UNCHANGED <<at, due, taken, popped, m_epoch>>
<1>s. "audio" \in Streams /\ "video" \in Streams /\ "audio" # "video"  BY DEF Streams
<1> USE <1>s DEF Types, Scalars, Locals, Counts, Presenter, Go, shared, Looking
<1>0. CASE PopsFrame("video")  BY <1>0 DEF PopsFrame
<1>1. CASE PopsNothing("video")  BY <1>1 DEF PopsNothing
<1>2. CASE ReadsDue("video", "look", "judge")  BY <1>2 DEF ReadsDue
<1>3. CASE ReadsDue("video", "waitDue", "decide")  BY <1>3 DEF ReadsDue
<1>4. CASE Judges  BY <1>4 DEF Judges, Forget
<1>5. CASE LooksAtTime("video")  BY <1>5 DEF LooksAtTime, ReadTime
<1>6. CASE Decides("video")
  <2>0. UNCHANGED <<pc["audio"], m_audio_last_sent, now, input>>  BY <1>6 DEF Decides, Sleeps
  <2>1. CASE pc'["video"] # "asleep"
    <3>1. pc'["video"] \in {"resync", "timecode"}  BY <1>6, <2>1 DEF Decides, Sleeps
    <3> QED  BY <2>0, <3>1
  <2>2. CASE pc'["video"] = "asleep"
    <3>1. /\ ~(Master("video") /\ (FarBehind("video") \/ FarAhead("video")))
          /\ ~(at["video"] >= due["video"]) /\ Sleeps("video")
          /\ UNCHANGED <<at, due, taken, shared>> /\ pc["video"] = "decide"
      BY <1>6, <2>2 DEF Decides
    <3>2. AudioIsMaster \/ ~FarAhead("video")  BY <3>1 DEF Master
    <3>3. at["video"] < due["video"]  BY <3>1 DEF Times
    <3> QED  BY <2>0, <2>2, <3>1, <3>2, <3>3
  <2> QED  BY <2>1, <2>2
<1>7. CASE Resyncs("video")  BY <1>7 DEF Resyncs
<1>8. CASE Awakes("video")  BY <1>8 DEF Awakes
<1>9. CASE TakesTimecode("video")  BY <1>9 DEF TakesTimecode
<1>10. CASE Sends("video")  BY <1>10 DEF Sends, Forget
<1>11. CASE Leaves("video")  BY <1>11 DEF Leaves, Forget
<1> QED
  BY <1>s, <1>0, <1>1, <1>2, <1>3, <1>4, <1>5, <1>6, <1>7, <1>8, <1>9, <1>10, <1>11 DEF Presents

\* Video looks, and sleeps no longer than it may: for a while, or to a deadline that
\* is within reach.
LEMMA PatientThroughVideo ==
  ASSUME Types, Types', m_live, ReadDeadline, HeldBack, Presenter("video")
  PROVE  ReadDeadline' /\ HeldBack'
<1>v. /\ UNCHANGED <<pc["audio"], m_audio_last_sent, now, input>>
      /\ pc'["video"] = "look" => taken'["video"] = now
      /\ pc'["video"] \in {"judge", "wait", "waitDue", "decide"} =>
           /\ UNCHANGED <<taken["video"], popped["video"], m_epoch>>
           /\ Looking \/ (pc["video"] = "asleep" /\ now >= wake["video"])
  BY VideoSteps
<1>r. Reckoned /\ Reckoned'  BY ReckonedHolds, PTL
<1>a. AudioIsSending' = AudioIsSending  BY <1>v DEF AudioIsSending
<1>1. CASE pc'["video"] = "look"
  <2>1. PICK P : P = Patience'  OBVIOUS
  <2>2. P \in Int /\ now \in Nat /\ now + AudioMasterIdle + MaxSleepStep <= P
    BY <1>1, <1>v, <1>r, <2>1 DEF Reckoned
  <2>3. now <= P /\ now <= P + ResyncEarly  BY <2>2, Tolerances
  <2> QED  BY <1>1, <1>v, <2>1, <2>3 DEF ReadDeadline, HeldBack, Looking, WithinReach
<1>2. CASE pc'["video"] \in {"judge", "wait", "waitDue", "decide"}
  <2>1. Patience' = Patience /\ DueTime(pts("video"))' = DueTime(pts("video"))
    BY <1>2, <1>v DEF Patience, DueTime, pts, Pts
  <2>2. WithinReach(now) /\ now <= Patience + ResyncEarly
    <3>1. CASE Looking  BY <3>1 DEF HeldBack
    <3>2. CASE pc["video"] = "asleep" /\ now >= wake["video"]
      <4>1. now = wake["video"]  BY <1>r, <3>2 DEF HeldBack, Reckoned
      <4> QED  BY <3>2, <4>1 DEF HeldBack
    <3> QED  BY <1>2, <1>v, <3>1, <3>2
  <2>3. HeldBack'
    BY <1>2, <1>v, <1>a, <2>1, <2>2 DEF HeldBack, Looking, WithinReach
  <2>4. /\ pc'["video"] = "waitDue" => at'["video"] = now
        /\ pc'["video"] = "decide" =>
             at'["video"] = now /\ due'["video"] = DueTime(pts("video"))
    BY VideoSteps DEF ReadDeadline
  <2>5. ReadDeadline'  BY <1>v, <2>1, <2>4 DEF ReadDeadline
  <2> QED  BY <2>3, <2>5
<1>3. CASE pc'["video"] = "asleep"
  <2>1. /\ pc["video"] = "decide" /\ Sleeps("video") /\ at["video"] < due["video"]
        /\ AudioIsMaster \/ ~FarAhead("video")
        /\ UNCHANGED <<at, due, taken, popped, m_epoch>>
    BY <1>3, VideoSteps
  <2>2. Patience' = Patience /\ DueTime(pts("video"))' = DueTime(pts("video"))
    BY <1>v, <2>1 DEF Patience, DueTime, pts, Pts
  <2>3. /\ at["video"] = now /\ WithinReach(now) /\ now <= Patience + ResyncEarly
        /\ \/ due["video"] = DueTime(pts("video"))
           \/ AudioIsSending \/ m_audio_last_sent = now
    BY <2>1 DEF ReadDeadline, HeldBack, Looking
  <2>4. PICK P, W, D : P = Patience /\ W = wake'["video"] /\ D = due["video"]  OBVIOUS
  <2>5. /\ W = IF D < now + MaxSleepStep THEN D ELSE now + MaxSleepStep
        /\ P \in Int /\ D \in Int /\ now \in Nat /\ now < D
        /\ m_audio_last_sent + AudioMasterIdle + MaxSleepStep <= P
        /\ m_audio_last_sent \in Int
    BY <1>r, <2>1, <2>3, <2>4 DEF Sleeps, Reckoned, Types, Locals, Streams
  <2>6. now <= W /\ W <= now + MaxSleepStep /\ W <= D /\ W \in Int  BY <2>5, Tolerances
  <2>7. WithinReach(W)
    <3>1. CASE AudioIsSending  BY <3>1 DEF WithinReach
    <3>2. CASE m_audio_last_sent = now
      <4>1. W <= P  BY <2>5, <2>6, <3>2, Tolerances
      <4> QED  BY <2>4, <4>1 DEF WithinReach
    <3>3. CASE AudioIsMaster
      <4>1. now - m_audio_last_sent < AudioMasterIdle  BY <3>3 DEF AudioIsMaster
      <4>2. W <= P  BY <2>5, <2>6, <4>1, Tolerances
      <4> QED  BY <2>4, <4>2 DEF WithinReach
    <3>4. CASE /\ ~AudioIsSending /\ ~FarAhead("video")
               /\ due["video"] = DueTime(pts("video"))
      <4>1. D <= now + ResyncEarly
        BY <2>3, <2>4, <2>5, <3>4, Tolerances DEF FarAhead
      <4>2. now <= P \/ D <= P + ResyncEarly
        BY <2>3, <2>4, <3>4 DEF WithinReach
      <4>3. D <= P + ResyncEarly  BY <2>5, <4>1, <4>2, Tolerances
      <4>4. W <= P + ResyncEarly  BY <2>5, <2>6, <4>3, Tolerances
      <4> QED  BY <2>4, <3>4, <4>3, <4>4 DEF WithinReach
    <3> QED  BY <2>1, <2>3, <3>1, <3>2, <3>3, <3>4
  <2>8. WithinReach(wake["video"])'
    BY <1>a, <2>2, <2>4, <2>7 DEF WithinReach
  <2>9. HeldBack'
    BY <1>3, <1>v, <2>1, <2>2, <2>3, <2>4, <2>6, <2>8 DEF HeldBack, Looking
  <2> QED  BY <1>3, <2>9 DEF ReadDeadline
<1>4. CASE pc'["video"] \notin {"look", "judge", "wait", "waitDue", "decide", "asleep"}
  BY <1>4 DEF ReadDeadline, HeldBack, Looking
<1> QED  BY <1>1, <1>2, <1>3, <1>4

\* Time passes only while the picture sleeps and audio is not sending.
LEMMA PatientThroughTick ==
  ASSUME Types, ReadDeadline, HeldBack, input.urgent, Tick
  PROVE  ReadDeadline' /\ HeldBack'
<1>1. /\ Rests("video") /\ Rests("audio") /\ now' = now + 1
      /\ UNCHANGED <<input, pc, at, due, wake, taken, m_epoch, m_audio_last_sent, popped>>
  BY DEF Tick, Streams, locals, shared
<1>2. /\ ~Looking /\ ~AudioIsSending
      /\ pc["video"] = "asleep" => now < wake["video"]
      /\ pc["video"] \notin {"waitDue", "decide"}
  BY <1>1 DEF Rests, Looking, AudioIsSending
<1>3. /\ Patience' = Patience /\ DueTime(pts("video"))' = DueTime(pts("video"))
      /\ ~Looking' /\ ~AudioIsSending'
  BY <1>1, <1>2 DEF Patience, DueTime, pts, Pts, Looking, AudioIsSending
<1>4. ReadDeadline'  BY <1>1, <1>2 DEF ReadDeadline
<1>5. ASSUME pc["video"] = "asleep"
      PROVE  /\ now + 1 <= wake["video"] /\ wake["video"] <= at["video"] + MaxSleepStep
             /\ WithinReach(wake["video"])
             /\ now + 1 <= Patience + ResyncEarly
  <2>1. PICK P, W : P = Patience /\ W = wake["video"]  OBVIOUS
  <2>2. P \in Int /\ W \in Int /\ now \in Nat  BY <2>1, ReckonedHolds DEF Reckoned
  <2>3. now < W /\ WithinReach(W) /\ W <= at["video"] + MaxSleepStep
    BY <1>2, <1>5, <2>1 DEF HeldBack
  <2>4. W <= P \/ W <= P + ResyncEarly  BY <1>2, <2>1, <2>3 DEF WithinReach
  <2>5. now + 1 <= W /\ now + 1 <= P + ResyncEarly  BY <2>2, <2>3, <2>4, Tolerances
  <2> QED  BY <2>1, <2>3, <2>5
<1>6. /\ pc'["video"] = pc["video"] /\ wake'["video"] = wake["video"] /\ at'["video"] = at["video"]
  BY <1>1
<1>7. ASSUME pc["video"] = "asleep" PROVE WithinReach(wake["video"])'
  <2>1. WithinReach(wake["video"])  BY <1>5, <1>7
  <2> QED  BY <1>2, <1>3, <1>6, <2>1 DEF WithinReach
<1>8. HeldBack'  BY <1>1, <1>3, <1>5, <1>6, <1>7 DEF HeldBack
<1> QED  BY <1>4, <1>8

LEMMA PatientKept == Types /\ Patient /\ [Next]_vars => Patient'
<1> SUFFICES ASSUME Types, Patient, [Next]_vars, (input.urgent /\ m_live)'
             PROVE  ReadDeadline' /\ HeldBack'
  BY DEF Patient
<1>t. Types'  BY TypesKept
<1>i. input' = input
  BY DEF Next, vars, Presenter, Delivers, RequestStop, Tick
<1>p. input.urgent /\ m_live /\ ReadDeadline /\ HeldBack  BY <1>i DEF Patient, m_live
<1>1. CASE Presenter("audio")  BY <1>1, <1>t, <1>p, PatientThroughAudio
<1>2. CASE Presenter("video")  BY <1>2, <1>t, <1>p, PatientThroughVideo
<1>3. CASE Tick  BY <1>3, <1>p, PatientThroughTick
<1>4. CASE UNCHANGED <<input, now, locals, shared>>
  <2>1. UNCHANGED <<Patience, Looking, AudioIsSending>> /\ DueTime(pts("video"))' = DueTime(pts("video"))
    BY <1>4 DEF Patience, DueTime, pts, Pts, Looking, AudioIsSending, locals, shared
  <2>2. ReadDeadline'  BY <1>4, <1>p, <2>1 DEF ReadDeadline, locals, shared
  <2>3. HeldBack'  BY <1>4, <1>p, <2>1 DEF HeldBack, WithinReach, locals, shared
  <2> QED  BY <2>2, <2>3
<1> QED  BY <1>1, <1>2, <1>3, <1>4 DEF Next, vars, Delivers, RequestStop, Streams

\* In a live input whose presenters lose no time, a picture that jumped ahead sleeps no
\* longer than audio may stay master since it last sent, and then the gap that is
\* tolerated: video takes over and moves the clock.
THEOREM JumpsAreTakenUp == Spec => [](input.urgent => JumpIsTakenUp)
<1>1. Init => Types /\ Patient
  BY InitHolds DEF IInv, Init, Patient, ReadDeadline, HeldBack, Looking, Streams
<1>2. Types /\ Patient => (input.urgent => JumpIsTakenUp)
  BY DEF Patient, HeldBack, JumpIsTakenUp, Patience
<1>3. (Types /\ Patient) /\ [Next]_vars => (Types /\ Patient)'
  BY TypesKept, PatientKept
<1> QED  BY <1>1, <1>2, <1>3, PTL DEF Spec
=============================================================================
