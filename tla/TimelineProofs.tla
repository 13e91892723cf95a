---------------------------- MODULE TimelineProofs ----------------------------
(***************************************************************************)
(* Passes that follow each other and blocks that join, for any input, any   *)
(* time bases and rates, and any number of passes: a conversion is off by    *)
(* half a unit, and however many there are, that never adds up.              *)
(***************************************************************************)
EXTENDS Timeline, WellFoundedInduction, TLAPS

-----------------------------------------------------------------------------
\* The values that mean no instant are numbers.
LEMMA Instants == NoTime \in Int /\ Never \in Int
BY SMT DEF NoTime, Never

\* Division of natural numbers rounds down.
LEMMA DivBounds ==
  ASSUME NEW x \in Nat, NEW c \in Nat \ {0}
  PROVE  x \div c \in Nat /\ c * (x \div c) <= x /\ x < c * (x \div c) + c
OBVIOUS

\* With the remainder it is exact.
LEMMA DivRest ==
  ASSUME NEW x \in Nat, NEW c \in Nat \ {0}
  PROVE  x \div c \in Nat /\ x % c \in Nat /\ x % c < c /\ (x \div c) * c + (x % c) = x
<1>1. x \div c \in Nat /\ x % c \in Nat /\ x % c < c /\ x = c * (x \div c) + (x % c)  OBVIOUS
<1> QED  BY <1>1

\* The half that av_rescale adds before it divides.
LEMMA HalfBounds ==
  ASSUME NEW c \in Nat \ {0}
  PROVE  c \div 2 \in Nat /\ 2 * (c \div 2) <= c /\ c <= 2 * (c \div 2) + 1
OBVIOUS

\* So the quotient is the nearest, halves away from zero:
LEMMA RescalePositive ==
  ASSUME NEW n \in Nat, NEW c \in Nat \ {0}
  PROVE  LET q == (n + c \div 2) \div c IN
         q \in Nat /\ 2 * (c * q) <= 2 * n + c /\ 2 * n <= 2 * (c * q) + c
<1> DEFINE h == c \div 2
           q == (n + h) \div c
<1>1. h \in Nat /\ 2 * h <= c /\ c <= 2 * h + 1  BY HalfBounds
<1> HIDE DEF h
<1>2. n + h \in Nat  BY <1>1
<1>3. q \in Nat /\ c * q <= n + h /\ n + h < c * q + c  BY <1>2, DivBounds
<1> HIDE DEF q
<1>4. PICK m : m = c * q  OBVIOUS
<1>5. m \in Nat  BY <1>3, <1>4
<1>6. 2 * m <= 2 * n + c /\ 2 * n <= 2 * m + c  BY <1>1, <1>3, <1>4, <1>5
<1> QED  BY <1>3, <1>4, <1>6 DEF q, h

\* av_rescale is off by a half at most, on either side of zero.
LEMMA RescaleBounds ==
  ASSUME NEW a \in Int, NEW b \in Nat, NEW c \in Nat \ {0}
  PROVE  LET q == Rescale(a, b, c) IN
         q \in Int /\ 2 * (c * q) <= 2 * (a * b) + c /\ 2 * (a * b) <= 2 * (c * q) + c
<1>1. CASE a >= 0
  <2>1. a * b \in Nat  BY <1>1
  <2> QED  BY <1>1, <2>1, RescalePositive DEF Rescale
<1>2. CASE ~(a >= 0)
  <2> DEFINE n == -a * b
             q == (n + c \div 2) \div c
  <2>1. n \in Nat /\ n = -(a * b) BY <1>2
  <2> HIDE DEF n
  <2>2. q \in Nat /\ 2 * (c * q) <= 2 * n + c /\ 2 * n <= 2 * (c * q) + c  BY <2>1, RescalePositive
  <2>3. Rescale(a, b, c) = -q  BY <1>2 DEF Rescale, n
  <2> HIDE DEF q
  <2>4. c * (-q) = -(c * q) /\ c * q \in Nat BY <2>2
  <2> QED  BY <2>1, <2>2, <2>3, <2>4
<1> QED  BY <1>1, <1>2

\* What multiplies a positive number by at least as much is at least as large.
LEMMA Cancel ==
  ASSUME NEW c \in Nat \ {0}, NEW k \in Int, NEW h \in Int, c * k < c * h + c
  PROVE  k <= h
<1> SUFFICES ASSUME k >= h + 1 PROVE FALSE  OBVIOUS
<1>1. PICK n \in Nat : k = h + 1 + n  <2>1. k - (h + 1) \in Nat OBVIOUS <2> QED BY <2>1
<1>2. c * k = c * h + c + c * n  BY <1>1
<1>3. c * n \in Nat  BY <1>1
<1> QED  BY <1>2, <1>3

\* There is no other quotient.
LEMMA Quotient ==
  ASSUME NEW x \in Nat, NEW c \in Nat \ {0}, NEW k \in Int, NEW y \in Nat, y < c, k * c + y = x
  PROVE  x \div c = k
<1> DEFINE q == x \div c
<1>1. q \in Nat /\ c * q <= x /\ x < c * q + c  BY DivBounds
<1> HIDE DEF q
<1>2. PICK A, B : A = c * q /\ B = c * k  OBVIOUS
<1>3. A \in Int /\ B \in Int /\ k * c = B  BY <1>1, <1>2
<1>4. A < B + c /\ B < A + c  BY <1>1, <1>2, <1>3
<1>5. q <= k /\ k <= q  BY <1>1, <1>2, <1>4, Cancel
<1> QED  BY <1>1, <1>5 DEF q

\* There and back again.
LEMMA RoundTrip ==
  ASSUME NEW us \in Int, NEW M \in Nat \ {0}, NEW T \in Nat \ {0}
  PROVE  LET back == Rescale(Rescale(us, T, M), M, T) IN
         /\ back \in Int
         /\ 2 * (T * (back - us)) <= M + T
         /\ 2 * (T * (us - back)) <= M + T
<1> DEFINE t == Rescale(us, T, M)
           back == Rescale(t, M, T)
<1>1. t \in Int /\ 2 * (M * t) <= 2 * (us * T) + M /\ 2 * (us * T) <= 2 * (M * t) + M
  BY RescaleBounds
<1> HIDE DEF t
<1>2. back \in Int /\ 2 * (T * back) <= 2 * (t * M) + T /\ 2 * (t * M) <= 2 * (T * back) + T
  BY <1>1, RescaleBounds
<1> HIDE DEF back
<1>3. PICK A, B, C : A = us * T /\ B = M * t /\ C = T * back  OBVIOUS
<1>4. t * M = B /\ A \in Int /\ B \in Int /\ C \in Int  BY <1>1, <1>2, <1>3
<1>5. T * (back - us) = C - A /\ T * (us - back) = A - C  BY <1>2, <1>3
<1>6. 2 * B <= 2 * A + M /\ 2 * A <= 2 * B + M  BY <1>1, <1>3
<1>7. 2 * C <= 2 * B + T /\ 2 * B <= 2 * C + T  BY <1>2, <1>3, <1>4
<1>8. 2 * (C - A) <= M + T /\ 2 * (A - C) <= M + T  BY <1>4, <1>6, <1>7
<1> QED  BY <1>2, <1>5, <1>8 DEF back, t

\* An instant in ticks that is moved by a number of microseconds, rounded to ticks.
LEMMA ShiftBounds ==
  ASSUME NEW a \in Int, NEW us \in Int, NEW M \in Nat \ {0}, NEW T \in Nat \ {0},
         NEW h \in Nat, M < 2 * (T * h)
  PROVE  LET d == Rescale(a + Rescale(us, T, M), M, T) - (Rescale(a, M, T) + us) IN
         d \in Int /\ d <= h /\ -d <= h
<1> DEFINE t == Rescale(us, T, M)
           m == Rescale(a + t, M, T)
           n == Rescale(a, M, T)
           d == m - (n + us)
<1>1. t \in Int /\ 2 * (M * t) <= 2 * (us * T) + M /\ 2 * (us * T) <= 2 * (M * t) + M
  BY RescaleBounds
<1> HIDE DEF t
<1>2. m \in Int /\ 2 * (T * m) <= 2 * ((a + t) * M) + T /\ 2 * ((a + t) * M) <= 2 * (T * m) + T
  BY <1>1, RescaleBounds
<1>3. n \in Int /\ 2 * (T * n) <= 2 * (a * M) + T /\ 2 * (a * M) <= 2 * (T * n) + T
  BY RescaleBounds
<1> HIDE DEF m, n
<1>4. PICK A, B, C, D, E : A = us * T /\ B = M * t /\ C = T * m /\ D = T * n /\ E = a * M
  OBVIOUS
<1>5. A \in Int /\ B \in Int /\ C \in Int /\ D \in Int /\ E \in Int
  BY <1>1, <1>2, <1>3, <1>4
<1>6. (a + t) * M = E + B  BY <1>1, <1>4
<1>7. 2 * B <= 2 * A + M /\ 2 * A <= 2 * B + M  BY <1>1, <1>4
<1>8. 2 * C <= 2 * (E + B) + T /\ 2 * (E + B) <= 2 * C + T  BY <1>2, <1>4, <1>6
<1>9. 2 * D <= 2 * E + T /\ 2 * E <= 2 * D + T  BY <1>3, <1>4
<1>10. d \in Int /\ T * d = C - D - A /\ T * (-d) = A + D - C  BY <1>2, <1>3, <1>4
<1> HIDE DEF d
<1>11. 2 * (C - D - A) <= 2 * T + M /\ 2 * (A + D - C) <= 2 * T + M
  BY <1>5, <1>7, <1>8, <1>9
<1>12. T * d < T * h + T /\ T * (-d) < T * h + T
  <2>1. T * h \in Nat  OBVIOUS
  <2> QED  BY <1>5, <1>10, <1>11, <2>1
<1>13. d <= h /\ -d <= h  BY <1>10, <1>12, Cancel
<1> QED  BY <1>10, <1>13 DEF d, m, n, t
-----------------------------------------------------------------------------
\* What MediaInput keeps of the pass and of its tracks.
Tracks ==
    /\ file \in Files /\ pass \in Seq(Packet)
    /\ m_first_pass \in BOOLEAN /\ (m_first_pass <=> passes = 1) /\ passes \in Nat \ {0}
    /\ m_offset_us \in Nat /\ m_pass_start_us \in Int /\ m_pass_end_us \in Int
    /\ reached \in Int /\ before \in Int
    /\ offset = [x \in Streams |-> FromMicros(m_offset_us, x)]

\* How far this pass reaches, as measured and as presented, and where it began.
Extent ==
    /\ m_pass_end_us = NoTime <=> reached = NoTime
    /\ m_pass_end_us # NoTime =>
         /\ reached - (m_pass_end_us + m_offset_us) <= MostRounding
         /\ (m_pass_end_us + m_offset_us) - reached <= MostRounding
    /\ before # NoTime
    /\ ~m_first_pass =>
         /\ before - (m_pass_start_us + m_offset_us) <= MostRounding
         /\ (m_pass_start_us + m_offset_us) - before <= MostRounding

\* The start of the first pass is where every pass begins.
Beginning ==
    \E w \in file :
        /\ Presented(pass) \subseteq Presented(w)
        /\ m_first_pass => \A p \in Presented(w) : p \in Presented(pass) \/ m_pass_start_us <= From(p)
        /\ m_pass_end_us # NoTime => Presented(w) # {}
        /\ ~m_first_pass => \A v \in file : \A p \in Presented(v) : m_pass_start_us <= From(p)

\* The packet read last is where it was put.
Placed ==
    shown # <<>> =>
        \E p \in Packet :
            /\ shown = <<[p EXCEPT !.pts = @ + offset[p.stream]]>>
            /\ ~m_first_pass => m_pass_start_us <= From(p)

Follow == Tracks /\ Extent /\ Beginning /\ Placed

-----------------------------------------------------------------------------
\* The constants are numbers.
LEMMA Numbers ==
  ASSUME NEW x \in Streams
  PROVE  /\ Micros \in Nat \ {0} /\ TicksPerSecond[x] \in Nat \ {0} /\ DefaultDuration[x] \in Nat
         /\ HalfTick(x) \in Nat /\ Micros < 2 * (TicksPerSecond[x] * HalfTick(x))
<1>1. Micros \in Nat \ {0} /\ TicksPerSecond[x] \in Nat \ {0} /\ DefaultDuration[x] \in Nat
  BY TimelineAssumption
<1> DEFINE T == TicksPerSecond[x]
           q == Micros \div (2 * T)
<1>2. T \in Nat \ {0} /\ 2 * T \in Nat \ {0}  BY <1>1
<1> HIDE DEF T
<1>3. q \in Nat /\ Micros < (2 * T) * q + 2 * T  BY <1>1, <1>2, DivBounds
<1> HIDE DEF q
<1>4. 2 * (T * (q + 1)) = (2 * T) * q + 2 * T  BY <1>2, <1>3
<1> QED  BY <1>1, <1>3, <1>4 DEF HalfTick, T, q

\* Neither track rounds by more.
LEMMA MostIsMost ==
    /\ MostRounding \in Nat
    /\ \A x \in Streams : HalfTick(x) \in Nat /\ HalfTick(x) <= MostRounding
BY Numbers DEF MostRounding, Later, Streams

\* Converted instants are numbers.
LEMMA Conversions ==
  ASSUME NEW x \in Streams, NEW a \in Int
  PROVE  ToMicros(a, x) \in Int /\ FromMicros(a, x) \in Int
BY Numbers, RescaleBounds DEF ToMicros, FromMicros

\* What an instant of a track is moved by differs from the shift by rounding alone.
LEMMA Moved ==
  ASSUME NEW x \in Streams, NEW a \in Int, NEW us \in Int
  PROVE  LET d == ToMicros(a + FromMicros(us, x), x) - (ToMicros(a, x) + us) IN
         d \in Int /\ d <= MostRounding /\ -d <= MostRounding
<1> DEFINE d == ToMicros(a + FromMicros(us, x), x) - (ToMicros(a, x) + us)
<1>1. d \in Int /\ d <= HalfTick(x) /\ -d <= HalfTick(x)
  BY Numbers, ShiftBounds DEF ToMicros, FromMicros
<1> HIDE DEF d
<1>2. d <= MostRounding /\ -d <= MostRounding  BY <1>1, MostIsMost
<1> QED  BY <1>1, <1>2 DEF d

\* The zero of a track is the zero of time.
LEMMA ZeroStays == \A x \in Streams : ToMicros(0, x) = 0 /\ FromMicros(0, x) = 0
<1> SUFFICES ASSUME NEW x \in Streams PROVE ToMicros(0, x) = 0 /\ FromMicros(0, x) = 0
  OBVIOUS
<1>1. ASSUME NEW b \in Nat, NEW c \in Nat \ {0} PROVE Rescale(0, b, c) = 0
  <2> DEFINE q == Rescale(0, b, c)
  <2>1. q \in Int /\ 2 * (c * q) <= c /\ 0 <= 2 * (c * q) + c  BY RescaleBounds
  <2> HIDE DEF q
  <2>2. c * q < c * 0 + c /\ c * (-q) < c * 0 + c  BY <2>1
  <2>3. q <= 0 /\ -q <= 0  BY <2>1, <2>2, Cancel
  <2> QED  BY <2>1, <2>3 DEF q
<1> QED  BY <1>1, Numbers DEF ToMicros, FromMicros

\* What a packet says of itself, in ticks.
LEMMA PacketParts ==
  ASSUME NEW p \in Packet
  PROVE  /\ p.stream \in Streams /\ p.pts \in Int
         /\ Rescale(p.skip, TicksPerSecond[p.stream], p.rate) \in Int
         /\ Rescale(p.trim, TicksPerSecond[p.stream], p.rate) \in Int
         /\ (IF p.duration > 0 THEN p.duration ELSE DefaultDuration[p.stream]) \in Int
<1>1. /\ p.stream \in Streams /\ p.pts \in Int /\ p.duration \in Nat /\ p.skip \in Int
      /\ p.trim \in Int /\ p.rate \in Nat \ {0}
  BY DEF Packet
<1>2. TicksPerSecond[p.stream] \in Nat /\ DefaultDuration[p.stream] \in Nat  BY <1>1, Numbers
<1>3. /\ Rescale(p.skip, TicksPerSecond[p.stream], p.rate) \in Int
      /\ Rescale(p.trim, TicksPerSecond[p.stream], p.rate) \in Int
  BY <1>1, <1>2, RescaleBounds
<1> QED  BY <1>1, <1>2, <1>3

\* The part of a packet that is presented.
LEMMA PacketTimes ==
  ASSUME NEW p \in Packet
  PROVE  Start(p) \in Int /\ End(p) \in Int /\ From(p) \in Int /\ Until(p) \in Int
<1>1. Start(p) \in Int /\ End(p) \in Int  BY PacketParts DEF Start, End
<1> QED  BY <1>1, PacketParts, Conversions DEF From, Until

\* A packet is moved as a whole.
LEMMA PacketMoves ==
  ASSUME NEW p \in Packet, NEW d \in Int
  PROVE  LET q == [p EXCEPT !.pts = @ + d] IN
         /\ q \in Packet /\ q.stream = p.stream
         /\ Start(q) = Start(p) + d /\ End(q) = End(p) + d
<1> DEFINE q == [p EXCEPT !.pts = @ + d]
<1>1. p.pts \in Int /\ p.pts + d \in Int  BY DEF Packet
<1>2. /\ q \in Packet /\ q.stream = p.stream /\ q.pts = p.pts + d /\ q.duration = p.duration
      /\ q.skip = p.skip /\ q.trim = p.trim /\ q.rate = p.rate
  BY <1>1 DEF Packet
<1> HIDE DEF q
<1>3. PICK a, b, c : /\ a = Rescale(p.skip, TicksPerSecond[p.stream], p.rate)
                     /\ b = Rescale(p.trim, TicksPerSecond[p.stream], p.rate)
                     /\ c = IF p.duration > 0 THEN p.duration ELSE DefaultDuration[p.stream]
  OBVIOUS
<1>4. a \in Int /\ b \in Int /\ c \in Int  BY <1>3, PacketParts
<1>5. Start(p) = p.pts + a /\ Start(q) = q.pts + a /\ End(p) = p.pts + c - b /\ End(q) = q.pts + c - b
  BY <1>2, <1>3 DEF Start, End
<1>6. Start(q) = Start(p) + d /\ End(q) = End(p) + d  BY <1>1, <1>2, <1>4, <1>5
<1> QED  BY <1>2, <1>6 DEF q

\* Where a packet is put, against where it was.
LEMMA ShiftedTimes ==
  ASSUME Tracks, NEW p \in Packet, p.pts # NoTime
  PROVE  /\ Shifted(p) = [p EXCEPT !.pts = @ + offset[p.stream]]
         /\ LET d == From(Shifted(p)) - (From(p) + m_offset_us) IN
            d \in Int /\ d <= MostRounding /\ -d <= MostRounding
         /\ LET d == Until(Shifted(p)) - (Until(p) + m_offset_us) IN
            d \in Int /\ d <= MostRounding /\ -d <= MostRounding
         /\ From(Shifted(p)) \in Int /\ Until(Shifted(p)) \in Int
<1>1. p.stream \in Streams /\ m_offset_us \in Int  BY DEF Packet, Tracks
<1>2. offset[p.stream] = FromMicros(m_offset_us, p.stream)  BY <1>1 DEF Tracks
<1>3. offset[p.stream] \in Int  BY <1>1, <1>2, Conversions
<1>4. Shifted(p) = [p EXCEPT !.pts = @ + offset[p.stream]]  BY DEF Shifted
<1>5. /\ Shifted(p) \in Packet /\ Shifted(p).stream = p.stream
      /\ Start(Shifted(p)) = Start(p) + FromMicros(m_offset_us, p.stream)
      /\ End(Shifted(p)) = End(p) + FromMicros(m_offset_us, p.stream)
  BY <1>2, <1>3, <1>4, PacketMoves
<1>6. Start(p) \in Int /\ End(p) \in Int  BY PacketTimes
<1>7. From(Shifted(p)) \in Int /\ Until(Shifted(p)) \in Int  BY <1>5, PacketTimes
<1> QED  BY <1>1, <1>4, <1>5, <1>6, <1>7, Moved DEF From, Until

-----------------------------------------------------------------------------
\* The packet that is read next, and the others.
LEMMA NextPacket ==
  ASSUME pass \in Seq(Packet), pass # <<>>
  PROVE  /\ Head(pass) \in Packet /\ Tail(pass) \in Seq(Packet)
         /\ \A q : q \in Presented(pass) <=>
                     q \in Presented(Tail(pass)) \/ (q = Head(pass) /\ IsPresented(q))
<1>1. /\ Head(pass) \in Packet /\ Tail(pass) \in Seq(Packet)
      /\ Len(pass) \in Nat \ {0} /\ Len(Tail(pass)) = Len(pass) - 1
      /\ pass[1] = Head(pass)
      /\ \A i \in 1..Len(pass) - 1 : Tail(pass)[i] = pass[i + 1]
      /\ DOMAIN pass = 1..Len(pass) /\ DOMAIN Tail(pass) = 1..Len(pass) - 1
  OBVIOUS
<1>2. ASSUME NEW q, q \in Presented(pass)
      PROVE  q \in Presented(Tail(pass)) \/ (q = Head(pass) /\ IsPresented(q))
  <2>1. PICK i \in 1..Len(pass) : q = pass[i] /\ IsPresented(q)
    BY <1>1, <1>2 DEF Presented
  <2>2. CASE i = 1  BY <1>1, <2>1, <2>2
  <2>3. CASE i # 1
    <3>1. i - 1 \in 1..Len(pass) - 1 /\ (i - 1) + 1 = i  BY <1>1, <2>3
    <3>2. Tail(pass)[i - 1] = q  BY <1>1, <2>1, <3>1
    <3> QED  BY <1>1, <2>1, <3>1, <3>2 DEF Presented
  <2> QED  BY <2>2, <2>3
<1>3. ASSUME NEW q, q \in Presented(Tail(pass)) PROVE q \in Presented(pass)
  <2>1. PICK i \in 1..Len(pass) - 1 : q = Tail(pass)[i] /\ IsPresented(q)
    BY <1>1, <1>3 DEF Presented
  <2>2. i + 1 \in 1..Len(pass) /\ pass[i + 1] = q  BY <1>1, <2>1
  <2> QED  BY <1>1, <2>1, <2>2 DEF Presented
<1>4. IsPresented(Head(pass)) => Head(pass) \in Presented(pass)
  <2>1. 1 \in 1..Len(pass)  BY <1>1
  <2> QED  BY <1>1, <2>1 DEF Presented
<1> QED  BY <1>1, <1>2, <1>3, <1>4

\* Before anything is read the first pass is whole.
LEMMA FollowStarts == Init => Follow
<1> SUFFICES ASSUME Init PROVE Follow  OBVIOUS
<1> USE DEF Init
<1>1. file \in Files /\ pass \in file  OBVIOUS
<1>2. pass \in Seq(Packet)  BY <1>1, TimelineAssumption
<1>3. \A x \in Streams : FromMicros(0, x) = 0  BY ZeroStays
<1>4. offset = [x \in Streams |-> FromMicros(m_offset_us, x)]  BY <1>3
<1>5. Tracks  BY <1>1, <1>2, <1>4 DEF Tracks, NoTime, Never
<1>6. Extent  BY DEF Extent, NoTime
<1>7. Beginning  BY <1>1 DEF Beginning
<1>8. Placed  BY DEF Placed
<1> QED  BY <1>5, <1>6, <1>7, <1>8 DEF Follow

\* A packet that is read may move where the pass starts and how far it reaches.
LEMMA ReadKeeps ==
  ASSUME Follow, Reads
  PROVE  Follow'
<1> DEFINE p == Head(pass)
<1> USE DEF Follow
<1>0. /\ pass # <<>> /\ pass' = Tail(pass)
      /\ UNCHANGED <<file, passes, offset, m_first_pass, m_offset_us, before>>
  BY DEF Reads
<1>1. /\ p \in Packet /\ Tail(pass) \in Seq(Packet)
      /\ \A q : q \in Presented(pass) <=>
                  q \in Presented(Tail(pass)) \/ (q = p /\ IsPresented(q))
  BY <1>0, NextPacket DEF Tracks
<1>2. PICK w \in file :
        /\ Presented(pass) \subseteq Presented(w)
        /\ m_first_pass => \A q \in Presented(w) : q \in Presented(pass) \/ m_pass_start_us <= From(q)
        /\ m_pass_end_us # NoTime => Presented(w) # {}
        /\ ~m_first_pass => \A v \in file : \A q \in Presented(v) : m_pass_start_us <= From(q)
  BY DEF Beginning
<1>3. CASE ~IsPresented(p)
  <2>1. UNCHANGED <<m_pass_start_us, m_pass_end_us, reached>> /\ shown' = <<>>
    BY <1>3 DEF Reads, Measure
  <2>2. Tracks'  BY <1>0, <1>1, <2>1 DEF Tracks
  <2>3. Extent'  BY <1>0, <2>1 DEF Extent
  <2>4. Presented(pass') = Presented(pass)  BY <1>0, <1>1, <1>3
  <2>5. Beginning'  BY <1>0, <1>2, <2>1, <2>4 DEF Beginning
  <2>6. Placed'  BY <2>1 DEF Placed
  <2> QED  BY <2>2, <2>3, <2>5, <2>6
<1>4. CASE IsPresented(p)
  <2>1. /\ m_pass_start_us' = IF m_first_pass THEN Earlier(m_pass_start_us, From(p)) ELSE m_pass_start_us
        /\ m_pass_end_us' = Later(m_pass_end_us, Until(p))
        /\ reached' = Later(reached, Until(Shifted(p)))
        /\ shown' = <<Shifted(p)>>
    BY <1>4 DEF Reads, Measure
  <2>2. p \in Presented(w) /\ w \in file /\ file \in Files  BY <1>1, <1>2, <1>4 DEF Tracks
  <2>3. From(p) < Never /\ Until(p) > NoTime + MostRounding  BY <2>2, PassesAssumption
  <2>4. p.pts # NoTime  BY <1>4 DEF IsPresented
  <2>5. From(p) \in Int /\ Until(p) \in Int  BY <1>1, PacketTimes
  <2> DEFINE u == Until(Shifted(p))
             d == u - (Until(p) + m_offset_us)
  <2>6. /\ Shifted(p) = [p EXCEPT !.pts = @ + offset[p.stream]]
        /\ d \in Int /\ d <= MostRounding /\ -d <= MostRounding /\ u \in Int
    BY <1>1, <2>4, ShiftedTimes
  <2> HIDE DEF p
  <2>7. /\ m_offset_us \in Nat /\ m_pass_start_us \in Int /\ m_pass_end_us \in Int
        /\ reached \in Int /\ MostRounding \in Nat /\ NoTime \in Int
    BY MostIsMost, Instants DEF Tracks
  <2>8. m_pass_start_us' \in Int /\ m_pass_end_us' \in Int /\ reached' \in Int
    BY <2>1, <2>5, <2>6, <2>7 DEF Earlier, Later
  <2>9. Tracks'  BY <1>0, <1>1, <2>8 DEF Tracks
  <2>10. u > NoTime  BY <2>3, <2>5, <2>6, <2>7
  <2>11. Extent'
    <3>1. PICK e, r, f, t, o : /\ e = m_pass_end_us /\ r = reached /\ f = m_pass_end_us' /\ t = reached'
                              /\ o = m_offset_us
      OBVIOUS
    <3>2. /\ e \in Int /\ r \in Int /\ o \in Nat
          /\ f = Later(e, Until(p)) /\ t = Later(r, u)
      BY <2>1, <2>7, <3>1
    <3>3. /\ e = NoTime <=> r = NoTime
          /\ e # NoTime => r - (e + o) <= MostRounding /\ (e + o) - r <= MostRounding
      BY <3>1 DEF Extent
    <3>4. Until(p) > NoTime  BY <2>3, <2>5, <2>7
    <3>5. f # NoTime /\ t # NoTime /\ f \in Int /\ t \in Int
      BY <2>5, <2>6, <2>7, <2>10, <3>2, <3>4 DEF Later
    <3>6. e = NoTime => t - (f + o) <= MostRounding /\ (f + o) - t <= MostRounding
      <4> SUFFICES ASSUME e = NoTime
                   PROVE  t - (f + o) <= MostRounding /\ (f + o) - t <= MostRounding
        OBVIOUS
      <4>1. r = NoTime  BY <3>3
      <4>2. f = Until(p) /\ t = u  BY <2>5, <2>6, <2>7, <2>10, <3>2, <3>4, <4>1 DEF Later
      <4> QED  BY <2>5, <2>6, <2>7, <3>1, <3>2, <4>2
    <3>7. e # NoTime => t - (f + o) <= MostRounding /\ (f + o) - t <= MostRounding
      <4> SUFFICES ASSUME e # NoTime
                   PROVE  t - (f + o) <= MostRounding /\ (f + o) - t <= MostRounding
        OBVIOUS
      <4>1. r - (e + o) <= MostRounding /\ (e + o) - r <= MostRounding  BY <3>3
      <4>2. u - (Until(p) + o) <= MostRounding /\ (Until(p) + o) - u <= MostRounding
        BY <2>5, <2>6, <2>7, <3>1
      <4>3. u \in Int  BY <2>6
      <4> HIDE DEF u
      <4>4. PICK k \in Int : k = Until(p)  BY <2>5
      <4>5. ((f = e /\ k <= e) \/ (f = k /\ e <= k)) /\ ((t = r /\ u <= r) \/ (t = u /\ r <= u))
        BY <2>7, <3>1, <3>2, <4>3, <4>4 DEF Later
      <4>6. r \in Int /\ MostRounding \in Nat  BY <2>7, <3>1
      <4> QED  BY <3>2, <4>1, <4>2, <4>3, <4>4, <4>5, <4>6
    <3>8. /\ t - (f + o) <= MostRounding /\ (f + o) - t <= MostRounding  BY <3>6, <3>7
    <3>9. ~m_first_pass => m_pass_start_us' = m_pass_start_us  BY <2>1
    <3> QED  BY <1>0, <3>1, <3>5, <3>8, <3>9 DEF Extent
  <2>12. Beginning'
    <3>1. Presented(pass') \subseteq Presented(w)  BY <1>0, <1>1, <1>2
    <3>2. ASSUME m_first_pass, NEW q \in Presented(w), q \notin Presented(pass')
          PROVE  m_pass_start_us' <= From(q)
      <4>1. m_pass_start_us' = Earlier(m_pass_start_us, From(p))  BY <2>1, <3>2
      <4>2. q = p \/ m_pass_start_us <= From(q)  BY <1>0, <1>1, <1>2, <3>2
      <4>3. From(q) \in Int
        <5>1. w \in Seq(Packet)  BY <2>2, TimelineAssumption
        <5>2. q \in Packet  BY <5>1, <3>2 DEF Presented
        <5> QED  BY <5>2, PacketTimes
      <4> QED  BY <2>5, <2>7, <4>1, <4>2, <4>3 DEF Earlier
    <3>3. ~m_first_pass => m_pass_start_us' = m_pass_start_us  BY <2>1
    <3>4. Presented(w) # {}  BY <2>2
    <3> QED  BY <1>0, <1>2, <3>1, <3>2, <3>3, <3>4 DEF Beginning
  <2>13. Placed'
    <3>1. shown' = <<[p EXCEPT !.pts = @ + offset[p.stream]]>> /\ p \in Packet
      BY <1>1, <2>1, <2>6 DEF p
    <3>2. ~m_first_pass => m_pass_start_us' <= From(p)  BY <1>2, <2>1, <2>2
    <3> QED  BY <1>0, <3>1, <3>2 DEF Placed
  <2> QED  BY <2>9, <2>11, <2>12, <2>13
<1> QED  BY <1>3, <1>4

\* A pass that was presented is followed by one that begins where it ended.
LEMMA RestartKeeps ==
  ASSUME Follow, Restarts
  PROVE  Follow'
<1> USE DEF Follow
<1>0. /\ pass = <<>> /\ HasTimeline /\ pass' \in file /\ passes' = passes + 1
      /\ m_offset_us' = m_offset_us + (m_pass_end_us - m_pass_start_us)
      /\ ~m_first_pass' /\ m_pass_end_us' = NoTime
      /\ offset' = [x \in Streams |-> FromMicros(m_offset_us', x)]
      /\ before' = reached /\ reached' = NoTime /\ shown' = <<>>
      /\ UNCHANGED <<file, m_pass_start_us>>
      /\ m_first_pass' = FALSE
  BY DEF Restarts, ShiftsTracks
<1>1. m_pass_end_us # NoTime /\ m_pass_end_us > m_pass_start_us
  <2>1. m_pass_end_us \in Int /\ m_pass_start_us \in Int  BY DEF Tracks
  <2> QED  BY <1>0, <2>1 DEF HasTimeline
<1>2. m_offset_us \in Nat /\ m_pass_start_us \in Int /\ m_pass_end_us \in Int /\ passes \in Nat \ {0}
      /\ reached \in Int /\ file \in Files
  BY DEF Tracks
<1>3. m_offset_us' \in Nat  BY <1>0, <1>1, <1>2
<1>4. pass' \in Seq(Packet)  BY <1>0, <1>2, TimelineAssumption
<1>5. passes' \in Nat \ {0} /\ passes' # 1  BY <1>0, <1>2
<1>6. Tracks'
  <2>1. file' \in Files /\ pass' \in Seq(Packet)  BY <1>0, <1>2, <1>4
  <2>2. m_first_pass' \in BOOLEAN /\ (m_first_pass' <=> passes' = 1)  BY <1>0, <1>5
  <2>3. m_pass_start_us' \in Int /\ m_pass_end_us' \in Int /\ reached' \in Int /\ before' \in Int
    BY <1>0, <1>2, Instants
  <2> QED  BY <1>0, <1>3, <1>5, <2>1, <2>2, <2>3 DEF Tracks
<1>7. reached # NoTime
      /\ reached - (m_pass_end_us + m_offset_us) <= MostRounding
      /\ (m_pass_end_us + m_offset_us) - reached <= MostRounding
  BY <1>1 DEF Extent
<1>8. Extent'
  <2>1. m_pass_start_us + m_offset_us' = m_pass_end_us + m_offset_us  BY <1>0, <1>2
  <2> QED  BY <1>0, <1>7, <2>1 DEF Extent
<1>9. PICK w \in file :
        /\ m_first_pass => \A q \in Presented(w) : q \in Presented(pass) \/ m_pass_start_us <= From(q)
        /\ m_pass_end_us # NoTime => Presented(w) # {}
        /\ ~m_first_pass => \A v \in file : \A q \in Presented(v) : m_pass_start_us <= From(q)
  BY DEF Beginning
<1>10. Beginning'
  <2>1. Presented(pass) = {}  BY <1>0 DEF Presented
  <2>2. ASSUME NEW v \in file, NEW q \in Presented(v) PROVE m_pass_start_us <= From(q)
    <3>1. CASE ~m_first_pass  BY <1>9, <3>1
    <3>2. CASE m_first_pass
      <4>1. PICK r \in Presented(w) : From(r) <= From(q)
        BY <1>1, <1>2, <1>9, PassesAssumption
      <4>2. m_pass_start_us <= From(r)  BY <1>9, <2>1, <3>2
      <4>3. v \in Seq(Packet) /\ w \in Seq(Packet)  BY <1>2, <1>9, <2>2, TimelineAssumption
      <4>4. q \in Packet /\ r \in Packet  BY <2>2, <4>1, <4>3 DEF Presented
      <4>5. From(q) \in Int /\ From(r) \in Int  BY <4>4, PacketTimes
      <4> QED  BY <1>2, <4>1, <4>2, <4>5
    <3> QED  BY <3>1, <3>2
  <2> QED  BY <1>0, <2>2 DEF Beginning
<1>11. Placed'  BY <1>0 DEF Placed
<1> QED  BY <1>6, <1>8, <1>10, <1>11

\* The other steps leave MediaInput as it is.
LEMMA InputStays == UNCHANGED input /\ Follow => Follow'
<1> SUFFICES ASSUME UNCHANGED input, Follow PROVE Follow'  OBVIOUS
<1>1. UNCHANGED <<file, pass, passes, offset, m_first_pass, m_pass_start_us, m_pass_end_us,
                  m_offset_us, before, reached, shown>>
  BY DEF input
<1>2. Tracks'  BY <1>1 DEF Follow, Tracks
<1>3. Extent'  BY <1>1 DEF Follow, Extent
<1>4. Beginning'
  <2>1. Presented(pass') = Presented(pass)  BY <1>1
  <2> QED  BY <1>1, <2>1 DEF Follow, Beginning
<1>5. Placed'  BY <1>1 DEF Follow, Placed
<1> QED  BY <1>2, <1>3, <1>4, <1>5 DEF Follow

\* So every step keeps the timeline.
LEMMA FollowKept == Follow /\ [Next]_vars => Follow'
<1> SUFFICES ASSUME Follow, [Next]_vars PROVE Follow'  OBVIOUS
<1>1. CASE Reads  BY <1>1, ReadKeeps
<1>2. CASE Restarts  BY <1>2, RestartKeeps
<1>3. Ends => UNCHANGED input  BY SMT DEF Ends
<1>4. Fails => UNCHANGED input  BY SMT DEF Fails
<1>5. RequestStop => UNCHANGED input  BY SMT DEF RequestStop
<1>6. ProcessReconfigures => UNCHANGED input  BY SMT DEF ProcessReconfigures
<1>7. Process => UNCHANGED input  BY SMT DEF Process
<1>8. ProcessesNothing => UNCHANGED input  BY SMT DEF ProcessesNothing
<1>9. Finishes => UNCHANGED input  BY SMT DEF Finishes
<1>10. Done \/ UNCHANGED vars => UNCHANGED input  BY SMT DEF Done, vars
<1>11. Reads \/ Restarts \/ UNCHANGED input
  BY <1>3, <1>4, <1>5, <1>6, <1>7, <1>8, <1>9, <1>10 DEF Next
<1>12. CASE UNCHANGED input  BY <1>12, InputStays
<1> QED  BY <1>1, <1>2, <1>11, <1>12

\* For any input, any time bases and any number of passes, each pass begins where the one
\* before ended, for both tracks alike, up to what rounding costs twice.
THEOREM PassesAreSeamless == Spec => []PassesFollow
<1>1. Follow => PassesFollow
  <2> SUFFICES ASSUME Follow PROVE PassesFollow  OBVIOUS
  <2> USE DEF Follow
  <2>1. ASSUME NEW x \in Streams
        PROVE  LET d == ToMicros(offset[x], x) - m_offset_us IN
               ToMicros(offset[x], x) \in Int /\ d <= MostRounding /\ -d <= MostRounding
    <3>1. m_offset_us \in Int /\ offset[x] = FromMicros(m_offset_us, x)  BY DEF Tracks
    <3>2. FromMicros(m_offset_us, x) \in Int  BY <3>1, Conversions
    <3>3. ToMicros(offset[x], x) \in Int  BY <3>1, <3>2, Conversions
    <3> DEFINE t == FromMicros(m_offset_us, x)
    <3>4. LET d == ToMicros(0 + t, x) - (ToMicros(0, x) + m_offset_us) IN
            d \in Int /\ d <= MostRounding /\ -d <= MostRounding
      BY <3>1, Moved
    <3>5. 0 + t = t /\ ToMicros(0, x) = 0  BY <3>2, ZeroStays
    <3> QED  BY <3>1, <3>3, <3>4, <3>5
  <2>2. Near(ToMicros(offset["video"], "video"), ToMicros(offset["audio"], "audio"))
    <3>1. m_offset_us \in Int /\ MostRounding \in Nat /\ "video" \in Streams /\ "audio" \in Streams
      BY MostIsMost DEF Tracks, Streams
    <3>2. PICK a, b : a = ToMicros(offset["video"], "video") /\ b = ToMicros(offset["audio"], "audio")
      OBVIOUS
    <3>3. /\ a \in Int /\ a - m_offset_us <= MostRounding /\ -(a - m_offset_us) <= MostRounding
          /\ b \in Int /\ b - m_offset_us <= MostRounding /\ -(b - m_offset_us) <= MostRounding
      BY <2>1, <3>1, <3>2
    <3>4. a - b <= 2 * MostRounding /\ b - a <= 2 * MostRounding  BY <3>1, <3>3
    <3> QED  BY <3>2, <3>4 DEF Near, Slack
  <2>3. ASSUME passes > 1, shown # <<>>
        PROVE  /\ From(shown[1]) >= before - Slack
               /\ ToMicros(Start(shown[1]) - offset[shown[1].stream], shown[1].stream) = m_pass_start_us
                    => Near(From(shown[1]), before)
    <3>1. ~m_first_pass  BY <2>3 DEF Tracks
    <3>2. PICK p \in Packet : /\ shown = <<[p EXCEPT !.pts = @ + offset[p.stream]]>>
                              /\ m_pass_start_us <= From(p)
      BY <2>3, <3>1 DEF Placed
    <3> DEFINE q == [p EXCEPT !.pts = @ + offset[p.stream]]
    <3>3. m_offset_us \in Nat /\ m_pass_start_us \in Int /\ before \in Int /\ MostRounding \in Nat
          /\ p.stream \in Streams
      BY MostIsMost, PacketParts DEF Tracks
    <3>4. offset[p.stream] = FromMicros(m_offset_us, p.stream)  BY <3>3 DEF Tracks
    <3>5. offset[p.stream] \in Int  BY <3>3, <3>4, Conversions
    <3>6. shown[1] = q /\ q \in Packet /\ q.stream = p.stream /\ Start(q) = Start(p) + offset[p.stream]
      BY <3>2, <3>5, PacketMoves
    <3>7. Start(p) \in Int /\ From(p) \in Int /\ From(q) \in Int  BY <3>6, PacketTimes
    <3> HIDE DEF q
    <3>8. LET d == From(q) - (From(p) + m_offset_us) IN
            d \in Int /\ d <= MostRounding /\ -d <= MostRounding
      BY <3>3, <3>4, <3>6, <3>7, Moved DEF From
    <3>9. Start(q) - offset[q.stream] = Start(p)  BY <3>5, <3>6, <3>7
    <3>10. /\ before - (m_pass_start_us + m_offset_us) <= MostRounding
           /\ (m_pass_start_us + m_offset_us) - before <= MostRounding
      BY <3>1 DEF Extent
    <3>11. From(q) >= before - 2 * MostRounding
      BY <3>2, <3>3, <3>7, <3>8, <3>10
    <3>12. From(p) = m_pass_start_us =>
             From(q) - before <= 2 * MostRounding /\ before - From(q) <= 2 * MostRounding
      BY <3>3, <3>7, <3>8, <3>10
    <3> QED  BY <3>6, <3>9, <3>11, <3>12 DEF Near, Slack, From
  <2>4. before # NoTime  BY DEF Extent
  <2> QED  BY <2>2, <2>3, <2>4 DEF PassesFollow
<1> QED  BY FollowStarts, FollowKept, <1>1, PTL DEF Spec
-----------------------------------------------------------------------------
\* Blocks as Emit hands them on, and as it holds them back: whole, not empty, and of a
\* rate to whose samples the tolerance covers rounding.
Rates == {r \in Nat \ {0} : CoversRounding(r)}
Block == [pts : Int, samples : Nat, rate : Rates, was : Nat]
Held == {b \in Block : b.samples = b.was /\ b.samples > 0}

\* What was given away joins, and so does the last of it with the block that is held.
Joined(blocks, held, seams) ==
    /\ blocks \in Seq(Block)
    /\ held = <<>> \/ \E h \in Held : held = <<h>>
    /\ \A i \in 1..Len(blocks) - 1 : i \notin seams => Joins(blocks[i], blocks[i + 1])
    /\ blocks # <<>> /\ Len(blocks) \notin seams =>
           held # <<>> /\ Joins(blocks[Len(blocks)], held[1])

\* What the audio packets and the settings made from them are.
SoundPacket == {p \in Packet : p.stream = "audio" => p.rate \in Rates}

Audio ==
    /\ pass \in Seq(SoundPacket)
    /\ arrived = <<>> \/ \E p \in SoundPacket : p.stream = "audio" /\ arrived = <<p>>
    /\ config_rate \in OutRates
    /\ inside \in Nat /\ part \in Nat /\ m_next_in_us \in Int
    /\ m_in = <<>> \/ (m_in.rate \in Rates /\ m_out_rate \in Rates)

\* The end of a block, by its samples.
LEMMA BlockEnds ==
  ASSUME NEW b, b.pts \in Int, b.samples \in Nat, b.rate \in Nat \ {0}
  PROVE  LET n == EndUs(b) - b.pts IN
         /\ n \in Int /\ EndUs(b) \in Int
         /\ 2 * (b.rate * n) <= 2 * (b.samples * Micros) + b.rate
         /\ 2 * (b.samples * Micros) <= 2 * (b.rate * n) + b.rate
<1> DEFINE q == Rescale(b.samples, Micros, b.rate)
<1>1. /\ q \in Int /\ 2 * (b.rate * q) <= 2 * (b.samples * Micros) + b.rate
      /\ 2 * (b.samples * Micros) <= 2 * (b.rate * q) + b.rate
  <2>1. Micros \in Nat /\ b.samples \in Int  BY TimelineAssumption
  <2> QED  BY <2>1, RescaleBounds
<1>2. EndUs(b) = b.pts + q  BY DEF EndUs
<1> HIDE DEF q
<1>3. EndUs(b) - b.pts = q /\ EndUs(b) \in Int  BY <1>1, <1>2
<1> QED  BY <1>1, <1>3

\* Arithmetic of a tail that is trimmed to k samples, d after the block began: what is left
\* ends where the next block begins, but for rounding.
LEMMA TrimIsExact ==
  ASSUME NEW r \in Rates, NEW d \in Int, NEW back \in Int,
         2 * (r * (back - d)) <= Micros + r, 2 * (r * (d - back)) <= Micros + r
  PROVE  back - d <= kOverlapToleranceUs /\ back - d >= -(Micros \div r)
<1>1. /\ r \in Nat \ {0} /\ Micros \in Nat \ {0} /\ kOverlapToleranceUs \in Nat
      /\ Micros + r <= 2 * r * kOverlapToleranceUs
  BY TimelineAssumption DEF Rates, CoversRounding
<1> DEFINE q == Micros \div r
<1>2. q \in Nat /\ Micros < r * q + r  BY <1>1, DivBounds
<1> HIDE DEF q
<1>3. back - d <= kOverlapToleranceUs
  <2>1. 2 * r * kOverlapToleranceUs = 2 * (r * kOverlapToleranceUs)  BY <1>1
  <2>2. PICK A, B : A = r * (back - d) /\ B = r * kOverlapToleranceUs  OBVIOUS
  <2>3. A \in Int /\ B \in Int  BY <1>1, <2>2
  <2>4. A < B + r  BY <1>1, <2>1, <2>2, <2>3
  <2>5. back - d \in Int  OBVIOUS
  <2> QED  BY <1>1, <2>2, <2>4, <2>5, Cancel
<1>4. d - back <= q
  <2>1. PICK A, B : A = r * (d - back) /\ B = r * q  OBVIOUS
  <2>2. A \in Int /\ B \in Nat  BY <1>1, <1>2, <2>1
  <2>3. 2 * A < B + 2 * r  BY <1>1, <1>2, <2>1, <2>2
  <2>4. A < B + r  BY <1>1, <2>2, <2>3
  <2>5. d - back \in Int  OBVIOUS
  <2> QED  BY <1>1, <1>2, <2>1, <2>4, <2>5, Cancel
<1> QED  BY <1>2, <1>3, <1>4 DEF q

\* Trimming makes a block join the next one, unless nothing is left of it.
LEMMA TrimmedJoins ==
  ASSUME NEW h \in Held, NEW next, next.pts \in Int, Trimmed(h, next).samples > 0
  PROVE  Trimmed(h, next) \in Block /\ Joins(Trimmed(h, next), next)
<1>1. /\ h \in Block /\ h.pts \in Int /\ h.samples \in Nat /\ h.samples > 0 /\ h.samples = h.was
      /\ h.rate \in Rates /\ h.was \in Nat
  BY DEF Held, Block
<1>2. h.rate \in Nat \ {0} /\ Micros \in Nat \ {0} /\ kOverlapToleranceUs \in Nat
      /\ kMaxOverlapTrimUs \in Nat
  BY <1>1, TimelineAssumption DEF Rates
<1> DEFINE overlap == EndUs(h) - next.pts
<1>3. EndUs(h) \in Int /\ overlap \in Int  BY <1>1, <1>2, BlockEnds
<1>4. CASE ~(overlap > kOverlapToleranceUs /\ overlap < kMaxOverlapTrimUs)
  <2>1. Trimmed(h, next) = h  BY <1>4 DEF Trimmed
  <2>2. overlap <= kOverlapToleranceUs \/ overlap >= kMaxOverlapTrimUs  BY <1>2, <1>3, <1>4
  <2>3. ~(h.samples < h.was)  BY <1>1
  <2> QED  BY <1>1, <2>1, <2>2, <2>3 DEF Joins
<1>5. CASE overlap > kOverlapToleranceUs /\ overlap < kMaxOverlapTrimUs
  <2> DEFINE d == next.pts - h.pts
             k == Rescale(d, h.rate, Micros)
             n == Earlier(Later(k, 0), h.samples)
             out == Trimmed(h, next)
  <2>1. out = [h EXCEPT !.samples = n]  BY <1>5 DEF Trimmed, Keep
  <2>2. d \in Int  BY <1>1
  <2>3. k \in Int /\ 2 * (Micros * k) <= 2 * (d * h.rate) + Micros
        /\ 2 * (d * h.rate) <= 2 * (Micros * k) + Micros
    BY <1>2, <2>2, RescaleBounds
  <2> HIDE DEF d
  <2>4. k < h.samples
    <3>1. SUFFICES ASSUME k >= h.samples PROVE FALSE  BY <1>1, <2>3
    <3>2. PICK R : R = EndUs(h) - h.pts  OBVIOUS
    <3>3. R \in Int /\ 2 * (h.rate * R) <= 2 * (h.samples * Micros) + h.rate
      BY <1>1, <1>2, <3>2, BlockEnds
    <3>4. overlap = R - d  BY <1>1, <1>3, <3>2 DEF d
    <3> HIDE DEF overlap
    <3>5. Micros * h.samples <= Micros * k
      <4>1. PICK m \in Nat : k = h.samples + m
        <5>1. k - h.samples \in Nat  BY <1>1, <2>3, <3>1
        <5> QED  BY <1>1, <2>3, <5>1
      <4>2. Micros * k = Micros * h.samples + Micros * m /\ Micros * m \in Nat  BY <1>1, <1>2, <4>1
      <4> QED  BY <1>1, <1>2, <2>3, <4>2
    <3> HIDE DEF k
    <3>6. PICK r, s : r = h.rate /\ s = h.samples  OBVIOUS
    <3>7. PICK A, B, C, D : A = r * R /\ B = Micros * k /\ C = r * d /\ D = Micros * s  OBVIOUS
    <3>8. A \in Int /\ B \in Int /\ C \in Int /\ D \in Int /\ r \in Nat \ {0}
      BY <1>1, <1>2, <2>2, <2>3, <3>3, <3>6, <3>7
    <3>9. s * Micros = D /\ d * r = C  BY <1>1, <1>2, <2>2, <3>6, <3>7
    <3>10. 2 * A <= 2 * D + r /\ D <= B /\ 2 * B <= 2 * C + Micros
      BY <2>3, <3>3, <3>5, <3>6, <3>7, <3>9
    <3>11. 2 * (A - C) <= Micros + r  BY <1>2, <3>8, <3>10
    <3>12. r * (R - d) = A - C  BY <2>2, <3>3, <3>7, <3>8
    <3>13. Micros + r <= 2 * r * kOverlapToleranceUs  BY <1>1, <3>6 DEF Rates, CoversRounding
    <3>14. 2 * r * kOverlapToleranceUs = 2 * (r * kOverlapToleranceUs)  BY <1>2, <3>8
    <3>15. PICK E : E = r * kOverlapToleranceUs  OBVIOUS
    <3>16. E \in Int  BY <1>2, <3>8, <3>15
    <3>17. A - C < E + r  BY <1>2, <3>8, <3>11, <3>13, <3>14, <3>15, <3>16
    <3>18. R - d \in Int  BY <2>2, <3>3
    <3>19. R - d <= kOverlapToleranceUs  BY <1>2, <3>8, <3>12, <3>15, <3>17, <3>18, Cancel
    <3> QED  BY <1>2, <1>5, <2>2, <3>3, <3>4, <3>19 DEF overlap
  <2>5. n = k \/ n = 0  BY <1>1, <2>3, <2>4 DEF Earlier, Later
  <2>6. n > 0 /\ n \in Int
    <3>1. out.samples = n  BY <1>1, <2>1 DEF Block
    <3>2. n \in Int  BY <1>1, <2>3, <2>5
    <3> QED  BY <3>1, <3>2
  <2> HIDE DEF k
  <2>7. n = k  BY <2>5, <2>6
  <2>8. /\ out \in Block /\ out.pts = h.pts /\ out.samples = k /\ out.rate = h.rate
        /\ out.was = h.was
    BY <1>1, <2>1, <2>3, <2>6, <2>7 DEF Block
  <2> HIDE DEF out
  <2> DEFINE back == Rescale(k, Micros, h.rate)
  <2>9. /\ back \in Int /\ 2 * (h.rate * (back - d)) <= Micros + h.rate
        /\ 2 * (h.rate * (d - back)) <= Micros + h.rate
    BY <1>2, <2>2, RoundTrip DEF k
  <2>10. EndUs(out) = h.pts + back  BY <2>8 DEF EndUs
  <2> HIDE DEF back
  <2>11. EndUs(out) - next.pts = back - d  BY <1>1, <2>2, <2>9, <2>10 DEF d
  <2>12. back - d <= kOverlapToleranceUs /\ back - d >= -(Micros \div h.rate)
    BY <1>1, <2>2, <2>9, TrimIsExact
  <2> QED  BY <2>8, <2>11, <2>12 DEF Joins, out
<1> QED  BY <1>4, <1>5

\* A block the sink takes behind the others joins them.
LEMMA EmitJoins ==
  ASSUME NEW block, block.pts \in Int, block.samples \in Nat, block.samples > 0,
         block.rate \in Rates, Joined(given, m_held, broken)
  PROVE  LET e == Emits(m_held, block) IN
         Joined(given \o e.sent, e.held, broken \union Seam(e))
<1> DEFINE next == [pts |-> block.pts, samples |-> block.samples, rate |-> block.rate,
                    was |-> block.samples]
           e == Emits(m_held, block)
<1> SUFFICES Joined(given \o e.sent, e.held, broken \union Seam(e))  OBVIOUS
<1>1. next \in Held /\ next.pts = block.pts  BY DEF Held, Block
<1>2. given \in Seq(Block)  BY DEF Joined
<1>3. CASE m_held = <<>>
  <2>1. e.sent = <<>> /\ e.held = <<next>> /\ e.cut = 0  BY <1>3 DEF Emits
  <2>2. given \o e.sent = given  BY <1>2, <2>1
  <2>3. Seam(e) = {}  BY <2>1 DEF Seam
  <2> HIDE DEF e, next
  <2> QED  BY <1>1, <1>3, <2>1, <2>2, <2>3 DEF Joined
<1>4. CASE m_held # <<>>
  <2>1. PICK h \in Held : m_held = <<h>>  BY <1>4 DEF Joined
  <2>2. m_held[1] = h  BY <2>1
  <2> DEFINE out == Trimmed(h, next)
  <2>3. /\ e.sent = (IF out.samples > 0 THEN <<out>> ELSE <<>>)
        /\ e.held = <<next>> /\ e.cut = h.samples - out.samples
    BY <1>4, <2>2 DEF Emits
  <2>4. out.pts = h.pts
    <3>1. h \in Block  BY DEF Held
    <3> QED  BY <3>1 DEF Trimmed, Block
  <2>5. CASE out.samples > 0
    <3>1. out \in Block /\ Joins(out, next)  BY <1>1, <2>5, TrimmedJoins DEF Held, Block
    <3> HIDE DEF e, next, out
    <3>2. e.sent = <<out>>  BY <2>3, <2>5
    <3> DEFINE g == given \o e.sent
               n == Len(given)
    <3>3. /\ n \in Nat /\ g \in Seq(Block) /\ Len(g) = n + 1 /\ g[n + 1] = out
          /\ \A i \in 1..n : g[i] = given[i]
          /\ g # <<>>
      BY <1>2, <3>1, <3>2
    <3> HIDE DEF g
    <3>4. n \in 1..n /\ n \notin broken => Joins(given[n], out)
      <4> SUFFICES ASSUME n \in 1..n, n \notin broken PROVE Joins(given[n], out)
        OBVIOUS
      <4>1. given # <<>>  OBVIOUS
      <4>2. Joins(given[n], h)  BY <2>1, <2>2, <4>1 DEF Joined
      <4> QED  BY <2>4, <4>2 DEF Joins
    <3>5. \A i \in 1..n - 1 : i \notin broken => Joins(given[i], given[i + 1])  BY DEF Joined
    <3> HIDE DEF n
    <3>6. ASSUME NEW i \in 1..n, i \notin broken PROVE Joins(g[i], g[i + 1])
      <4>1. CASE i = n  BY <3>3, <3>4, <3>6, <4>1
      <4>2. CASE i # n
        <5>1. i \in 1..n - 1 /\ i \in 1..n /\ i + 1 \in 1..n  BY <3>3, <3>6, <4>2
        <5>2. g[i] = given[i] /\ g[i + 1] = given[i + 1]  BY <3>3, <5>1
        <5> QED  BY <3>5, <3>6, <5>1, <5>2
      <4> QED  BY <4>1, <4>2
    <3>7. Len(g) - 1 = n  BY <3>3
    <3>8. e.held = <<next>> /\ e.held # <<>> /\ e.held[1] = next  BY <2>3
    <3>9. \A i \in 1..Len(g) - 1 : i \notin broken \union Seam(e) => Joins(g[i], g[i + 1])
      BY <3>6, <3>7
    <3>10. Joins(g[Len(g)], e.held[1])  BY <3>1, <3>3, <3>8
    <3> QED  BY <1>1, <3>3, <3>8, <3>9, <3>10 DEF Joined, g
  <2>6. CASE ~(out.samples > 0)
    <3>0. h \in Block /\ h.samples \in Nat /\ h.samples > 0  BY DEF Held, Block
    <3>1. out.samples \in Int
      <4>1. h.pts \in Int /\ h.rate \in Nat  BY <3>0 DEF Block, Rates
      <4>2. Keep(h, next) \in Int
        <5>1. next.pts - h.pts \in Int  BY <1>1, <4>1
        <5>2. Micros \in Nat \ {0}  BY TimelineAssumption
        <5> QED  BY <4>1, <5>1, <5>2, RescaleBounds DEF Keep
      <4>3. Earlier(Later(Keep(h, next), 0), h.samples) \in Int  BY <3>0, <4>2 DEF Earlier, Later
      <4>4. out = h \/ out = [h EXCEPT !.samples = Earlier(Later(Keep(h, next), 0), h.samples)]
        BY DEF Trimmed
      <4> QED  BY <3>0, <4>3, <4>4 DEF Block
    <3>2. e.cut > 0
      <4> HIDE DEF out, e
      <4> QED  BY <2>3, <2>6, <3>0, <3>1
    <3>3. e.sent = <<>> /\ e.held = <<next>>  BY <2>3, <2>6
    <3> HIDE DEF out, next, e
    <3>4. given \o e.sent = given /\ Seam(e) = {Len(given)}  BY <1>2, <3>2, <3>3 DEF Seam
    <3> QED  BY <1>1, <3>3, <3>4 DEF Joined
  <2> QED  BY <2>5, <2>6
<1> QED  BY <1>3, <1>4

\* Nothing is handed on, and nothing changes.
LEMMA NotEmittedJoins ==
  ASSUME Joined(given, m_held, broken)
  PROVE  LET e == NotEmitted IN Joined(given \o e.sent, e.held, broken \union Seam(e))
<1>1. NotEmitted.sent = <<>> /\ NotEmitted.held = m_held /\ NotEmitted.cut = 0  BY DEF NotEmitted
<1>2. given \o <<>> = given
  <2>1. given \in Seq(Block)  BY DEF Joined
  <2> QED  BY <2>1
<1>3. Seam(NotEmitted) = {}  BY <1>1 DEF Seam
<1> QED  BY <1>1, <1>2, <1>3

\* What the other half of Emit's callers do: a block that is empty goes nowhere.
LEMMA EmittedJoins ==
  ASSUME NEW block, block.pts \in Int, block.samples \in Int, block.rate \in Rates,
         Joined(given, m_held, broken)
  PROVE  LET e == Emitted(block) IN Joined(given \o e.sent, e.held, broken \union Seam(e))
<1>1. CASE block.samples > 0
  <2>1. block.samples \in Nat  BY <1>1
  <2> QED  BY <1>1, <2>1, EmitJoins DEF Emitted
<1>2. CASE ~(block.samples > 0)  BY <1>2, NotEmittedJoins DEF Emitted
<1> QED  BY <1>1, <1>2

\* What the resampler gives is a block, and with what it keeps that is all it was fed.
LEMMA ResampledBlock ==
  ASSUME inside \in Nat, part \in Nat, m_in.rate \in Rates, m_out_rate \in Rates,
         NEW n \in Nat, NEW pts \in Int, NEW drains
  PROVE  LET z == Resampled(n, pts, drains) IN
         /\ z.block.pts \in Int /\ z.block.samples \in Nat /\ z.block.rate \in Rates
         /\ z.left \in Nat /\ z.part \in Nat /\ (drains => z.left = 0)
         /\ z.block.samples * m_in.rate + z.part + z.left * m_out_rate
              = (inside + n) * m_out_rate + part
         /\ z.part < m_in.rate
<1> DEFINE total == inside + n
           left == IF drains THEN 0 ELSE Earlier(total, KeptBack)
           parts == (total - left) * m_out_rate + part
           z == Resampled(n, pts, drains)
<1>1. m_in.rate \in Nat \ {0} /\ m_out_rate \in Nat /\ Micros \in Nat /\ KeptBack \in Nat
  BY TimelineAssumption DEF Rates
<1>2. total \in Nat /\ left \in Nat /\ left <= total /\ (drains => left = 0)
  BY <1>1 DEF Earlier
<1>3. z = [block |-> [pts |-> pts - Rescale(inside, Micros, m_in.rate),
                      samples |-> parts \div m_in.rate, rate |-> m_out_rate],
           left |-> left, part |-> parts % m_in.rate]
  BY DEF Resampled
<1> SUFFICES
         /\ z.block.pts \in Int /\ z.block.samples \in Nat /\ z.block.rate \in Rates
         /\ z.left \in Nat /\ z.part \in Nat /\ (drains => z.left = 0)
         /\ z.block.samples * m_in.rate + z.part + z.left * m_out_rate
              = total * m_out_rate + part
         /\ z.part < m_in.rate
  OBVIOUS
<1> HIDE DEF total, left, z
<1>4. total - left \in Nat  BY <1>2
<1>5. parts \in Nat /\ parts + left * m_out_rate = total * m_out_rate + part
  <2>1. (total - left) * m_out_rate = total * m_out_rate - left * m_out_rate  BY <1>1, <1>2
  <2>2. (total - left) * m_out_rate \in Nat  BY <1>1, <1>4
  <2>3. PICK A, B, C : A = (total - left) * m_out_rate /\ B = left * m_out_rate
                       /\ C = total * m_out_rate
    OBVIOUS
  <2>4. A \in Nat /\ B \in Int /\ C \in Int  BY <1>1, <1>2, <2>2, <2>3
  <2>5. A + part \in Nat /\ (A + part) + B = C + part  BY <2>1, <2>3, <2>4
  <2> QED  BY <2>3, <2>5
<1> HIDE DEF parts
<1>6. PICK x, y, c : x = parts \div m_in.rate /\ y = parts % m_in.rate /\ c = m_in.rate  OBVIOUS
<1>7. x \in Nat /\ y \in Nat /\ y < c /\ x * c + y = parts
  BY <1>1, <1>5, <1>6, DivRest
<1>8. Rescale(inside, Micros, m_in.rate) \in Int  BY <1>1, RescaleBounds
<1>9. pts - Rescale(inside, Micros, m_in.rate) \in Int  BY <1>8
<1>10. /\ z.block.pts \in Int /\ z.block.samples = x /\ z.block.rate = m_out_rate
       /\ z.left = left /\ z.part = y
  BY <1>3, <1>6, <1>9
<1>11. x * c + y + left * m_out_rate = total * m_out_rate + part
  <2>1. PICK A, B, C : A = x * c /\ B = left * m_out_rate /\ C = total * m_out_rate  OBVIOUS
  <2>2. A \in Int /\ B \in Int /\ C \in Int  BY <1>1, <1>2, <1>6, <1>7, <2>1
  <2>3. A + y = parts /\ parts + B = C + part  BY <1>5, <1>7, <2>1
  <2>4. A + y + B = C + part  BY <1>7, <2>2, <2>3
  <2> QED  BY <2>1, <2>4
<1> QED  BY <1>2, <1>6, <1>7, <1>10, <1>11

\* The block that is held goes out, and what follows need not join it.
LEMMA HeldGoesOut ==
  ASSUME NEW g, NEW held, NEW b, Joined(g, held, b)
  PROVE  Joined(g \o held, <<>>, b \union {Len(g \o held)})
<1>0. g \in Seq(Block) /\ \A i \in 1..Len(g) - 1 : i \notin b => Joins(g[i], g[i + 1])
  BY DEF Joined
<1>1. CASE held = <<>>
  <2>1. g \o held = g  BY <1>0, <1>1
  <2> QED  BY <1>0, <2>1 DEF Joined
<1>2. CASE held # <<>>
  <2>1. PICK h \in Held : held = <<h>>  BY <1>2 DEF Joined
  <2>2. h \in Block /\ held[1] = h  BY <2>1 DEF Held
  <2> DEFINE n == Len(g)
             l == g \o held
  <2>3. /\ n \in Nat /\ l \in Seq(Block) /\ Len(l) = n + 1 /\ l[n + 1] = h
        /\ \A i \in 1..n : l[i] = g[i]
    BY <1>0, <2>1, <2>2
  <2>4. n \in 1..n /\ n \notin b => Joins(g[n], h)
    <3> SUFFICES ASSUME n \in 1..n, n \notin b PROVE Joins(g[n], h)  OBVIOUS
    <3>1. g # <<>>  OBVIOUS
    <3> QED  BY <2>2, <3>1 DEF Joined
  <2> HIDE DEF l
  <2>5. \A i \in 1..n - 1 : i \notin b => Joins(g[i], g[i + 1])  BY <1>0
  <2> HIDE DEF n
  <2>6. ASSUME NEW i \in 1..n, i \notin b PROVE Joins(l[i], l[i + 1])
    <3>1. CASE i = n  BY <2>3, <2>4, <2>6, <3>1
    <3>2. CASE i # n
      <4>1. i \in 1..n - 1 /\ i \in 1..n /\ i + 1 \in 1..n  BY <2>3, <2>6, <3>2
      <4>2. l[i] = g[i] /\ l[i + 1] = g[i + 1]  BY <2>3, <4>1
      <4> QED  BY <2>5, <2>6, <4>1, <4>2
    <3> QED  BY <3>1, <3>2
  <2>7. Len(l) - 1 = n  BY <2>3
  <2>8. \A i \in 1..Len(l) - 1 : i \notin b \union {Len(l)} => Joins(l[i], l[i + 1])
    BY <2>6, <2>7
  <2>9. Joined(l, <<>>, b \union {Len(l)})  BY <2>3, <2>8 DEF Joined
  <2> QED  BY <2>9 DEF l
<1> QED  BY <1>1, <1>2

\* What comes out of the resampler when it is drained joins what was given.
LEMMA DrainedJoins ==
  ASSUME Audio, Joined(given, m_held, broken)
  PROVE  Joined(given \o Drained.sent, Drained.held, broken \union Seam(Drained))
<1>1. CASE m_in # <<>> /\ ~m_passthrough
  <2>1. /\ m_in.rate \in Rates /\ m_out_rate \in Rates /\ inside \in Nat /\ part \in Nat
        /\ m_next_in_us \in Int
    BY <1>1 DEF Audio
  <2> DEFINE block == Resampled(0, m_next_in_us, TRUE).block
  <2>2. block.pts \in Int /\ block.samples \in Int /\ block.rate \in Rates
    <3>1. 0 \in Nat  OBVIOUS
    <3>2. block.samples \in Nat /\ block.pts \in Int /\ block.rate \in Rates
      BY <2>1, <3>1, ResampledBlock
    <3> HIDE DEF block
    <3> QED  BY <3>2
  <2>3. Drained = Emitted(block)  BY <1>1 DEF Drained
  <2> HIDE DEF block
  <2> QED  BY <2>2, <2>3, EmittedJoins
<1>2. CASE ~(m_in # <<>> /\ ~m_passthrough)
  <2>1. Drained = NotEmitted  BY <1>2 DEF Drained
  <2> QED  BY <2>1, NotEmittedJoins
<1> QED  BY <1>1, <1>2

\* Draining the resampler and handing on the block that is held leaves a seam at the end.
LEMMA FlushJoins ==
  ASSUME Audio, Joined(given, m_held, broken), Flush
  PROVE  Joined(given', m_held', broken') /\ inside' = 0 /\ part' = 0
<1>1. Joined(given \o Drained.sent, Drained.held, broken \union Seam(Drained))  BY DrainedJoins
<1>2. /\ given' = given \o Drained.sent \o Drained.held
      /\ broken' = broken \union Seam(Drained) \union {Len(given')}
      /\ m_held' = <<>> /\ inside' = 0 /\ part' = 0
  BY DEF Flush, Settles
<1> QED  BY <1>1, <1>2, HeldGoesOut

\* What a packet becomes: a frame, its timestamp in ticks and what is left of its samples.
LEMMA PacketFrame ==
  ASSUME NEW p \in SoundPacket, p.stream = "audio"
  PROVE  /\ Frame(p).pts \in Int /\ Frame(p).samples \in Int /\ Frame(p).rate \in Rates
         /\ (m_next_in_us \in Int => PtsUs(Frame(p)) \in Int)
<1>1. p \in Packet /\ p.rate \in Rates  BY DEF SoundPacket
<1>2. p.samples \in Int /\ p.skip \in Int /\ p.trim \in Int  BY <1>1 DEF Packet
<1>3. Start(p) \in Int /\ NoTime \in Int  BY <1>1, PacketTimes, Instants
<1>4. Frame(p).pts \in Int /\ Frame(p).samples \in Int /\ Frame(p).rate \in Rates
  BY <1>1, <1>2, <1>3 DEF Frame
<1>5. "audio" \in Streams  BY DEF Streams
<1> QED  BY <1>4, <1>5, Conversions DEF PtsUs

\* The packets of a pass are sound, and so are those still to come.
LEMMA PassesAreSound ==
  ASSUME NEW f \in Files, NEW w \in f
  PROVE  w \in Seq(SoundPacket)
<1>1. w \in Seq(Packet)  BY TimelineAssumption
<1>2. ASSUME NEW i \in 1..Len(w) PROVE w[i] \in SoundPacket
  <2>1. w[i] \in Packet /\ i \in DOMAIN w  BY <1>1
  <2>2. w[i].rate \in Nat \ {0}  BY <2>1 DEF Packet
  <2>3. w[i].stream = "audio" => CoversRounding(w[i].rate)  BY <2>1, ToleranceAssumption
  <2> QED  BY <2>1, <2>2, <2>3 DEF SoundPacket, Rates
<1>3. w \in [1..Len(w) -> SoundPacket] /\ Len(w) \in Nat  BY <1>1, <1>2
<1> QED  BY <1>3

Blocks == Joined(given, m_held, broken)

\* Nothing was given away at the start.
LEMMA AudioStarts == Init => Audio /\ Blocks
<1> SUFFICES ASSUME Init PROVE Audio /\ Blocks  OBVIOUS
<1>1. pass \in Seq(SoundPacket)  BY PassesAreSound DEF Init
<1>2. Audio  BY <1>1 DEF Init, Audio
<1>3. Blocks
  <2>1. given = <<>> /\ m_held = <<>>  BY DEF Init
  <2>2. given \in Seq(Block) /\ Len(given) = 0  BY <2>1
  <2> QED  BY <2>1, <2>2 DEF Blocks, Joined
<1> QED  BY <1>2, <1>3

\* Reading a packet hands it on, moved.
LEMMA ReadHandsOn ==
  ASSUME Follow, Audio, Reads
  PROVE  Audio'
<1> DEFINE p == Head(pass)
<1>1. /\ pass # <<>> /\ pass' = Tail(pass)
      /\ arrived' = IF p.stream = "audio" THEN <<Shifted(p)>> ELSE <<>>
      /\ UNCHANGED <<config_rate, inside, part, m_next_in_us, m_in, m_out_rate>>
  BY DEF Reads, audio
<1>2. p \in SoundPacket /\ Tail(pass) \in Seq(SoundPacket)  BY <1>1 DEF Audio
<1> HIDE DEF p
<1>3. Shifted(p) \in SoundPacket /\ Shifted(p).stream = p.stream
  <2>1. p \in Packet /\ (p.stream = "audio" => p.rate \in Rates)  BY <1>2 DEF SoundPacket
  <2>2. CASE p.pts = NoTime  BY <1>2, <2>2 DEF Shifted
  <2>3. CASE p.pts # NoTime
    <3>1. Shifted(p) = [p EXCEPT !.pts = @ + offset[p.stream]]  BY <2>3 DEF Shifted
    <3>2. p.stream \in Streams  BY <2>1 DEF Packet
    <3>3. offset[p.stream] \in Int
      <4>1. m_offset_us \in Int /\ offset[p.stream] = FromMicros(m_offset_us, p.stream)
        BY <3>2 DEF Follow, Tracks
      <4> QED  BY <3>2, <4>1, Conversions
    <3>4. Shifted(p) \in Packet /\ Shifted(p).stream = p.stream  BY <2>1, <3>1, <3>3, PacketMoves
    <3>5. Shifted(p).rate = p.rate  BY <2>1, <3>1 DEF Packet
    <3> QED  BY <2>1, <3>4, <3>5 DEF SoundPacket
  <2> QED  BY <2>2, <2>3
<1> QED  BY <1>1, <1>2, <1>3 DEF Audio

\* A frame whose settings are new goes through a resampler made for them.
LEMMA ConfiguresWell ==
  ASSUME Audio, NEW f, f.rate \in Rates, Configure(f)
  PROVE  m_in'.rate \in Rates /\ m_out_rate' \in Rates
<1>1. m_in'.rate = f.rate /\ m_out_rate' = IF config_rate > 0 THEN config_rate ELSE f.rate
  BY DEF Configure, Settings
<1>2. config_rate > 0 => config_rate \in Rates
  <2>1. config_rate \in OutRates /\ OutRates \subseteq Nat  BY TimelineAssumption DEF Audio
  <2> SUFFICES ASSUME config_rate > 0 PROVE config_rate \in Rates  OBVIOUS
  <2>2. config_rate \in OutRates \ {0} /\ config_rate \in Nat \ {0}  BY <2>1
  <2> QED  BY <2>2, ToleranceAssumption DEF Rates
<1> QED  BY <1>1, <1>2

\* The old resampler is drained before the new one is made.
LEMMA ReconfigureKeeps ==
  ASSUME Audio, Blocks, ProcessReconfigures
  PROVE  Audio' /\ Blocks'
<1> DEFINE f == Frame(arrived[1])
<1>1. arrived # <<>> /\ Reconfigures(f)
      /\ UNCHANGED <<pass, arrived, config_rate, m_next_in_us>>
  BY DEF ProcessReconfigures, input
<1>2. PICK p \in SoundPacket : p.stream = "audio" /\ arrived = <<p>>  BY <1>1 DEF Audio
<1>3. f.rate \in Rates  BY <1>2, PacketFrame
<1> HIDE DEF f
<1>4. Joined(given', m_held', broken') /\ inside' = 0 /\ part' = 0
  BY <1>1, FlushJoins DEF Reconfigures, Blocks
<1>5. m_in'.rate \in Rates /\ m_out_rate' \in Rates  BY <1>1, <1>3, ConfiguresWell DEF Reconfigures
<1>6. Audio'  BY <1>1, <1>4, <1>5 DEF Audio
<1> QED  BY <1>4, <1>6 DEF Blocks

\* A frame is copied or resampled, and the block that comes of it goes to Emit.
LEMMA ProcessKeeps ==
  ASSUME Audio, Blocks, Process
  PROVE  Audio' /\ Blocks'
<1> DEFINE f == Frame(arrived[1])
           e == Emitted(Made(f).block)
<1>1. /\ arrived # <<>> /\ f.samples > 0 /\ ~NeedsReconfigure(f)
      /\ m_next_in_us' = PtsUs(f) + Rescale(f.samples, Micros, f.rate)
      /\ inside' = Made(f).left /\ part' = Made(f).part
      /\ given' = given \o e.sent /\ m_held' = e.held /\ broken' = broken \union Seam(e)
      /\ arrived' = <<>>
      /\ UNCHANGED <<pass, config_rate, m_in, m_out_rate>>
  BY DEF Process, input
<1>2. PICK p \in SoundPacket : p.stream = "audio" /\ arrived = <<p>>  BY <1>1 DEF Audio
<1>3. f.rate \in Rates /\ f.samples \in Int /\ f.pts \in Int /\ PtsUs(f) \in Int
  <2>1. arrived[1] = p /\ m_next_in_us \in Int  BY <1>2 DEF Audio
  <2> QED  BY <1>2, <2>1, PacketFrame
<1>4. m_in = Settings(f) /\ m_in.rate = f.rate  BY <1>1 DEF NeedsReconfigure, Settings
<1>5. m_in # <<>>
  <2>1. DOMAIN Settings(f) = {"rate", "planar"}  BY DEF Settings
  <2> QED  BY <1>4, <2>1
<1>6. m_out_rate \in Rates /\ m_in.rate \in Rates /\ inside \in Nat /\ part \in Nat
  BY <1>5 DEF Audio
<1> HIDE DEF f
<1>7. /\ Made(f).block.pts \in Int /\ Made(f).block.samples \in Int
      /\ Made(f).block.rate \in Rates /\ Made(f).left \in Nat /\ Made(f).part \in Nat
  <2>1. f.samples \in Nat  BY <1>1, <1>3
  <2>2. CASE m_passthrough  BY <1>3, <2>2 DEF Made
  <2>3. CASE ~m_passthrough
    <3>1. Made(f) = Resampled(f.samples, PtsUs(f), FALSE)  BY <2>3 DEF Made
    <3> DEFINE z == Resampled(f.samples, PtsUs(f), FALSE)
    <3>2. /\ z.block.pts \in Int /\ z.block.samples \in Nat /\ z.block.rate \in Rates
          /\ z.left \in Nat /\ z.part \in Nat
      BY <1>3, <1>6, <2>1, ResampledBlock
    <3> HIDE DEF z
    <3>3. z.block.samples \in Int  BY <3>2
    <3> QED  BY <3>1, <3>2, <3>3 DEF z
  <2> QED  BY <2>2, <2>3
<1>8. m_next_in_us' \in Int
  <2>1. Micros \in Nat /\ f.rate \in Nat \ {0}  BY <1>3, TimelineAssumption DEF Rates
  <2>2. Rescale(f.samples, Micros, f.rate) \in Int  BY <1>3, <2>1, RescaleBounds
  <2> QED  BY <1>1, <1>3, <2>2
<1>9. Audio'  BY <1>1, <1>6, <1>7, <1>8 DEF Audio
<1>10. Joined(given \o e.sent, e.held, broken \union Seam(e))
  BY <1>7, EmittedJoins DEF Blocks
<1> HIDE DEF e
<1>11. Blocks'  BY <1>1, <1>10 DEF Blocks
<1> QED  BY <1>9, <1>11

\* At the end all is handed on, unless there was a stop.
LEMMA FinishKeeps ==
  ASSUME Audio, Blocks, Finishes
  PROVE  Audio' /\ Blocks'
<1>1. UNCHANGED <<pass, arrived, config_rate, m_in, m_out_rate, m_next_in_us>>
  BY DEF Finishes, input
<1>2. CASE stop
  <2>1. UNCHANGED <<given, broken, m_held, inside, part>>  BY <1>2 DEF Finishes
  <2> QED  BY <1>1, <2>1 DEF Audio, Blocks
<1>3. CASE ~stop
  <2>1. Joined(given', m_held', broken') /\ inside' = 0 /\ part' = 0
    BY <1>3, FlushJoins DEF Finishes, Blocks
  <2> QED  BY <1>1, <2>1 DEF Audio, Blocks
<1> QED  BY <1>2, <1>3

\* So every step keeps the blocks together.
LEMMA AudioKept == Follow /\ Audio /\ Blocks /\ [Next]_vars => Audio' /\ Blocks'
<1> SUFFICES ASSUME Follow, Audio, Blocks, [Next]_vars PROVE Audio' /\ Blocks'  OBVIOUS
<1>1. ASSUME UNCHANGED <<m_in, m_out_rate, inside, part, m_next_in_us, m_held, given, broken,
                         pass, config_rate>>,
             UNCHANGED arrived \/ arrived' = <<>>
      PROVE  Audio' /\ Blocks'
  BY <1>1 DEF Audio, Blocks
<1>2. CASE Reads
  <2>1. UNCHANGED <<m_held, given, broken>>  BY <1>2 DEF Reads, audio
  <2> QED  BY <1>2, <2>1, ReadHandsOn DEF Blocks
<1>3. CASE Restarts
  <2>1. /\ pass' \in file
        /\ UNCHANGED <<m_in, m_out_rate, inside, part, m_next_in_us, m_held, given, broken, arrived,
                       config_rate>>
    BY <1>3 DEF Restarts, audio
  <2>2. pass' \in Seq(SoundPacket)  BY <2>1, PassesAreSound DEF Follow, Tracks
  <2> QED  BY <2>1, <2>2 DEF Audio, Blocks
<1>4. CASE Ends \/ Fails \/ RequestStop \/ ProcessesNothing \/ Done \/ UNCHANGED vars
  BY <1>1, <1>4, SMT DEF Ends, Fails, RequestStop, ProcessesNothing, Done, vars, input, audio
<1>5. CASE ProcessReconfigures  BY <1>5, ReconfigureKeeps
<1>6. CASE Process  BY <1>6, ProcessKeeps
<1>7. CASE Finishes  BY <1>7, FinishKeeps
<1> QED  BY <1>2, <1>3, <1>4, <1>5, <1>6, <1>7 DEF Next

\* For any input, any rates and any number of passes, of two blocks the sink takes one behind
\* the other, with no flush and no trimmed block between them, the first ends where the second
\* begins: overlaps are trimmed to the sample, and no more than the overlap is cut.
THEOREM BlocksFollow == Spec => []BlocksJoin
<1>1. Blocks => BlocksJoin  BY DEF Blocks, Joined, BlocksJoin
<1>2. Init => Follow /\ Audio /\ Blocks  BY FollowStarts, AudioStarts
<1>3. (Follow /\ Audio /\ Blocks) /\ [Next]_vars => (Follow /\ Audio /\ Blocks)'
  BY FollowKept, AudioKept
<1> QED  BY <1>1, <1>2, <1>3, PTL DEF Spec
-----------------------------------------------------------------------------
\* Numbers have a least one among any of them.
LEMMA Least ==
  ASSUME NEW T, T \subseteq Nat, T # {}
  PROVE  \E x \in T : \A y \in T : x <= y
<1>1. IsWellFoundedOn(OpToRel(<, Nat), Nat)  BY NatLessThanWellFounded
<1>2. PICK x \in T : \A y \in T : ~(<<y, x>> \in OpToRel(<, Nat))  BY <1>1, WFMin
<1>3. \A y \in T : ~(y < x)  BY <1>2 DEF OpToRel
<1>4. x \in Nat /\ \A y \in T : y \in Nat  BY <1>2
<1>5. \A y \in T : x <= y  BY <1>3, <1>4
<1> QED  BY <1>2, <1>5

\* So a set that holds 0 and what follows each number it holds has them all.
LEMMA Induction ==
  ASSUME NEW S, 0 \in S, \A n \in Nat : n \in S => n + 1 \in S
  PROVE  Nat \subseteq S
<1> DEFINE T == Nat \ S
<1> SUFFICES ASSUME T # {} PROVE FALSE  OBVIOUS
<1>1. PICK x \in T : \A y \in T : x <= y  BY Least
<1>2. x \in Nat /\ x # 0  OBVIOUS
<1>3. x - 1 \in Nat /\ x - 1 \notin T  BY <1>1, <1>2
<1>4. x - 1 \in S  BY <1>3
<1>5. (x - 1) + 1 \in S  BY <1>3, <1>4
<1> QED  BY <1>2, <1>5

\* The samples of the first i blocks, for each i up to n.
IsSum(f, s, n) == f = [i \in 0..n |-> IF i = 0 THEN 0 ELSE f[i - 1] + s[i].samples]

\* There is such a function for as many blocks as there are, and SamplesIn is its last value.
LEMMA SumsExist ==
  ASSUME NEW s \in Seq(Block)
  PROVE  \E f : IsSum(f, s, Len(s)) /\ SamplesIn(s) = f[Len(s)]
<1> DEFINE N == {n \in Nat : \E f : IsSum(f, s, n)}
<1>1. 0 \in N
  <2> DEFINE g == [i \in 0..0 |-> 0]
  <2>1. IsSum(g, s, 0)  BY DEF IsSum
  <2> HIDE DEF g
  <2> QED  BY <2>1
<1>2. ASSUME NEW n \in Nat, n \in N PROVE n + 1 \in N
  <2>1. PICK f : IsSum(f, s, n)  BY <1>2
  <2> DEFINE g == [i \in 0..(n + 1) |-> IF i = n + 1 THEN f[n] + s[n + 1].samples ELSE f[i]]
  <2>2. \A i \in 0..n : f[i] = IF i = 0 THEN 0 ELSE f[i - 1] + s[i].samples  BY <2>1 DEF IsSum
  <2>3. g[n + 1] = f[n] + s[n + 1].samples /\ \A i \in 0..n : g[i] = f[i]  OBVIOUS
  <2>4. g = [i \in 0..(n + 1) |-> g[i]]  OBVIOUS
  <2> HIDE DEF g
  <2>5. ASSUME NEW i \in 0..(n + 1)
        PROVE  g[i] = IF i = 0 THEN 0 ELSE g[i - 1] + s[i].samples
    <3>1. CASE i = n + 1
      <4>1. n \in 0..n /\ i - 1 = n /\ i # 0  BY <3>1
      <4> QED  BY <2>3, <3>1, <4>1
    <3>2. CASE i \in 0..n /\ i # 0
      <4>1. i - 1 \in 0..n  BY <3>2
      <4> QED  BY <2>2, <2>3, <3>2, <4>1
    <3>3. CASE i = 0
      <4>1. 0 \in 0..n  OBVIOUS
      <4> QED  BY <2>2, <2>3, <3>3, <4>1
    <3>4. i = n + 1 \/ i \in 0..n  OBVIOUS
    <3> QED  BY <3>1, <3>2, <3>3, <3>4
  <2>6. IsSum(g, s, n + 1)  BY <2>4, <2>5 DEF IsSum
  <2> QED  BY <2>6
<1> HIDE DEF N
<1>3. Nat \subseteq N  BY <1>1, <1>2, Induction
<1>4. PICK f : IsSum(f, s, Len(s))
  <2>1. Len(s) \in N  BY <1>3
  <2> QED  BY <2>1 DEF N
<1>5. SamplesIn(s) = (CHOOSE g : IsSum(g, s, Len(s)))[Len(s)]  BY DEF SamplesIn, IsSum
<1> QED  BY <1>4, <1>5

\* It counts whole samples.
LEMMA SumsAreNumbers ==
  ASSUME NEW s \in Seq(Block), NEW f, NEW n \in Nat, n <= Len(s), IsSum(f, s, n)
  PROVE  f[n] \in Nat
<1> DEFINE N == {k \in Nat : k <= n => f[k] \in Nat}
<1>1. 0 \in N  BY DEF IsSum
<1>2. ASSUME NEW k \in Nat, k \in N PROVE k + 1 \in N
  <2> SUFFICES ASSUME k + 1 <= n PROVE f[k + 1] \in Nat  OBVIOUS
  <2>1. f[k] \in Nat  BY <1>2
  <2>2. s[k + 1].samples \in Nat
    <3>1. s[k + 1] \in Block  OBVIOUS
    <3> QED  BY <3>1 DEF Block
  <2>3. f[k + 1] = f[k] + s[k + 1].samples  BY DEF IsSum
  <2> QED  BY <2>1, <2>2, <2>3
<1> HIDE DEF N
<1>3. n \in N  BY <1>1, <1>2, Induction
<1> QED  BY <1>3 DEF N

\* No block has no samples, and one more adds its own.
LEMMA SamplesAddUp ==
  /\ SamplesIn(<<>>) = 0
  /\ \A s \in Seq(Block) : SamplesIn(s) \in Nat
  /\ \A s \in Seq(Block), b \in Block : SamplesIn(s \o <<b>>) = SamplesIn(s) + b.samples
  /\ \A b \in Block : SamplesIn(<<b>>) = b.samples
<1>1. SamplesIn(<<>>) = 0
  <2>1. <<>> \in Seq(Block) /\ Len(<<>>) = 0  OBVIOUS
  <2>2. PICK f : IsSum(f, <<>>, 0) /\ SamplesIn(<<>>) = f[0]  BY <2>1, SumsExist
  <2> QED  BY <2>2 DEF IsSum
<1>2. ASSUME NEW s \in Seq(Block) PROVE SamplesIn(s) \in Nat
  <2>1. PICK f : IsSum(f, s, Len(s)) /\ SamplesIn(s) = f[Len(s)]  BY SumsExist
  <2>2. Len(s) \in Nat /\ Len(s) <= Len(s)  OBVIOUS
  <2> QED  BY <2>1, <2>2, SumsAreNumbers
<1>3. ASSUME NEW s \in Seq(Block), NEW b \in Block
      PROVE  SamplesIn(s \o <<b>>) = SamplesIn(s) + b.samples
  <2> DEFINE t == s \o <<b>>
             n == Len(s)
  <2>1. /\ n \in Nat /\ t \in Seq(Block) /\ Len(t) = n + 1 /\ t[n + 1] = b
        /\ \A i \in 1..n : s[i] = t[i]
    OBVIOUS
  <2>2. PICK f : IsSum(f, s, n) /\ SamplesIn(s) = f[n]  BY SumsExist
  <2> HIDE DEF t
  <2>3. PICK g : IsSum(g, t, n + 1) /\ SamplesIn(t) = g[n + 1]  BY <2>1, SumsExist
  <2> HIDE DEF n
  <2>4. f[n] = g[n]
    <3> DEFINE N == {k \in Nat : k <= n => f[k] = g[k]}
    <3>1. 0 \in N  BY <2>1, <2>2, <2>3 DEF IsSum
    <3>2. ASSUME NEW k \in Nat, k \in N PROVE k + 1 \in N
      <4> SUFFICES ASSUME k + 1 <= n PROVE f[k + 1] = g[k + 1]  OBVIOUS
      <4>1. f[k] = g[k] /\ s[k + 1] = t[k + 1]  BY <2>1, <3>2
      <4>2. f[k + 1] = f[k] + s[k + 1].samples  BY <2>1, <2>2 DEF IsSum
      <4>3. g[k + 1] = g[k] + t[k + 1].samples  BY <2>1, <2>3 DEF IsSum
      <4> QED  BY <4>1, <4>2, <4>3
    <3> HIDE DEF N
    <3>3. n \in N  BY <2>1, <3>1, <3>2, Induction
    <3> QED  BY <3>3 DEF N
  <2>5. g[n + 1] = g[n] + b.samples  BY <2>1, <2>3 DEF IsSum
  <2> QED  BY <2>2, <2>3, <2>4, <2>5 DEF t
<1>4. ASSUME NEW b \in Block PROVE SamplesIn(<<b>>) = b.samples
  <2>1. <<>> \in Seq(Block) /\ <<>> \o <<b>> = <<b>>  OBVIOUS
  <2>2. SamplesIn(<<b>>) = SamplesIn(<<>>) + b.samples  BY <1>3, <2>1
  <2>3. b.samples \in Nat  BY DEF Block
  <2> QED  BY <1>1, <2>2, <2>3
<1> QED  BY <1>1, <1>2, <1>3, <1>4

\* What is left of a block whose tail is trimmed is part of it.
LEMMA TrimmedSamples ==
  ASSUME NEW h \in Held, NEW next, next.pts \in Int
  PROVE  Trimmed(h, next).samples \in Nat
<1>1. /\ h \in Block /\ h.pts \in Int /\ h.samples \in Nat /\ h.rate \in Nat \ {0}
      /\ Micros \in Nat \ {0}
  BY TimelineAssumption DEF Held, Block, Rates
<1> DEFINE k == Keep(h, next)
           n == Earlier(Later(k, 0), h.samples)
<1>2. k \in Int
  <2>1. next.pts - h.pts \in Int /\ h.rate \in Nat  BY <1>1
  <2> QED  BY <1>1, <2>1, RescaleBounds DEF Keep
<1> HIDE DEF k
<1>3. n \in Nat  BY <1>1, <1>2 DEF Earlier, Later
<1>4. Trimmed(h, next) = [h EXCEPT !.samples = n] \/ Trimmed(h, next) = h
  BY DEF Trimmed, n, k
<1> HIDE DEF n
<1>5. [h EXCEPT !.samples = n].samples = n  BY <1>1 DEF Block
<1> QED  BY <1>1, <1>3, <1>4, <1>5

\* Emit accounts for the samples of the block it is given, and for no others.
LEMMA EmittedCounts ==
  ASSUME NEW block, block.pts \in Int, block.samples \in Nat, block.rate \in Rates,
         Blocks, cut \in Int
  PROVE  LET e == Emitted(block) IN
         /\ e.cut \in Int
         /\ SamplesIn(given \o e.sent) + SamplesIn(e.held) + (cut + e.cut)
              = Emissions + block.samples
<1> DEFINE e == Emitted(block)
           next == [pts |-> block.pts, samples |-> block.samples, rate |-> block.rate,
                    was |-> block.samples]
<1> SUFFICES /\ e.cut \in Int
             /\ SamplesIn(given \o e.sent) + SamplesIn(e.held) + (cut + e.cut)
                  = Emissions + block.samples
  OBVIOUS
<1>1. given \in Seq(Block) /\ given \o <<>> = given
  <2>1. given \in Seq(Block)  BY DEF Blocks, Joined
  <2> QED  BY <2>1
<1>2. SamplesIn(given) \in Nat /\ SamplesIn(<<>>) = 0  BY <1>1, SamplesAddUp
<1>3. Emissions = SamplesIn(given) + SamplesIn(m_held) + cut  BY DEF Emissions
<1>4. next \in Block /\ next.samples = block.samples /\ next.pts \in Int  BY DEF Block
<1>5. SamplesIn(<<next>>) = block.samples  BY <1>4, SamplesAddUp
<1>6. m_held = <<>> \/ \E h \in Held : m_held = <<h>>  BY DEF Blocks, Joined
<1>7. SamplesIn(m_held) \in Nat
  <2>1. \A h \in Held : h \in Block /\ h.samples \in Nat  BY DEF Held, Block
  <2> QED  BY <1>2, <1>6, <2>1, SamplesAddUp
<1>8. CASE block.samples = 0
  <2>1. e = NotEmitted  BY <1>8 DEF Emitted
  <2>2. e.sent = <<>> /\ e.held = m_held /\ e.cut = 0  BY <2>1 DEF NotEmitted
  <2> HIDE DEF e
  <2> QED  BY <1>1, <1>2, <1>3, <1>7, <1>8, <2>2
<1>9. CASE block.samples # 0
  <2>1. e = Emits(m_held, block)  BY <1>9 DEF Emitted
  <2>2. CASE m_held = <<>>
    <3>1. e.sent = <<>> /\ e.held = <<next>> /\ e.cut = 0  BY <2>1, <2>2 DEF Emits
    <3> HIDE DEF e, next
    <3>2. SamplesIn(given \o e.sent) = SamplesIn(given) /\ SamplesIn(e.held) = block.samples
      BY <1>1, <1>5, <3>1
    <3>3. SamplesIn(m_held) = 0  BY <1>2, <2>2
    <3> QED  BY <1>2, <1>3, <3>1, <3>2, <3>3
  <2>3. CASE m_held # <<>>
    <3>1. PICK h \in Held : m_held = <<h>>  BY <1>6, <2>3
    <3>2. m_held[1] = h /\ h \in Block /\ h.samples \in Nat /\ h.samples = SamplesIn(m_held)
      <4>1. h \in Block /\ h.samples \in Nat  BY DEF Held, Block
      <4> QED  BY <3>1, <4>1, SamplesAddUp
    <3> DEFINE out == Trimmed(h, next)
    <3>3. /\ e.sent = (IF out.samples > 0 THEN <<out>> ELSE <<>>)
          /\ e.held = <<next>> /\ e.cut = h.samples - out.samples
      BY <2>1, <2>3, <3>2 DEF Emits
    <3>4. out.samples \in Nat  BY <1>4, TrimmedSamples
    <3>5. out.samples > 0 => out \in Block  BY <1>4, TrimmedJoins
    <3> HIDE DEF e, next, out
    <3>6. SamplesIn(given \o e.sent) = SamplesIn(given) + out.samples
      <4>1. CASE out.samples > 0  BY <1>1, <3>3, <3>5, <4>1, SamplesAddUp
      <4>2. CASE ~(out.samples > 0)
        <5>1. e.sent = <<>>  BY <3>3, <4>2
        <5>2. out.samples = 0  BY <3>4, <4>2
        <5>3. SamplesIn(given \o e.sent) = SamplesIn(given)  BY <1>1, <5>1
        <5> QED  BY <1>2, <5>2, <5>3
      <4> QED  BY <4>1, <4>2
    <3>7. SamplesIn(e.held) = block.samples  BY <1>5, <3>3
    <3>8. PICK g, d, k, n : /\ g = SamplesIn(given) /\ d = out.samples /\ k = h.samples
                            /\ n = block.samples
      OBVIOUS
    <3>9. g \in Nat /\ d \in Nat /\ k \in Nat /\ n \in Nat  BY <1>2, <3>2, <3>4, <3>8
    <3>10. e.cut = k - d /\ Emissions = g + k + cut  BY <1>3, <3>2, <3>3, <3>8
    <3>11. SamplesIn(given \o e.sent) = g + d /\ SamplesIn(e.held) = n  BY <3>6, <3>7, <3>8
    <3>12. k - d \in Int /\ (g + d) + n + (cut + (k - d)) = (g + k + cut) + n  BY <3>9
    <3> QED  BY <3>8, <3>10, <3>11, <3>12
  <2> QED  BY <2>2, <2>3
<1> QED  BY <1>8, <1>9

\* How the samples that were taken and those that were given are related.  A frame that
\* is copied needs no resampler.
Counted ==
    /\ fed \in Nat /\ due \in Int /\ cut \in Int
    /\ m_in = <<>> => fed = 0 /\ Emissions = due
    /\ m_in # <<>> /\ m_passthrough => inside = 0 /\ part = 0 /\ m_out_rate = m_in.rate
    /\ NoSampleIsLost

\* What was emitted is a number.
LEMMA EmissionsAreNumbers == Blocks /\ cut \in Int => Emissions \in Int
<1> SUFFICES ASSUME Blocks, cut \in Int PROVE Emissions \in Int  OBVIOUS
<1>1. given \in Seq(Block)  BY DEF Blocks, Joined
<1>2. m_held = <<>> \/ \E h \in Held : m_held = <<h>>  BY DEF Blocks, Joined
<1>3. \A h \in Held : h \in Block /\ h.samples \in Nat  BY DEF Held, Block
<1>4. SamplesIn(given) \in Nat /\ SamplesIn(m_held) \in Nat  BY <1>1, <1>2, <1>3, SamplesAddUp
<1> QED  BY <1>4 DEF Emissions

\* At the start there is nothing to account for.
LEMMA CountStarts == Init => Counted
<1> SUFFICES ASSUME Init PROVE Counted  OBVIOUS
<1>1. Emissions = 0
  <2>1. given = <<>> /\ m_held = <<>> /\ cut = 0  BY DEF Init
  <2>2. SamplesIn(<<>>) = 0  BY SamplesAddUp
  <2> QED  BY <2>1, <2>2 DEF Emissions
<1> QED  BY <1>1 DEF Init, Counted, NoSampleIsLost

\* A flush gives all that is owed, and starts anew.
LEMMA FlushCounts ==
  ASSUME Audio, Blocks, Counted, Flush
  PROVE  /\ fed' = 0 /\ inside' = 0 /\ part' = 0
         /\ due' \in Int /\ cut' \in Int /\ Emissions' = due'
<1> DEFINE owed == IF m_in = <<>> THEN 0 ELSE (fed * m_out_rate) \div m_in.rate
           d == Drained
<1>1. /\ given' = given \o d.sent \o d.held /\ m_held' = <<>> /\ cut' = cut + d.cut
      /\ fed' = 0 /\ inside' = 0 /\ part' = 0 /\ due' = due + owed
  BY DEF Flush, Settles
<1>2. /\ fed \in Nat /\ due \in Int /\ cut \in Int /\ NoSampleIsLost /\ Emissions \in Int
      /\ inside \in Nat /\ part \in Nat /\ m_next_in_us \in Int
  BY EmissionsAreNumbers DEF Counted, Audio
<1>3. m_in # <<>> => m_in.rate \in Rates /\ m_out_rate \in Rates
                     /\ m_in.rate \in Nat \ {0} /\ m_out_rate \in Nat
  BY DEF Audio, Rates
<1>4. /\ d.cut \in Int /\ owed \in Int
      /\ SamplesIn(given \o d.sent) + SamplesIn(d.held) + (cut + d.cut) = due + owed
  <2>1. CASE m_in # <<>> /\ ~m_passthrough
    <3> DEFINE z == Resampled(0, m_next_in_us, TRUE)
    <3>1. d = Emitted(z.block)  BY <2>1 DEF Drained
    <3>2. /\ z.block.pts \in Int /\ z.block.samples \in Nat /\ z.block.rate \in Rates
          /\ z.left = 0 /\ z.part \in Nat /\ z.part < m_in.rate
          /\ z.block.samples * m_in.rate + z.part + z.left * m_out_rate
               = (inside + 0) * m_out_rate + part
      <4>1. 0 \in Nat  OBVIOUS
      <4> QED  BY <1>2, <1>3, <2>1, <4>1, ResampledBlock
    <3> HIDE DEF z
    <3>3. /\ d.cut \in Int
          /\ SamplesIn(given \o d.sent) + SamplesIn(d.held) + (cut + d.cut)
               = Emissions + z.block.samples
      BY <1>2, <3>1, <3>2, EmittedCounts
    <3>4. owed = Emissions - due + z.block.samples
      <4>1. PICK r, o, x, y, E : r = m_in.rate /\ o = m_out_rate /\ x = z.block.samples
                                 /\ y = z.part /\ E = Emissions - due
        OBVIOUS
      <4>2. /\ r \in Nat \ {0} /\ o \in Nat /\ x \in Nat /\ y \in Nat /\ E \in Int /\ y < r
        BY <1>2, <1>3, <2>1, <3>2, <4>1
      <4>3. E * r + part + inside * o = fed * o  BY <1>2, <2>1, <4>1 DEF NoSampleIsLost
      <4>4. x * r + y = inside * o + part  BY <1>2, <3>2, <4>1, <4>2
      <4>5. (E + x) * r + y = fed * o
        <5>1. (E + x) * r = E * r + x * r  BY <4>2
        <5>2. PICK A, B, C, D : A = E * r /\ B = x * r /\ C = inside * o /\ D = fed * o  OBVIOUS
        <5>3. A \in Int /\ B \in Int /\ C \in Int /\ D \in Int  BY <1>2, <4>2, <5>2
        <5>4. A + B + y = D  BY <1>2, <4>2, <4>3, <4>4, <5>2, <5>3
        <5> QED  BY <5>1, <5>2, <5>4
      <4>6. fed * o \in Nat  BY <1>2, <4>2
      <4>7. (fed * o) \div r = E + x  BY <4>2, <4>5, <4>6, Quotient
      <4> QED  BY <1>2, <2>1, <4>1, <4>2, <4>7
    <3> HIDE DEF owed, d
    <3> QED  BY <1>2, <3>2, <3>3, <3>4
  <2>2. CASE ~(m_in # <<>> /\ ~m_passthrough)
    <3>1. d.sent = <<>> /\ d.held = m_held /\ d.cut = 0  BY <2>2 DEF Drained, NotEmitted
    <3>2. given \o <<>> = given
      <4>1. given \in Seq(Block)  BY DEF Blocks, Joined
      <4> QED  BY <4>1
    <3>3. SamplesIn(given \o d.sent) + SamplesIn(d.held) + (cut + d.cut) = Emissions
      BY <1>2, <3>1, <3>2 DEF Emissions
    <3>4. owed = Emissions - due
      <4>1. CASE m_in = <<>>  BY <1>2, <4>1 DEF Counted
      <4>2. CASE m_in # <<>>
        <5>1. PICK r, o, E : r = m_in.rate /\ o = m_out_rate /\ E = Emissions - due  OBVIOUS
        <5>2. r \in Nat \ {0} /\ o \in Nat /\ E \in Int  BY <1>2, <1>3, <4>2, <5>1
        <5>3. inside = 0 /\ part = 0  BY <2>2, <4>2 DEF Counted
        <5>4. E * r + 0 + 0 * o = fed * o  BY <1>2, <4>2, <5>1, <5>3 DEF NoSampleIsLost
        <5>5. fed * o \in Nat /\ E * r + 0 = fed * o /\ 0 < r  BY <1>2, <5>2, <5>4
        <5>6. (fed * o) \div r = E  BY <5>2, <5>5, Quotient
        <5> QED  BY <4>2, <5>1, <5>6
      <4> QED  BY <4>1, <4>2
    <3> HIDE DEF owed, d
    <3> QED  BY <1>2, <3>1, <3>3, <3>4
  <2> QED  BY <2>1, <2>2
<1>5. SamplesIn(given') = SamplesIn(given \o d.sent) + SamplesIn(d.held)
  <2>1. Joined(given \o d.sent, d.held, broken \union Seam(d))  BY DrainedJoins DEF Blocks
  <2>2. given \o d.sent \in Seq(Block) /\ (d.held = <<>> \/ \E h \in Held : d.held = <<h>>)
    BY <2>1 DEF Joined
  <2>3. \A h \in Held : h \in Block /\ h.samples \in Nat  BY DEF Held, Block
  <2> DEFINE g == given \o d.sent
  <2>4. given' = g \o d.held  BY <1>1
  <2> HIDE DEF g, d
  <2>5. CASE d.held = <<>>
    <3>1. g \o d.held = g  BY <2>2, <2>5 DEF g
    <3>2. SamplesIn(g) \in Nat /\ SamplesIn(d.held) = 0  BY <2>2, <2>5, SamplesAddUp DEF g
    <3> QED  BY <2>4, <3>1, <3>2 DEF g
  <2>6. CASE \E h \in Held : d.held = <<h>>
    <3>1. PICK h \in Held : d.held = <<h>>  BY <2>6
    <3>2. SamplesIn(d.held) = h.samples /\ SamplesIn(g \o d.held) = SamplesIn(g) + h.samples
      BY <2>2, <2>3, <3>1, SamplesAddUp DEF g
    <3> QED  BY <2>4, <3>2 DEF g
  <2> QED  BY <2>2, <2>5, <2>6
<1> HIDE DEF d, owed
<1>6. Emissions' = SamplesIn(given') + SamplesIn(m_held') + cut'  BY DEF Emissions
<1>7. SamplesIn(m_held') = 0  BY <1>1, SamplesAddUp
<1>8. SamplesIn(given \o d.sent) \in Nat /\ SamplesIn(d.held) \in Nat
  <2>1. Joined(given \o d.sent, d.held, broken \union Seam(d))  BY DrainedJoins DEF Blocks, d
  <2>2. given \o d.sent \in Seq(Block) /\ (d.held = <<>> \/ \E h \in Held : d.held = <<h>>)
    BY <2>1 DEF Joined
  <2>3. \A h \in Held : h \in Block /\ h.samples \in Nat  BY DEF Held, Block
  <2>4. \A h \in Held : SamplesIn(<<h>>) \in Nat  BY <2>3, SamplesAddUp
  <2>5. SamplesIn(d.held) \in Nat
    <3>1. CASE d.held = <<>>
      <4>1. SamplesIn(d.held) = 0  BY <3>1, SamplesAddUp
      <4> QED  BY <4>1
    <3>2. CASE \E h \in Held : d.held = <<h>>  BY <2>4, <3>2
    <3> QED  BY <2>2, <3>1, <3>2
  <2>6. SamplesIn(given \o d.sent) \in Nat  BY <2>2, SamplesAddUp
  <2> QED  BY <2>5, <2>6
<1>9. PICK A, B, E : A = SamplesIn(given \o d.sent) /\ B = SamplesIn(d.held) /\ E = Emissions'
  OBVIOUS
<1>10. E = (A + B) + 0 + (cut + d.cut)  BY <1>1, <1>5, <1>6, <1>7, <1>9
<1>11. E = due + owed  BY <1>2, <1>4, <1>8, <1>9, <1>10
<1>12. due' \in Int /\ cut' \in Int /\ E = due'  BY <1>1, <1>2, <1>4, <1>11
<1> QED  BY <1>1, <1>9, <1>12

\* What a flush leaves accounts for any settings.
LEMMA SettledCounts ==
  ASSUME fed' = 0, inside' = 0, part' = 0, due' \in Int, cut' \in Int, Emissions' = due',
         m_in' # <<>> => m_in'.rate \in Rates /\ m_out_rate' \in Rates,
         m_in' # <<>> /\ m_passthrough' => m_out_rate' = m_in'.rate
  PROVE  Counted'
<1>1. NoSampleIsLost'
  <2> SUFFICES ASSUME m_in' # <<>>
               PROVE  (Emissions' - due') * m_in'.rate + part' + inside' * m_out_rate'
                        = fed' * m_out_rate'
    BY DEF NoSampleIsLost
  <2>1. PICK r, o, d : r = m_in'.rate /\ o = m_out_rate' /\ d = due'  OBVIOUS
  <2>2. r \in Nat /\ o \in Nat /\ d \in Int  BY <2>1 DEF Rates
  <2>3. (d - d) * r + 0 + 0 * o = 0 * o  BY <2>2
  <2>4. Emissions' = d  BY <2>1
  <2> QED  BY <2>1, <2>3, <2>4
<1> QED  BY <1>1 DEF Counted

\* A new resampler begins with nothing inside, when the old one has given all it had.
LEMMA ReconfigureCounts ==
  ASSUME Audio, Blocks, Counted, ProcessReconfigures
  PROVE  Counted'
<1> DEFINE f == Frame(arrived[1])
<1>1. arrived # <<>> /\ Flush /\ Configure(f)  BY DEF ProcessReconfigures, Reconfigures
<1>2. PICK p \in SoundPacket : p.stream = "audio" /\ arrived = <<p>>  BY <1>1 DEF Audio
<1>3. f.rate \in Rates  BY <1>2, PacketFrame
<1> HIDE DEF f
<1>4. m_in'.rate \in Rates /\ m_out_rate' \in Rates  BY <1>1, <1>3, ConfiguresWell
<1>5. m_passthrough' => m_out_rate' = m_in'.rate  BY <1>1 DEF Configure, Settings
<1> QED  BY <1>1, <1>4, <1>5, FlushCounts, SettledCounts

\* The samples of a frame are inside, or in a block Emit has taken, or begun.
LEMMA ProcessCounts ==
  ASSUME Audio, Blocks, Counted, Process
  PROVE  Counted'
<1> DEFINE f == Frame(arrived[1])
           z == Made(f)
           e == Emitted(z.block)
<1>1. /\ arrived # <<>> /\ f.samples > 0 /\ ~NeedsReconfigure(f)
      /\ inside' = z.left /\ part' = z.part
      /\ given' = given \o e.sent /\ m_held' = e.held /\ cut' = cut + e.cut
      /\ fed' = fed + f.samples
      /\ UNCHANGED <<m_in, m_out_rate, m_passthrough, due>>
  BY DEF Process
<1>2. PICK p \in SoundPacket : p.stream = "audio" /\ arrived = <<p>>  BY <1>1 DEF Audio
<1>3. f.rate \in Rates /\ f.samples \in Nat /\ PtsUs(f) \in Int
  <2>1. arrived[1] = p /\ m_next_in_us \in Int  BY <1>2 DEF Audio
  <2>2. f.rate \in Rates /\ f.samples \in Int /\ PtsUs(f) \in Int  BY <1>2, <2>1, PacketFrame
  <2> HIDE DEF f
  <2> QED  BY <1>1, <2>2
<1>4. m_in.rate = f.rate /\ m_in # <<>>
  <2>1. m_in = Settings(f)  BY <1>1 DEF NeedsReconfigure
  <2>2. DOMAIN Settings(f) = {"rate", "planar"}  BY DEF Settings
  <2> QED  BY <2>1, <2>2 DEF Settings
<1> HIDE DEF f
<1>5. /\ m_out_rate \in Rates /\ m_in.rate \in Rates /\ inside \in Nat /\ part \in Nat
      /\ fed \in Nat /\ due \in Int /\ cut \in Int /\ Emissions \in Int
  BY <1>4, EmissionsAreNumbers DEF Audio, Counted
<1>6. /\ z.block.pts \in Int /\ z.block.samples \in Nat /\ z.block.rate \in Rates
      /\ z.left \in Nat /\ z.part \in Nat
      /\ (m_passthrough => z.left = 0 /\ z.part = 0)
      /\ z.block.samples * m_in.rate + z.part + z.left * m_out_rate
           = (inside + f.samples) * m_out_rate + part
  <2>1. CASE m_passthrough
    <3>1. /\ z.block.pts = PtsUs(f) /\ z.block.samples = f.samples /\ z.block.rate = f.rate
          /\ z.left = 0 /\ z.part = 0
      BY <2>1 DEF Made
    <3>2. inside = 0 /\ part = 0 /\ m_out_rate = m_in.rate  BY <1>4, <2>1 DEF Counted
    <3> HIDE DEF z
    <3>3. PICK r : r = m_in.rate  OBVIOUS
    <3>4. r \in Nat  BY <1>5, <3>3 DEF Rates
    <3>5. f.samples * r + 0 + 0 * r = (0 + f.samples) * r + 0  BY <1>3, <3>4
    <3> QED  BY <1>3, <3>1, <3>2, <3>3, <3>5
  <2>2. CASE ~m_passthrough
    <3>1. z = Resampled(f.samples, PtsUs(f), FALSE)  BY <2>2 DEF Made
    <3> DEFINE w == Resampled(f.samples, PtsUs(f), FALSE)
    <3>2. PICK n, t : n = f.samples /\ t = PtsUs(f)  OBVIOUS
    <3>3. LET v == Resampled(n, t, FALSE) IN
          /\ v.block.pts \in Int /\ v.block.samples \in Nat /\ v.block.rate \in Rates
          /\ v.left \in Nat /\ v.part \in Nat
          /\ v.block.samples * m_in.rate + v.part + v.left * m_out_rate
               = (inside + n) * m_out_rate + part
      <4>1. n \in Nat /\ t \in Int  BY <1>3, <3>2
      <4> QED  BY <1>5, <4>1, ResampledBlock
    <3>4. /\ w.block.pts \in Int /\ w.block.samples \in Nat /\ w.block.rate \in Rates
          /\ w.left \in Nat /\ w.part \in Nat
          /\ w.block.samples * m_in.rate + w.part + w.left * m_out_rate
               = (inside + f.samples) * m_out_rate + part
      BY <3>2, <3>3
    <3> HIDE DEF w, z
    <3> QED  BY <2>2, <3>1, <3>4 DEF w
  <2> QED  BY <2>1, <2>2
<1> HIDE DEF z
<1>7. /\ e.cut \in Int
      /\ SamplesIn(given \o e.sent) + SamplesIn(e.held) + (cut + e.cut)
           = Emissions + z.block.samples
  BY <1>5, <1>6, EmittedCounts
<1> HIDE DEF e
<1>8. Emissions' = Emissions + z.block.samples
  <2>1. Emissions' = SamplesIn(given') + SamplesIn(m_held') + cut'  BY DEF Emissions
  <2> QED  BY <1>1, <1>7, <2>1
<1>9. NoSampleIsLost'
  <2>1. PICK r, o, x, y, l, s, E : /\ r = m_in.rate /\ o = m_out_rate /\ x = z.block.samples
                                   /\ y = z.part /\ l = z.left /\ s = f.samples /\ E = Emissions
    OBVIOUS
  <2>2. /\ r \in Nat /\ o \in Nat /\ x \in Nat /\ y \in Nat /\ l \in Nat /\ s \in Nat /\ E \in Int
    BY <1>3, <1>5, <1>6, <2>1 DEF Rates
  <2>3. (E - due) * r + part + inside * o = fed * o  BY <1>4, <2>1 DEF Counted, NoSampleIsLost
  <2>4. x * r + y + l * o = (inside + s) * o + part  BY <1>6, <2>1
  <2>5. ((E + x) - due) * r + y + l * o = (fed + s) * o
    <3>1. /\ ((E + x) - due) * r = (E - due) * r + x * r
          /\ (inside + s) * o = inside * o + s * o
          /\ (fed + s) * o = fed * o + s * o
      BY <1>5, <2>2
    <3>2. PICK A, B, C, D, F, L : /\ A = (E - due) * r /\ B = x * r /\ C = inside * o
                                  /\ D = s * o /\ F = fed * o /\ L = l * o
      OBVIOUS
    <3>3. A \in Int /\ B \in Int /\ C \in Int /\ D \in Int /\ F \in Int /\ L \in Int
      BY <1>5, <2>2, <3>2
    <3>4. A + part + C = F /\ B + y + L = C + D + part  BY <2>3, <2>4, <3>1, <3>2
    <3>5. A + B + y + L = F + D  BY <1>5, <2>2, <3>3, <3>4
    <3> QED  BY <3>1, <3>2, <3>5
  <2>6. /\ Emissions' = E + x /\ due' = due /\ m_in'.rate = r /\ part' = y
        /\ inside' = l /\ m_out_rate' = o /\ fed' = fed + s
    BY <1>1, <1>8, <2>1
  <2> QED  BY <2>5, <2>6 DEF NoSampleIsLost
<1>10. fed' \in Nat /\ due' \in Int /\ cut' \in Int
  <2>1. fed' = fed + f.samples /\ f.samples \in Nat /\ fed \in Nat  BY <1>1, <1>3, <1>5
  <2>2. cut' = cut + e.cut /\ e.cut \in Int /\ cut \in Int  BY <1>1, <1>5, <1>7
  <2>3. due' = due /\ due \in Int  BY <1>1, <1>5
  <2>4. fed' \in Nat  BY <2>1
  <2>5. cut' \in Int  BY <2>2
  <2> QED  BY <2>3, <2>4, <2>5
<1>11. m_in' # <<>> /\ (m_passthrough' => inside' = 0 /\ part' = 0 /\ m_out_rate' = m_in'.rate)
  BY <1>1, <1>4, <1>6 DEF Counted
<1> QED  BY <1>9, <1>10, <1>11 DEF Counted

\* At the end all is given, or after a stop nothing more.
LEMMA FinishCounts ==
  ASSUME Audio, Blocks, Counted, Finishes
  PROVE  Counted'
<1>1. UNCHANGED <<m_in, m_out_rate, m_passthrough>>  BY DEF Finishes
<1>2. CASE stop
  <2>1. UNCHANGED <<given, cut, m_held, inside, part, fed, due>>  BY <1>2 DEF Finishes
  <2> QED  BY <1>1, <2>1 DEF Counted, NoSampleIsLost, Emissions
<1>3. CASE ~stop
  <2>1. Flush  BY <1>3 DEF Finishes
  <2>2. m_in # <<>> => m_in.rate \in Rates /\ m_out_rate \in Rates  BY DEF Audio
  <2>3. m_in # <<>> /\ m_passthrough => m_out_rate = m_in.rate  BY DEF Counted
  <2> QED  BY <1>1, <2>1, <2>2, <2>3, FlushCounts, SettledCounts
<1> QED  BY <1>2, <1>3

\* So every step accounts for the samples.
LEMMA CountKept == Audio /\ Blocks /\ Counted /\ [Next]_vars => Counted'
<1> SUFFICES ASSUME Audio, Blocks, Counted, [Next]_vars PROVE Counted'  OBVIOUS
<1>1. CASE Reads \/ Restarts \/ Ends \/ Fails \/ RequestStop \/ ProcessesNothing \/ Done
           \/ UNCHANGED vars
  <2>1. UNCHANGED audio
    BY <1>1 DEF Reads, Restarts, Ends, Fails, RequestStop, ProcessesNothing, Done, vars
  <2>2. UNCHANGED <<m_in, m_out_rate, m_passthrough, inside, part, m_held, given, cut, fed, due>>
    BY <2>1 DEF audio
  <2> QED  BY <2>2 DEF Counted, NoSampleIsLost, Emissions
<1>2. CASE ProcessReconfigures  BY <1>2, ReconfigureCounts
<1>3. CASE Process  BY <1>3, ProcessCounts
<1>4. CASE Finishes  BY <1>4, FinishCounts
<1> QED  BY <1>1, <1>2, <1>3, <1>4 DEF Next

\* For any input, any two rates and however many samples a resampler keeps back, no sample of the
\* sound is lost: what was taken is in the blocks that were given, in the one that is held, in
\* the resampler, or was trimmed; a new resampler is made only when the old one is empty.
THEOREM EverySampleIsKept == Spec => []NoSampleIsLost
<1>1. Counted => NoSampleIsLost  BY DEF Counted
<1>2. Init => Follow /\ Audio /\ Blocks /\ Counted  BY FollowStarts, AudioStarts, CountStarts
<1>3. (Follow /\ Audio /\ Blocks /\ Counted) /\ [Next]_vars
        => (Follow /\ Audio /\ Blocks /\ Counted)'
  BY FollowKept, AudioKept, CountKept
<1> QED  BY <1>1, <1>2, <1>3, PTL DEF Spec
=============================================================================
