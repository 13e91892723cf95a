---------------------------- MODULE PipelineProofs ----------------------------
(***************************************************************************)
(* What Pipeline guarantees for every setup: any streams, any capacities   *)
(* and delays, any length and number of passes, any interleaving of the    *)
(* threads with failures, damage, shedding and signals.  No frame is lost  *)
(* in handing it over, doubled or overtaken; no decoder mixes two passes;  *)
(* the last picture is shown and a clean exit leaves nothing inside, but   *)
(* for what the code sheds and, on a damaged input, gives up; and nobody   *)
(* waits for a thread that left.                                           *)
(*                                                                         *)
(* The order: facts about sequences; the inductive invariant IInv; its     *)
(* parts step by step (types, thread count, the demuxer, the ending, then  *)
(* for each stream what happens to its frames); what follows from IInv.    *)
(***************************************************************************)
EXTENDS Pipeline, SequenceTheorems, FiniteSetTheorems, TLAPS

-----------------------------------------------------------------------------
\* Facts about concatenated sequences of numbers, in the form the proofs use.
LEMMA Concat ==
  ASSUME NEW s \in Seq(Nat), NEW t \in Seq(Nat)
  PROVE  /\ s \o t \in Seq(Nat) /\ Len(s \o t) = Len(s) + Len(t)
         /\ Len(s) \in Nat /\ Len(t) \in Nat
         /\ DOMAIN s = 1..Len(s) /\ DOMAIN t = 1..Len(t) /\ DOMAIN (s \o t) = 1..Len(s) + Len(t)
         /\ \A i \in 1..Len(s) : (s \o t)[i] = s[i]
         /\ \A i \in 1..Len(t) : (s \o t)[Len(s) + i] = t[i]
<1>1. Len(s) \in Nat /\ Len(t) \in Nat /\ DOMAIN s = 1..Len(s) /\ DOMAIN t = 1..Len(t)
  BY LenProperties
<1>2. s \o t \in Seq(Nat) /\ Len(s \o t) = Len(s) + Len(t)  BY ConcatProperties
<1>3. \A i \in 1..Len(s) + Len(t) : (s \o t)[i] = IF i <= Len(s) THEN s[i] ELSE t[i - Len(s)]
  BY ConcatProperties
<1>4. DOMAIN (s \o t) = 1..Len(s) + Len(t)  BY <1>2, LenProperties
<1>5. ASSUME NEW i \in 1..Len(s) PROVE (s \o t)[i] = s[i]  BY <1>1, <1>3
<1>6. ASSUME NEW i \in 1..Len(t) PROVE (s \o t)[Len(s) + i] = t[i]
  <2>1. Len(s) + i \in 1..Len(s) + Len(t) /\ ~(Len(s) + i <= Len(s)) /\ Len(s) + i - Len(s) = i  BY <1>1
  <2> QED  BY <1>3, <2>1
<1> QED  BY <1>1, <1>2, <1>4, <1>5, <1>6

\* Concatenation is associative.
LEMMA Regroup ==
  ASSUME NEW s \in Seq(Nat), NEW t \in Seq(Nat), NEW u \in Seq(Nat)
  PROVE  (s \o t) \o u = s \o (t \o u)
BY ConcatAssociative, SMTT(30)

\* A sequence is its head and then its tail.
LEMMA HeadFirst ==
  ASSUME NEW s \in Seq(Nat), s # <<>>
  PROVE  /\ Head(s) \in Nat /\ Tail(s) \in Seq(Nat) /\ <<Head(s)>> \in Seq(Nat)
         /\ <<Head(s)>> \o Tail(s) = s
<1>1. Len(s) \in Nat \ {0} /\ Head(s) \in Nat /\ Tail(s) \in Seq(Nat)
  BY HeadTailProperties, EmptySeq
<1>2. SubSeq(s, 1, Len(s)) = <<s[1]>> \o SubSeq(s, 2, Len(s))
  BY <1>1, SubSeqRecursiveFirst
<1>3. SubSeq(s, 1, Len(s)) = s  BY SubSeqFull
<1>4. Tail(s) = SubSeq(s, 2, Len(s)) /\ Head(s) = s[1]  BY TailIsSubSeq
<1> QED  BY <1>1, <1>2, <1>3, <1>4

\* Three parts of the way of a stream, one behind the other.
Way(A, B, C) == (A \o B) \o C

\* The first item of C goes to the end of B.
LEMMA Shift ==
  ASSUME NEW A \in Seq(Nat), NEW B \in Seq(Nat), NEW C \in Seq(Nat), C # <<>>
  PROVE  Way(A, Append(B, Head(C)), Tail(C)) = Way(A, B, C)
<1> DEFINE h == <<Head(C)>>
           t == Tail(C)
<1>1. h \in Seq(Nat) /\ t \in Seq(Nat) /\ h \o t = C /\ Append(B, Head(C)) = B \o h
  BY HeadFirst, AppendIsConcat
<1> HIDE DEF h, t
<1>2. A \o B \in Seq(Nat)  BY Concat
<1>3. (A \o B) \o h = A \o (B \o h)  BY <1>1, Regroup, ZenonT(40)
<1>4. ((A \o B) \o h) \o t = (A \o B) \o (h \o t)  BY <1>1, <1>2, Regroup
<1>5. Way(A, Append(B, Head(C)), Tail(C)) = (A \o (B \o h)) \o t  BY <1>1 DEF Way, t
<1>6. Way(A, B, C) = (A \o B) \o (h \o t)  BY <1>1 DEF Way
<1> QED  BY <1>3, <1>4, <1>5, <1>6

\* w is s without one item, e.
Removed(w, s, e) ==
    \E A, B \in Seq(Nat) : s = A \o (<<e>> \o B) /\ w = A \o B

\* What a pop removes: the head of the part it pops from.
LEMMA RemoveHead ==
  ASSUME NEW P \in Seq(Nat), NEW C \in Seq(Nat), C # <<>>
  PROVE  Removed(P \o Tail(C), P \o C, Head(C))
BY HeadFirst DEF Removed

\* An item removed in front stays removed when more follows.
LEMMA RemoveInFront ==
  ASSUME NEW w, NEW s, NEW e \in Nat, NEW u \in Seq(Nat), Removed(w, s, e)
  PROVE  Removed(w \o u, s \o u, e)
<1>1. PICK A \in Seq(Nat), B \in Seq(Nat) : s = A \o (<<e>> \o B) /\ w = A \o B
  BY DEF Removed
<1>2. <<e>> \in Seq(Nat) /\ B \o u \in Seq(Nat) /\ <<e>> \o B \in Seq(Nat)  BY Concat
<1>3. (A \o B) \o u = A \o (B \o u)  BY Regroup
<1>4. (A \o (<<e>> \o B)) \o u = A \o ((<<e>> \o B) \o u)  BY <1>2, Regroup, ZenonT(40)
<1>5. (<<e>> \o B) \o u = <<e>> \o (B \o u)  BY <1>2, Regroup
<1> QED  BY <1>1, <1>2, <1>3, <1>4, <1>5 DEF Removed

\* w is s without its item at a place.
LeftOver(w, s, at, e) ==
    /\ s \in Seq(Nat) /\ w \in Seq(Nat) /\ Len(s) \in Nat /\ at \in Nat
    /\ Len(s) = Len(w) + 1 /\ DOMAIN s = 1..Len(s) /\ DOMAIN w = 1..Len(s) - 1
    /\ at \in 1..Len(s) /\ s[at] = e
    /\ \A n \in 1..Len(s) - 1 : w[n] = IF n < at THEN s[n] ELSE s[n + 1]

\* The places of the items behind a removed one are one lower.
LEMMA RemovedAt ==
  ASSUME NEW A \in Seq(Nat), NEW B \in Seq(Nat), NEW e \in Nat
  PROVE  LeftOver(A \o B, A \o (<<e>> \o B), Len(A) + 1, e)
<1> DEFINE E == <<e>> \o B
           s == A \o E
           w == A \o B
<1>0. <<e>> \in Seq(Nat) /\ Len(<<e>>) = 1 /\ <<e>>[1] = e  OBVIOUS
<1>1. /\ E \in Seq(Nat) /\ Len(E) = 1 + Len(B) /\ Len(B) \in Nat /\ Len(A) \in Nat
      /\ E[1] = e /\ \A i \in 1..Len(B) : E[1 + i] = B[i]
  BY <1>0, Concat
<1> HIDE DEF E
<1>2. /\ s \in Seq(Nat) /\ Len(s) = Len(A) + Len(E) /\ DOMAIN s = 1..Len(A) + Len(E)
      /\ \A i \in 1..Len(A) : s[i] = A[i]
      /\ \A i \in 1..Len(E) : s[Len(A) + i] = E[i]
  BY <1>1, Concat
<1>3. /\ w \in Seq(Nat) /\ Len(w) = Len(A) + Len(B) /\ DOMAIN w = 1..Len(A) + Len(B)
      /\ \A i \in 1..Len(A) : w[i] = A[i]
      /\ \A i \in 1..Len(B) : w[Len(A) + i] = B[i]
  BY Concat
<1> HIDE DEF s, w
<1>4. s[Len(A) + 1] = e
  <2>1. 1 \in 1..Len(E)  BY <1>1
  <2> QED  BY <1>1, <1>2, <2>1
<1>5. ASSUME NEW n \in 1..Len(s) - 1 PROVE w[n] = IF n < Len(A) + 1 THEN s[n] ELSE s[n + 1]
  <2>1. CASE n < Len(A) + 1
    <3>1. n \in 1..Len(A)  BY <1>1, <1>2, <2>1
    <3>2. w[n] = A[n] /\ s[n] = A[n]  BY <1>2, <1>3, <3>1
    <3> QED  BY <2>1, <3>2
  <2>2. CASE n >= Len(A) + 1
    <3>1. PICK i \in 1..Len(B) : n = Len(A) + i
      <4>1. n - Len(A) \in 1..Len(B) /\ n = Len(A) + (n - Len(A))  BY <1>1, <1>2, <2>2
      <4> QED  BY <4>1
    <3>2. w[n] = B[i]  BY <1>3, <3>1
    <3>3. 1 + i \in 1..Len(E) /\ n + 1 = Len(A) + (1 + i)  BY <1>1, <3>1
    <3>4. s[n + 1] = E[1 + i] /\ E[1 + i] = B[i]  BY <1>1, <1>2, <3>3
    <3> QED  BY <2>2, <3>2, <3>4, <1>1
  <2> QED  BY <1>1, <1>2, <2>1, <2>2
<1>6. Len(s) = Len(w) + 1 /\ DOMAIN s = 1..Len(s) /\ DOMAIN w = 1..Len(s) - 1 /\ Len(A) + 1 \in 1..Len(s)
  BY <1>1, <1>2, <1>3
<1>7. LeftOver(w, s, Len(A) + 1, e)  BY <1>1, <1>2, <1>3, <1>4, <1>5, <1>6 DEF LeftOver
<1> QED  BY <1>7 DEF s, w, E

\* Removing one item keeps the order and removes one number at most.
LEMMA RemovedRising ==
  ASSUME NEW w, NEW s, NEW e \in Nat, Removed(w, s, e), Rising(s)
  PROVE  Rising(w) /\ Items(s) = Items(w) \union ({e} \ {Marker})
<1>1. PICK at \in Nat :
        /\ Len(s) \in Nat /\ DOMAIN s = 1..Len(s) /\ DOMAIN w = 1..Len(s) - 1
        /\ at \in 1..Len(s) /\ s[at] = e
        /\ \A n \in 1..Len(s) - 1 : w[n] = IF n < at THEN s[n] ELSE s[n + 1]
  <2>1. PICK A \in Seq(Nat), B \in Seq(Nat) : s = A \o (<<e>> \o B) /\ w = A \o B
    BY DEF Removed
  <2>2. LeftOver(w, s, Len(A) + 1, e)  BY <2>1, RemovedAt
  <2> QED  BY <2>2 DEF LeftOver
<1>2. Rising(w)  
  <2> SUFFICES ASSUME NEW m \in DOMAIN w, NEW n \in DOMAIN w, m < n, w[n] # Marker PROVE w[m] < w[n]
    BY DEF Rising
  <2> DEFINE f(i) == IF i < at THEN i ELSE i + 1
  <2>1. /\ f(m) \in DOMAIN s /\ f(n) \in DOMAIN s /\ f(m) < f(n)
        /\ w[m] = s[f(m)] /\ w[n] = s[f(n)]
    BY <1>1
  <2> QED  BY <2>1 DEF Rising
<1>3. \A n \in DOMAIN s : s[n] = e \/ \E m \in DOMAIN w : w[m] = s[n]
  <2> TAKE n \in DOMAIN s
  <2>1. CASE n < at
    <3>1. n \in 1..Len(s) - 1  BY <1>1, <2>1
    <3> QED  BY <1>1, <2>1, <3>1
  <2>2. CASE n > at
    <3>1. n - 1 \in 1..Len(s) - 1 /\ ~(n - 1 < at) /\ (n - 1) + 1 = n  BY <1>1, <2>2
    <3>2. w[n - 1] = s[n]  BY <1>1, <3>1
    <3> QED  BY <1>1, <3>1, <3>2
  <2> QED  BY <1>1, <2>1, <2>2
<1>4. \A m \in DOMAIN w : \E n \in DOMAIN s : w[m] = s[n]
  <2> TAKE m \in DOMAIN w
  <2>1. CASE m < at  BY <1>1, <2>1
  <2>2. CASE ~(m < at)
    <3>1. m + 1 \in DOMAIN s /\ w[m] = s[m + 1]  BY <1>1, <2>2
    <3> QED  BY <3>1
  <2> QED  BY <2>1, <2>2
<1>5. at \in DOMAIN s /\ s[at] = e  BY <1>1
<1>6. Items(s) \subseteq Items(w) \union ({e} \ {Marker})  BY <1>3 DEF Items
<1>7. Items(w) \union ({e} \ {Marker}) \subseteq Items(s)  BY <1>4, <1>5 DEF Items
<1> QED  BY <1>2, <1>6, <1>7

\* A sequence with one more item.
LEMMA Added ==
  ASSUME NEW s \in Seq(Nat), NEW a \in Nat
  PROVE  /\ s \o <<a>> \in Seq(Nat) /\ Len(s) \in Nat /\ Len(s \o <<a>>) = Len(s) + 1
         /\ DOMAIN s = 1..Len(s) /\ DOMAIN (s \o <<a>>) = 1..Len(s) + 1
         /\ \A i \in 1..Len(s) : (s \o <<a>>)[i] = s[i] /\ s[i] \in Nat
         /\ (s \o <<a>>)[Len(s) + 1] = a
<1>1. <<a>> \in Seq(Nat) /\ Len(<<a>>) = 1 /\ <<a>>[1] = a  OBVIOUS
<1>2. 1 \in 1..Len(<<a>>)  BY <1>1
<1>3. \A i \in 1..Len(s) : s[i] \in Nat  BY ElementOfSeq
<1> QED  BY <1>1, <1>2, <1>3, Concat

\* An item larger than all before it, or a marker, keeps the order.
LEMMA AddedRising ==
  ASSUME NEW s \in Seq(Nat), NEW a \in Nat, Rising(s), a = Marker \/ \A b \in Items(s) : b < a
  PROVE  Rising(s \o <<a>>) /\ Items(s \o <<a>>) = Items(s) \union ({a} \ {Marker})
<1> DEFINE t == s \o <<a>>
<1>1. /\ Len(s) \in Nat /\ DOMAIN s = 1..Len(s) /\ DOMAIN t = 1..Len(s) + 1
      /\ \A i \in 1..Len(s) : t[i] = s[i] /\ s[i] \in Nat
      /\ t[Len(s) + 1] = a
  BY Added
<1> HIDE DEF t
<1>2. Rising(t)
  <2> SUFFICES ASSUME NEW m \in DOMAIN t, NEW n \in DOMAIN t, m < n, t[n] # Marker PROVE t[m] < t[n]
    BY DEF Rising
  <2>1. CASE n = Len(s) + 1
    <3>1. a # Marker /\ m \in DOMAIN s /\ t[m] = s[m] /\ t[n] = a  BY <1>1, <2>1
    <3>2. s[m] = Marker \/ s[m] \in Items(s)  BY <3>1 DEF Items
    <3> QED  BY <1>1, <3>1, <3>2 DEF Marker
  <2>2. CASE n # Len(s) + 1  BY <1>1, <2>2, SMTT(30) DEF Rising
  <2> QED  BY <2>1, <2>2
<1>3. Items(t) = Items(s) \union ({a} \ {Marker})
  <2>1. \A n \in DOMAIN t : n = Len(s) + 1 \/ (n \in DOMAIN s /\ t[n] = s[n])  BY <1>1
  <2>2. \A n \in DOMAIN s : n \in DOMAIN t /\ t[n] = s[n]  BY <1>1
  <2>3. Len(s) + 1 \in DOMAIN t /\ t[Len(s) + 1] = a  BY <1>1
  <2> QED  BY <2>1, <2>2, <2>3 DEF Items
<1> QED  BY <1>2, <1>3 DEF t

-----------------------------------------------------------------------------
\* Passes of a looped input, divided by markers.
Divided(s, p) ==
    \A m, n \in DOMAIN s :
        m < n /\ s[m] # Marker /\ s[n] # Marker =>
            (s[m] - 1) \div p = (s[n] - 1) \div p \/ \E k \in m..n : s[k] = Marker
\* What comes before a marker is of a pass that has ended.
BehindMarkers(s, last) ==
    \A m, n \in DOMAIN s : m < n /\ s[n] = Marker => s[m] <= last
\* What is of a pass that has ended comes before a marker.
AheadOfMarkers(s, last) ==
    \A m \in DOMAIN s :
        s[m] # Marker => s[m] > last \/ \E n \in DOMAIN s : m < n /\ s[n] = Marker

\* Removing an item that is no marker, or the first one, keeps passes divided.
LEMMA RemovedDivided ==
  ASSUME NEW A \in Seq(Nat), NEW B \in Seq(Nat), NEW e \in Nat, e # Marker \/ A = <<>>,
         NEW p, NEW old,
         LET s == A \o (<<e>> \o B) IN Divided(s, p) /\ BehindMarkers(s, old)
  PROVE  LET s == A \o (<<e>> \o B)
             w == A \o B
         IN  /\ Divided(w, p) /\ BehindMarkers(w, old)
             /\ AheadOfMarkers(s, old) => AheadOfMarkers(w, old)
<1> DEFINE s == A \o (<<e>> \o B)
           w == A \o B
           at == Len(A) + 1
           f(i) == IF i < at THEN i ELSE i + 1
           g(i) == IF i < at THEN i ELSE i - 1
<1>1. /\ Len(s) \in Nat /\ at \in Nat /\ DOMAIN s = 1..Len(s) /\ DOMAIN w = 1..Len(s) - 1
      /\ at \in 1..Len(s) /\ s[at] = e
      /\ \A n \in 1..Len(s) - 1 : w[n] = IF n < at THEN s[n] ELSE s[n + 1]
  <2>1. LeftOver(w, s, at, e)  BY RemovedAt
  <2> HIDE DEF s, w, at
  <2> QED  BY <2>1 DEF LeftOver
<1>2. e # Marker \/ at = 1  OBVIOUS
<1>3. Divided(s, p) /\ BehindMarkers(s, old)  OBVIOUS
<1> HIDE DEF s, w, at
<1>4. ASSUME NEW i \in DOMAIN w, NEW j \in DOMAIN w, i < j
      PROVE  f(i) \in DOMAIN s /\ f(j) \in DOMAIN s /\ f(i) < f(j) /\ w[i] = s[f(i)] /\ w[j] = s[f(j)]
  BY <1>1, <1>4, SMTT(30)
<1>5. ASSUME NEW i \in DOMAIN w, NEW k \in DOMAIN s, f(i) < k, s[k] = Marker
      PROVE  g(k) \in DOMAIN w /\ i < g(k) /\ w[g(k)] = Marker /\ f(g(k)) = k
  <2>1. k # at  BY <1>1, <1>2, <1>5
  <2>2. g(k) \in DOMAIN w /\ i < g(k) /\ f(g(k)) = k  BY <1>1, <1>5, <2>1
  <2>3. w[g(k)] = s[f(g(k))]  BY <1>1, <2>2
  <2> QED  BY <1>5, <2>2, <2>3
<1>6. Divided(w, p)
  <2> SUFFICES ASSUME NEW m \in DOMAIN w, NEW n \in DOMAIN w, m < n, w[m] # Marker, w[n] # Marker,
                      \A k \in m..n : w[k] # Marker
               PROVE  (w[m] - 1) \div p = (w[n] - 1) \div p
    BY DEF Divided
  <2>1. f(m) \in DOMAIN s /\ f(n) \in DOMAIN s /\ f(m) < f(n) /\ w[m] = s[f(m)] /\ w[n] = s[f(n)]
    BY <1>4
  <2>2. \A k \in f(m)..f(n) : s[k] # Marker
    <3> SUFFICES ASSUME NEW k \in f(m)..f(n), s[k] = Marker PROVE FALSE  OBVIOUS
    <3>1. k # f(m) /\ k # f(n)  BY <2>1
    <3>2. k \in DOMAIN s /\ f(m) < k /\ k < f(n)  BY <1>1, <2>1, <3>1, SMTT(30)
    <3>3. g(k) \in DOMAIN w /\ m < g(k) /\ w[g(k)] = Marker /\ f(g(k)) = k  BY <1>5, <3>2
    <3>4. g(k) \in m..n  BY <1>1, <3>2, <3>3, SMTT(30)
    <3> QED  BY <3>3, <3>4
  <2> HIDE DEF f
  <2> QED  BY <1>3, <2>1, <2>2 DEF Divided
<1>7. BehindMarkers(w, old)
  <2> SUFFICES ASSUME NEW m \in DOMAIN w, NEW n \in DOMAIN w, m < n, w[n] = Marker
               PROVE  w[m] <= old
    BY DEF BehindMarkers
  <2>1. f(m) \in DOMAIN s /\ f(n) \in DOMAIN s /\ f(m) < f(n) /\ w[m] = s[f(m)] /\ w[n] = s[f(n)]
    BY <1>4
  <2> HIDE DEF f
  <2> QED  BY <1>3, <2>1 DEF BehindMarkers
<1>8. ASSUME AheadOfMarkers(s, old) PROVE AheadOfMarkers(w, old)
  <2> SUFFICES ASSUME NEW m \in DOMAIN w, w[m] # Marker, ~(w[m] > old)
               PROVE  \E n \in DOMAIN w : m < n /\ w[n] = Marker
    BY DEF AheadOfMarkers
  <2>1. f(m) \in DOMAIN s /\ w[m] = s[f(m)]  BY <1>1
  <2>2. PICK k \in DOMAIN s : f(m) < k /\ s[k] = Marker
    <3> HIDE DEF f
    <3> QED  BY <1>8, <2>1 DEF AheadOfMarkers
  <2>3. g(k) \in DOMAIN w /\ m < g(k) /\ w[g(k)] = Marker  BY <1>5, <2>2
  <2> QED  BY <2>3
<1> QED  BY <1>6, <1>7, <1>8 DEF s, w

\* Without what comes last, passes are still divided.
LEMMA CutDivided ==
  ASSUME NEW s \in Seq(Nat), NEW a \in Nat, NEW p, NEW old,
         Divided(s \o <<a>>, p), BehindMarkers(s \o <<a>>, old)
  PROVE  Divided(s, p) /\ BehindMarkers(s, old)
<1> DEFINE t == s \o <<a>>
<1>1. /\ Len(s) \in Nat /\ DOMAIN s = 1..Len(s) /\ DOMAIN t = 1..Len(s) + 1
      /\ \A i \in 1..Len(s) : t[i] = s[i]
  BY Added
<1>2. Divided(t, p) /\ BehindMarkers(t, old)  OBVIOUS
<1> HIDE DEF t
<1>3. Divided(s, p)
  <2> SUFFICES ASSUME NEW m \in DOMAIN s, NEW n \in DOMAIN s, m < n, s[m] # Marker, s[n] # Marker,
                      \A k \in m..n : s[k] # Marker
               PROVE  (s[m] - 1) \div p = (s[n] - 1) \div p
    BY DEF Divided
  <2>1. m \in DOMAIN t /\ n \in DOMAIN t /\ t[m] = s[m] /\ t[n] = s[n]  BY <1>1
  <2>2. \A k \in m..n : t[k] # Marker  BY <1>1, SMTT(30)
  <2> QED  BY <1>2, <2>1, <2>2 DEF Divided
<1>4. BehindMarkers(s, old)  BY <1>1, <1>2 DEF BehindMarkers
<1> QED  BY <1>3, <1>4

\* A packet of the current pass keeps passes divided: a marker is behind the others.
LEMMA AddedDivided ==
  ASSUME NEW s \in Seq(Nat), NEW a \in Nat, a # Marker, NEW p, NEW old \in Nat, a > old,
         Divided(s, p), BehindMarkers(s, old), AheadOfMarkers(s, old),
         \A b \in Items(s) : b > old => (b - 1) \div p = (a - 1) \div p
  PROVE  /\ Divided(s \o <<a>>, p) /\ BehindMarkers(s \o <<a>>, old)
         /\ AheadOfMarkers(s \o <<a>>, old)
<1> DEFINE t == s \o <<a>>
<1>1. /\ Len(s) \in Nat /\ DOMAIN s = 1..Len(s) /\ DOMAIN t = 1..Len(s) + 1
      /\ \A i \in 1..Len(s) : t[i] = s[i] /\ s[i] \in Nat
      /\ t[Len(s) + 1] = a
  BY Added
<1> HIDE DEF t
<1>2. Divided(t, p)
  <2> SUFFICES ASSUME NEW m \in DOMAIN t, NEW n \in DOMAIN t, m < n, t[m] # Marker, t[n] # Marker,
                      \A k \in m..n : t[k] # Marker
               PROVE  (t[m] - 1) \div p = (t[n] - 1) \div p
    BY DEF Divided
  <2>1. m \in DOMAIN s /\ t[m] = s[m] /\ s[m] \in Items(s)  BY <1>1 DEF Items
  <2>2. CASE n = Len(s) + 1
    <3>1. \A k \in DOMAIN s : m < k => s[k] # Marker  BY <1>1, <2>2
    <3>2. s[m] > old  BY <2>1, <3>1 DEF AheadOfMarkers
    <3> QED  BY <1>1, <2>1, <2>2, <3>2
  <2>3. CASE n # Len(s) + 1
    <3>1. n \in DOMAIN s /\ t[n] = s[n]  BY <1>1, <2>3
    <3>2. \A k \in m..n : s[k] # Marker  BY <1>1, <2>1, <3>1
    <3> QED  BY <2>1, <3>1, <3>2 DEF Divided
  <2> QED  BY <2>2, <2>3
<1>3. BehindMarkers(t, old)  BY <1>1 DEF BehindMarkers
<1>4. AheadOfMarkers(t, old)
  <2> SUFFICES ASSUME NEW m \in DOMAIN t, t[m] # Marker, ~(t[m] > old)
               PROVE  \E n \in DOMAIN t : m < n /\ t[n] = Marker
    BY DEF AheadOfMarkers
  <2>1. m \in DOMAIN s /\ t[m] = s[m]  BY <1>1
  <2>2. PICK n \in DOMAIN s : m < n /\ s[n] = Marker  BY <2>1 DEF AheadOfMarkers
  <2> QED  BY <1>1, <2>2
<1> QED  BY <1>2, <1>3, <1>4 DEF t

\* So does the marker that ends a pass.
LEMMA MarkedDivided ==
  ASSUME NEW s \in Seq(Nat), NEW p, NEW last \in Nat, Divided(s, p), \A b \in Items(s) : b <= last
  PROVE  /\ Divided(s \o <<Marker>>, p) /\ BehindMarkers(s \o <<Marker>>, last)
         /\ AheadOfMarkers(s \o <<Marker>>, last)
<1> DEFINE t == s \o <<Marker>>
<1>1. /\ Len(s) \in Nat /\ DOMAIN s = 1..Len(s) /\ DOMAIN t = 1..Len(s) + 1
      /\ \A i \in 1..Len(s) : t[i] = s[i] /\ s[i] \in Nat
      /\ t[Len(s) + 1] = Marker
  BY Added DEF Marker
<1> HIDE DEF t
<1>2. Divided(t, p)
  <2> SUFFICES ASSUME NEW m \in DOMAIN t, NEW n \in DOMAIN t, m < n, t[m] # Marker, t[n] # Marker,
                      \A k \in m..n : t[k] # Marker
               PROVE  (t[m] - 1) \div p = (t[n] - 1) \div p
    BY DEF Divided
  <2>1. m \in DOMAIN s /\ n \in DOMAIN s /\ t[m] = s[m] /\ t[n] = s[n]  BY <1>1
  <2>2. \A k \in m..n : s[k] # Marker  BY <1>1, <2>1
  <2> QED  BY <2>1, <2>2 DEF Divided
<1>3. BehindMarkers(t, last)
  <2> SUFFICES ASSUME NEW m \in DOMAIN s PROVE s[m] <= last
    BY <1>1 DEF BehindMarkers
  <2> QED  BY <1>1 DEF Items, Marker
<1>4. AheadOfMarkers(t, last)
  <2>1. \A m \in DOMAIN t : t[m] # Marker => m < Len(s) + 1  BY <1>1
  <2>2. Len(s) + 1 \in DOMAIN t /\ t[Len(s) + 1] = Marker  BY <1>1
  <2> QED  BY <2>1, <2>2 DEF AheadOfMarkers
<1> QED  BY <1>2, <1>3, <1>4 DEF t

\* The pass in which the n-th packet is read.
LEMMA PassOf ==
  ASSUME NEW p \in Nat, NEW k \in Nat, NEW n \in Nat, p * k < n, n <= p * (k + 1)
  PROVE  (n - 1) \div p = k
<1>1. p * (k + 1) = p * k + p  OBVIOUS
<1>2. p * k \in Nat /\ p > 0  BY <1>1
<1> DEFINE q == (n - 1) \div p
           r == (n - 1) % p
<1>3. q \in Int /\ r \in 0..p - 1 /\ n - 1 = p * q + r  BY <1>2
<1>4. CASE q < k  BY <1>1, <1>2, <1>3, <1>4
<1>5. CASE q > k  BY <1>1, <1>2, <1>3, <1>5
<1> QED  BY <1>3, <1>4, <1>5
-----------------------------------------------------------------------------
\* The inductive invariant, part by part.  Types, with each number a packet's: a
\* component of TypeOK that every other part rests on.
Typed ==
    /\ setup \in Setups
    /\ stop \in BOOLEAN /\ interrupted \in BOOLEAN
    /\ m_error \in {"none", "demux"} \union Streams
    /\ m_loops \in 0..MaxLoops
    /\ packets \in [Streams -> Seq(Numbers \union {Marker})]
    /\ frames \in [Streams -> Seq(Numbers)] /\ held \in [Streams -> Seq(Numbers)]
    /\ kept \in [Streams -> Seq(Numbers)] /\ sent \in [Streams -> Seq(Numbers)]
    /\ packetsClosed \in [Streams -> BOOLEAN] /\ framesClosed \in [Streams -> BOOLEAN]
    /\ demux \in DemuxPlaces
    /\ toPush \in Seq([stream : Streams, item : Numbers \union {Marker}])
    /\ read \in [Streams -> Numbers \union {0}]
    /\ decoder \in [Streams -> DecoderPlaces]
    /\ flushing \in [Streams -> {"no", "loop", "end", "processor"}]
    /\ presenter \in [Streams -> PresenterPlaces]
    /\ inHand \in [Streams -> Numbers \union {Nobody}]
    /\ started \subseteq Streams
    /\ dropped \in [Streams -> SUBSET Numbers] /\ skipped \in [Streams -> SUBSET Numbers]
    /\ lost \in [Streams -> SUBSET Numbers]
    /\ exit \in {NotYet, 0, 1, 130}

\* m_running is the number of threads that have not left Spawn.
Counted == m_running = Alive

\* DemuxLoop: something is to be pushed exactly while it pushes, one item to a stream
\* at most; queues are closed at the end only; each stream is within the current pass,
\* and has ended when the loop ends without a stop.
Demuxing ==
    /\ demux = "push" <=> toPush # <<>>
    /\ \A i, j \in DOMAIN toPush : toPush[i].stream = toPush[j].stream => i = j
    /\ \A x \in Streams :
         /\ packetsClosed[x] => demux \in {"closeAudio", "ending", "gone"}
         /\ PassLength[x] * m_loops <= read[x] /\ read[x] <= PassLength[x] * (m_loops + 1)
         /\ ~stop /\ demux \notin {"top", "reading", "push"} => Exhausted(x)

\* The bounds of queues, decoder and processor, with room for one more where the next
\* step adds one.
Room(x) ==
    /\ Len(packets[x]) <= PacketCapacity /\ Len(frames[x]) <= FrameCapacity
    /\ Len(held[x]) <= DecoderDelay + 1 /\ Len(kept[x]) <= ProcessorDelay + 1
    /\ decoder[x] = "pop" => Len(held[x]) <= DecoderDelay
    /\ decoder[x] \in {"pop", "drain"} => Len(kept[x]) <= ProcessorDelay
    /\ decoder[x] = "push" => kept[x] # <<>>

\* Where a decoder and its presenter are in their loops, and what they have left behind:
\* without a stop, a decoder leaves with everything handed on, a presenter with
\* everything presented.
Working(x) ==
    /\ decoder[x] = "pop" => flushing[x] = "no"
    /\ flushing[x] = "processor" => held[x] = <<>> /\ decoder[x] # "drain"
    /\ flushing[x] \in {"end", "processor"} /\ ~stop => packetsClosed[x] /\ packets[x] = <<>>
    /\ decoder[x] \in {"closing", "ending", "gone"} /\ ~stop =>
         flushing[x] = "processor" /\ kept[x] = <<>>
    /\ framesClosed[x] => decoder[x] \in {"ending", "gone"}
    /\ presenter[x] \in {"leaving", "gone"} /\ ~stop => framesClosed[x] /\ frames[x] = <<>>
    /\ inHand[x] # Nobody <=> presenter[x] \in {"start", "present"}

\* What is no longer on the way of a stream although it was not sent.
Off(x) == dropped[x] \union skipped[x] \union lost[x]

\* The frames of a stream are in line, and none is missing but what was shed or, on a
\* damaged input, given up; the last packet read is dropped only when another is still
\* to come.
Line(x) ==
    /\ Rising(OnTheWay(x)) /\ Items(OnTheWay(x)) \subseteq 1..read[x]
    /\ Off(x) \subseteq 1..read[x]
    /\ ~stop => 1..read[x] = Items(OnTheWay(x)) \union Off(x)
    /\ read[x] \in dropped[x] => ~Exhausted(x)
    /\ lost[x] # {} => MayLose

\* The marker that a decoder has popped still divides what it holds from what comes.
Popped(x) == IF flushing[x] = "loop" THEN <<Marker>> ELSE <<>>
\* What a decoder holds and what is coming to it.
ToDecode(x) == held[x] \o Popped(x) \o packets[x] \o Pushing(x)

\* Between packets of two passes there is a marker, wherever they are: PassesDoNotMix
\* alone says nothing of the packets in the queue.
Batches(x) ==
    LET old == PassLength[x] * m_loops IN
    /\ Divided(ToDecode(x), PassLength[x])
    /\ BehindMarkers(ToDecode(x), old)
    /\ demux \in {"top", "reading", "atEnd", "push"} => AheadOfMarkers(ToDecode(x), old)

\* A stop has a reason, and an exit status of 0 means that no thread failed.
Ending ==
    /\ stop => m_error # "none" \/ interrupted
    /\ exit = 0 /\ ~interrupted => m_error = "none" /\ m_running = 0

\* The parts together.
IInv ==
    /\ Typed /\ Counted /\ Demuxing /\ Ending
    /\ \A x \in Streams : Room(x) /\ Working(x) /\ Line(x) /\ Batches(x)
-----------------------------------------------------------------------------
\* What a setup decides.
LEMMA SetupIs ==
  ASSUME setup \in Setups
  PROVE  /\ Streams \in SUBSET {"video", "audio"} /\ Streams # {}
         /\ PacketCapacity \in Nat \ {0} /\ FrameCapacity \in Nat \ {0}
         /\ DecoderDelay \in Nat /\ ProcessorDelay \in Nat /\ MaxLoops \in Nat
         /\ \A x \in Streams : PassLength[x] \in Nat
         /\ MayFail \subseteq {"demux", "video", "audio"}
<1>1. setup \in Setup  BY PipelineAssumption
<1>2. Streams \in (SUBSET {"video", "audio"}) \ {{}}  BY <1>1 DEF Setup, Streams
<1>3. /\ PacketCapacity \in Nat \ {0} /\ FrameCapacity \in Nat \ {0}
      /\ DecoderDelay \in Nat /\ ProcessorDelay \in Nat /\ MaxLoops \in Nat
  BY <1>1 DEF Setup, PacketCapacity, FrameCapacity, DecoderDelay, ProcessorDelay, MaxLoops
<1>4. setup.passLength \in [{"video", "audio"} -> Nat]  BY <1>1 DEF Setup
<1>5. MayFail \subseteq {"demux", "video", "audio"}  BY <1>1 DEF Setup, MayFail
<1>6. \A x \in Streams : PassLength[x] \in Nat  BY <1>2, <1>4 DEF PassLength
<1>7. Streams \in SUBSET {"video", "audio"} /\ Streams # {}  BY <1>2, Zenon
<1> QED  BY <1>3, <1>5, <1>6, <1>7, Zenon

\* No packet has the number of the marker.
LEMMA NumbersArePositive == ASSUME setup \in Setups PROVE Numbers \subseteq Nat \ {0}
<1> SUFFICES ASSUME NEW x \in Streams, NEW n \in 1..(PassLength[x] * (MaxLoops + 1))
             PROVE  n \in Nat \ {0}
  BY DEF Numbers
<1>1. PassLength[x] \in Nat /\ MaxLoops \in Nat  BY SetupIs
<1> QED  BY <1>1

\* A setup never changes.
LEMMA SetupKept ==
  ASSUME setup' = setup
  PROVE  /\ Streams' = Streams /\ Numbers' = Numbers /\ PacketCapacity' = PacketCapacity
         /\ FrameCapacity' = FrameCapacity /\ DecoderDelay' = DecoderDelay
         /\ ProcessorDelay' = ProcessorDelay /\ PassLength' = PassLength /\ MaxLoops' = MaxLoops
         /\ MayLose' = MayLose
BY DEF Streams, Numbers, PacketCapacity, FrameCapacity, DecoderDelay, ProcessorDelay, PassLength,
       MaxLoops, MayLose

\* The packets of k passes, and of one more.
LEMMA PassesGrow ==
  ASSUME NEW p \in Nat, NEW k \in Nat, NEW l \in Nat, k <= l
  PROVE  p * k \in Nat /\ p * k <= p * l /\ p * (k + 1) = p * k + p
OBVIOUS

\* Sequences of T: the ends.
LEMMA SeqEnds ==
  ASSUME NEW T, NEW s \in Seq(T)
  PROVE  /\ Len(s) \in Nat /\ (s = <<>> <=> Len(s) = 0)
         /\ s # <<>> => Head(s) \in T /\ Tail(s) \in Seq(T) /\ Len(Tail(s)) = Len(s) - 1
         /\ \A e \in T : Append(s, e) \in Seq(T) /\ Len(Append(s, e)) = Len(s) + 1
<1>1. Len(s) \in Nat /\ (s = <<>> <=> Len(s) = 0)  BY LenProperties, EmptySeq
<1>2. s # <<>> => Head(s) \in T /\ Tail(s) \in Seq(T) /\ Len(Tail(s)) = Len(s) - 1
  BY HeadTailProperties
<1>3. \A e \in T : Append(s, e) \in Seq(T) /\ Len(Append(s, e)) = Len(s) + 1
  BY AppendProperties
<1> QED  BY <1>1, <1>2, <1>3
-----------------------------------------------------------------------------
\* Every packet of the current pass has a number.
LEMMA NumberRead ==
  ASSUME Typed, NEW x \in Streams, NEW n \in Nat \ {0}, n <= PassLength[x] * (m_loops + 1)
  PROVE  n \in Numbers
<1>1. PassLength[x] \in Nat /\ MaxLoops \in Nat /\ m_loops \in Nat /\ m_loops <= MaxLoops
  BY SetupIs DEF Typed
<1>2. PassLength[x] * (m_loops + 1) <= PassLength[x] * (MaxLoops + 1)  BY <1>1, PassesGrow
<1>3. n \in 1..(PassLength[x] * (MaxLoops + 1))  BY <1>1, <1>2
<1> QED  BY <1>3 DEF Numbers

\* A restart queues one marker for each stream.
LEMMA MarkersAre ==
  ASSUME setup \in Setups
  PROVE  /\ Markers \in Seq([stream : Streams, item : {Marker}]) /\ Markers # <<>>
         /\ \A i, j \in DOMAIN Markers : Markers[i].stream = Markers[j].stream => i = j
         /\ \A x \in Streams : \E i \in DOMAIN Markers : Markers[i].stream = x
<1> DEFINE v == [stream |-> "video", item |-> Marker]
           a == [stream |-> "audio", item |-> Marker]
<1>1. Streams \in {{"video"}, {"audio"}, {"video", "audio"}}  BY SetupIs
<1>2. CASE Streams = {"video"}
  <2>1. Markers = <<v>>  BY <1>2 DEF Markers, MarkerFor
  <2> QED  BY <1>2, <2>1
<1>3. CASE Streams = {"audio"}
  <2>1. Markers = <<a>>  BY <1>3 DEF Markers, MarkerFor
  <2> QED  BY <1>3, <2>1
<1>4. CASE Streams = {"video", "audio"}
  <2> DEFINE T == [stream : Streams, item : {Marker}]
  <2>1. Markers = <<v>> \o <<a>>  BY <1>4 DEF Markers, MarkerFor
  <2>2. v \in T /\ a \in T /\ v.stream = "video" /\ a.stream = "audio"  BY <1>4
  <2> HIDE DEF v, a, T
  <2>3. <<v>> \in Seq(T) /\ <<a>> \in Seq(T) /\ Len(<<v>>) = 1 /\ Len(<<a>>) = 1
        /\ <<v>>[1] = v /\ <<a>>[1] = a
    BY <2>2
  <2>4. Markers \in Seq(T) /\ Len(Markers) = 2 /\ Markers[1] = v /\ Markers[2] = a
    BY <2>1, <2>3, ConcatProperties
  <2>5. DOMAIN Markers = {1, 2} /\ Markers # <<>>  BY <2>4, LenProperties, EmptySeq
  <2> QED  BY <1>4, <2>2, <2>4, <2>5 DEF T
<1> QED  BY <1>1, <1>2, <1>3, <1>4
-----------------------------------------------------------------------------
\* The types at one stream.
LEMMA TypesAt ==
  ASSUME Typed, NEW x \in Streams
  PROVE  /\ packets[x] \in Seq(Numbers \union {Marker}) /\ frames[x] \in Seq(Numbers)
         /\ held[x] \in Seq(Numbers) /\ kept[x] \in Seq(Numbers) /\ sent[x] \in Seq(Numbers)
         /\ inHand[x] \in Numbers \union {Nobody} /\ read[x] \in Numbers \union {0}
         /\ dropped[x] \subseteq Numbers /\ skipped[x] \subseteq Numbers /\ lost[x] \subseteq Numbers
         /\ decoder[x] \in DecoderPlaces /\ presenter[x] \in PresenterPlaces
         /\ flushing[x] \in {"no", "loop", "end", "processor"}
BY SMTT(30) DEF Typed

\* Types are kept: by the demuxer,
LEMMA DemuxTyped ==
  ASSUME Typed, Demuxing, Demux(DemuxWorks) \/ Demux(ReadPacket) \/ Demux(ReadBreaksOff) \/ Demux(ReadThrows)
  PROVE  Typed'
<1>1. /\ setup' = setup
      /\ UNCHANGED <<frames, framesClosed, decoder, held, kept, flushing, skipped, presenter, inHand,
                     started, sent, dropped, interrupted, exit>>
  BY DEF Demux, decodeVars, presentVars, mainVars
<1>2. /\ Streams' = Streams /\ Numbers' = Numbers /\ MaxLoops' = MaxLoops /\ setup \in Setups
      /\ m_loops \in Nat /\ MaxLoops \in Nat
  BY <1>1, SetupKept, SetupIs DEF Typed
<1>3. SUFFICES /\ stop' \in BOOLEAN /\ m_error' \in {"none", "demux"} \union Streams
               /\ m_loops' \in 0..MaxLoops
               /\ packets' \in [Streams -> Seq(Numbers \union {Marker})]
               /\ packetsClosed' \in [Streams -> BOOLEAN] /\ demux' \in DemuxPlaces
               /\ toPush' \in Seq([stream : Streams, item : Numbers \union {Marker}])
               /\ read' \in [Streams -> Numbers \union {0}] /\ lost' \in [Streams -> SUBSET Numbers]
  BY <1>1, <1>2 DEF Typed
<1> DEFINE T == [stream : Streams, item : Numbers \union {Marker}]
<1>4. /\ stop \in BOOLEAN /\ m_error \in {"none", "demux"} \union Streams
      /\ m_loops \in 0..MaxLoops
      /\ packets \in [Streams -> Seq(Numbers \union {Marker})]
      /\ packetsClosed \in [Streams -> BOOLEAN] /\ demux \in DemuxPlaces
      /\ toPush \in Seq(T)
      /\ read \in [Streams -> Numbers \union {0}] /\ lost \in [Streams -> SUBSET Numbers]
  BY DEF Typed
<1> HIDE DEF T
<1>5. CASE DemuxTop  BY <1>4, <1>5 DEF DemuxTop, DemuxPlaces, T
<1>6. CASE ReadNothing  BY <1>4, <1>6 DEF ReadNothing, DemuxPlaces, T
<1>7. CASE ReadThrows  BY <1>4, <1>7 DEF ReadThrows, Fail, DemuxPlaces, T
<1>8. CASE DemuxEnds  BY <1>4, <1>8 DEF DemuxEnds, DemuxPlaces, T
<1>9. CASE ClosePackets("video", "closeVideo", "closeAudio") \/ ClosePackets("audio", "closeAudio", "ending")
  BY <1>4, <1>9 DEF ClosePackets, DemuxPlaces, T
<1>10. CASE ReadPacket
  <2>1. PICK x \in Streams :
          /\ ~Exhausted(x) /\ read' = [read EXCEPT ![x] = @ + 1]
          /\ toPush' = <<[stream |-> x, item |-> read[x] + 1]>> /\ demux' = "push"
          /\ UNCHANGED <<stop, m_error, packets, packetsClosed, m_loops, lost>>
    BY <1>10 DEF ReadPacket
  <2>2. read[x] \in Nat  BY <1>4, <1>2, NumbersArePositive
  <2>3. read[x] + 1 \in Numbers
    <3>1. PassLength[x] * (m_loops + 1) \in Nat  BY <1>2, SetupIs
    <3>2. read[x] + 1 <= PassLength[x] * (m_loops + 1)  BY <2>1, <2>2, <3>1 DEF Demuxing, Exhausted
    <3> QED  BY <2>2, <3>2, NumberRead
  <2>4. toPush' \in Seq(T)  BY <2>1, <2>3 DEF T
  <2> QED  BY <1>4, <2>1, <2>3, <2>4 DEF DemuxPlaces, T
<1>11. CASE EndOfPass
  <2>1. Markers \in Seq(T)  
    <3>1. [stream : Streams, item : {Marker}] \subseteq T  BY DEF T
    <3> QED  BY <1>2, <3>1, MarkersAre, SeqMonotonic
  <2>2. m_loops < MaxLoops => m_loops + 1 \in 0..MaxLoops  BY <1>2
  <2> QED  BY <1>4, <1>11, <2>1, <2>2 DEF EndOfPass, DemuxPlaces, T
<1>12. CASE PushPacket
  <2>1. toPush # <<>>  BY <1>12 DEF PushPacket, Demuxing
  <2>2. toPush[1] \in T /\ Tail(toPush) \in Seq(T) /\ <<>> \in Seq(T)
    <3>1. 1 \in 1..Len(toPush)  BY <1>4, <2>1, SeqEnds
    <3> QED  BY <1>4, <2>1, <3>1, SeqEnds, ElementOfSeq
  <2> DEFINE x == toPush[1].stream
             i == toPush[1].item
  <2>3. x \in Streams /\ i \in Numbers \union {Marker}  BY <2>2 DEF T
  <2>4. Append(packets[x], i) \in Seq(Numbers \union {Marker})  BY <1>4, <2>3, SeqEnds
  <2>5. \/ packets' = [packets EXCEPT ![x] = Append(@, i)] /\ toPush' = Tail(toPush)
        \/ packets' = packets /\ toPush' = <<>>
    BY <1>12 DEF PushPacket
  <2>6. demux' \in {"top", "push", "closeVideo"} /\ UNCHANGED <<stop, m_error, packetsClosed, read, m_loops, lost>>
    BY <1>12 DEF PushPacket
  <2> HIDE DEF x, i
  <2>7. packets' \in [Streams -> Seq(Numbers \union {Marker})]  BY <1>4, <2>3, <2>4, <2>5
  <2>8. toPush' \in Seq(T)  BY <2>2, <2>5
  <2> QED  BY <1>4, <2>6, <2>7, <2>8 DEF DemuxPlaces, T
<1>13. CASE ReadBreaksOff
  <2>1. /\ read' = [x \in Streams |-> PassLength[x] * (m_loops + 1)]
        /\ lost' = [x \in Streams |-> lost[x] \union (read[x] + 1)..read'[x]]
        /\ demux' = "atEnd" /\ UNCHANGED <<stop, m_error, packets, packetsClosed, toPush, m_loops>>
    BY <1>13 DEF ReadBreaksOff
  <2>2. ASSUME NEW x \in Streams
        PROVE  read'[x] \in Numbers \union {0} /\ lost[x] \union (read[x] + 1)..read'[x] \in SUBSET Numbers
    <3> DEFINE q == PassLength[x] * (m_loops + 1)
    <3>1. q \in Nat /\ read'[x] = q /\ read[x] \in Nat
      BY <1>2, <1>4, <2>1, SetupIs, NumbersArePositive
    <3>2. \A n \in 1..q : n \in Numbers
      <4> TAKE n \in 1..q
      <4>1. n \in Nat \ {0} /\ n <= q  BY <3>1
      <4> QED  BY <4>1, NumberRead
    <3> HIDE DEF q
    <3>3. q \in Numbers \union {0}  BY <3>1, <3>2
    <3>4. (read[x] + 1)..q \subseteq 1..q  BY <3>1
    <3> QED  BY <1>4, <3>1, <3>2, <3>3, <3>4
  <2>3. read' \in [Streams -> Numbers \union {0}]
    <3>1. \A x \in Streams : PassLength[x] * (m_loops + 1) \in Numbers \union {0}  BY <2>1, <2>2
    <3> QED  BY <2>1, <3>1
  <2>4. lost' \in [Streams -> SUBSET Numbers]  BY <2>1, <2>2
  <2> QED  BY <1>4, <2>1, <2>3, <2>4 DEF DemuxPlaces, T
<1> QED
  BY <1>5, <1>6, <1>7, <1>8, <1>9, <1>10, <1>11, <1>12, <1>13 DEF Demux, DemuxWorks

\* by a decoder, which pushes only a frame that it has,
LEMMA DecodeTyped ==
  ASSUME Typed, NEW x \in Streams, Room(x), Decode(DecoderWorks(x)) \/ Decode(DecoderThrows(x))
  PROVE  Typed'
<1>1. /\ setup' = setup
      /\ UNCHANGED <<packetsClosed, demux, toPush, read, m_loops, presenter, inHand, started, sent,
                     interrupted, exit>>
  BY DEF Decode, demuxVars, presentVars, mainVars
<1>2. Streams' = Streams /\ Numbers' = Numbers /\ MaxLoops' = MaxLoops /\ setup \in Setups
  BY <1>1, SetupKept, SetupIs DEF Typed
<1>3. SUFFICES /\ stop' \in BOOLEAN /\ m_error' \in {"none", "demux"} \union Streams
               /\ packets' \in [Streams -> Seq(Numbers \union {Marker})]
               /\ frames' \in [Streams -> Seq(Numbers)] /\ framesClosed' \in [Streams -> BOOLEAN]
               /\ held' \in [Streams -> Seq(Numbers)] /\ kept' \in [Streams -> Seq(Numbers)]
               /\ decoder' \in [Streams -> DecoderPlaces]
               /\ flushing' \in [Streams -> {"no", "loop", "end", "processor"}]
               /\ dropped' \in [Streams -> SUBSET Numbers] /\ skipped' \in [Streams -> SUBSET Numbers]
               /\ lost' \in [Streams -> SUBSET Numbers]
  BY <1>1, <1>2 DEF Typed
<1>4. /\ stop \in BOOLEAN /\ m_error \in {"none", "demux"} \union Streams
      /\ packets \in [Streams -> Seq(Numbers \union {Marker})]
      /\ frames \in [Streams -> Seq(Numbers)] /\ framesClosed \in [Streams -> BOOLEAN]
      /\ held \in [Streams -> Seq(Numbers)] /\ kept \in [Streams -> Seq(Numbers)]
      /\ decoder \in [Streams -> DecoderPlaces]
      /\ flushing \in [Streams -> {"no", "loop", "end", "processor"}]
      /\ dropped \in [Streams -> SUBSET Numbers] /\ skipped \in [Streams -> SUBSET Numbers]
      /\ lost \in [Streams -> SUBSET Numbers]
  BY DEF Typed
<1>5. /\ packets[x] # <<>> => /\ Head(packets[x]) \in Numbers \union {Marker}
                              /\ Tail(packets[x]) \in Seq(Numbers \union {Marker})
      /\ held[x] # <<>> => Head(held[x]) \in Numbers /\ Tail(held[x]) \in Seq(Numbers)
      /\ kept[x] # <<>> => Head(kept[x]) \in Numbers /\ Tail(kept[x]) \in Seq(Numbers)
      /\ \A n \in Numbers : Append(held[x], n) \in Seq(Numbers) /\ Append(kept[x], n) \in Seq(Numbers)
                            /\ Append(frames[x], n) \in Seq(Numbers)
      /\ Len(held[x]) \in Nat /\ (held[x] = <<>> <=> Len(held[x]) = 0)
  BY <1>4, SeqEnds
<1>6. CASE DecoderPops(x)
  <2>1. packets[x] # <<>>  BY <1>6 DEF DecoderPops
  <2>2. packets' = [packets EXCEPT ![x] = Tail(@)] /\ UNCHANGED <<stop, m_error, frames, framesClosed, kept, dropped>>
    BY <1>6 DEF DecoderPops
  <2>3. decoder' \in {decoder, [decoder EXCEPT ![x] = "drain"]} /\ flushing' \in {flushing, [flushing EXCEPT ![x] = "loop"]}
    BY <1>6 DEF DecoderPops, At, Flushing
  <2>4. \/ UNCHANGED <<held, skipped, lost>>
        \/ /\ Head(packets[x]) \in Numbers
           /\ \/ held' = [held EXCEPT ![x] = Append(@, Head(packets[x]))] /\ UNCHANGED <<skipped, lost>>
              \/ skipped' = [skipped EXCEPT ![x] = @ \union {Head(packets[x])}] /\ UNCHANGED <<held, lost>>
              \/ lost' = [lost EXCEPT ![x] = @ \union {Head(packets[x])}] /\ UNCHANGED <<held, skipped>>
    BY <1>5, <1>6, <2>1 DEF DecoderPops
  <2>5. packets' \in [Streams -> Seq(Numbers \union {Marker})]  BY <1>4, <1>5, <2>1, <2>2
  <2>6. held' \in [Streams -> Seq(Numbers)]  BY <1>4, <1>5, <2>4
  <2>7. skipped' \in [Streams -> SUBSET Numbers]
    <3>1. \A n \in Numbers : skipped[x] \union {n} \in SUBSET Numbers  BY <1>4
    <3> QED  BY <1>4, <2>4, <3>1
  <2>8. decoder' \in [Streams -> DecoderPlaces] /\ flushing' \in [Streams -> {"no", "loop", "end", "processor"}]
    BY <1>4, <2>3 DEF DecoderPlaces
  <2>9. lost' \in [Streams -> SUBSET Numbers]
    <3>1. \A n \in Numbers : lost[x] \union {n} \in SUBSET Numbers  BY <1>4
    <3> QED  BY <1>4, <2>4, <3>1
  <2> QED  BY <1>4, <2>2, <2>5, <2>6, <2>7, <2>8, <2>9
<1>7. CASE DecoderFinds(x)  BY <1>4, <1>7 DEF DecoderFinds, At, Flushing, DecoderPlaces
<1>8. CASE DecoderReceives(x)
  <2>1. Delay(x) \in Nat  BY <1>2, SetupIs DEF Delay
  <2>2. held[x] # <<>>  BY <1>5, <1>8, <2>1 DEF DecoderReceives
  <2>3. /\ held' = [held EXCEPT ![x] = Tail(@)]
        /\ \E p \in DecoderPlaces : decoder' = [decoder EXCEPT ![x] = p]
        /\ UNCHANGED <<stop, m_error, packets, frames, framesClosed, flushing, skipped>>
    BY <1>8 DEF DecoderReceives, At, DecoderPlaces
  <2>4. \/ kept' = [kept EXCEPT ![x] = Append(@, Head(held[x]))] /\ UNCHANGED <<dropped, lost>>
        \/ dropped' = [dropped EXCEPT ![x] = @ \union {Head(held[x])}] /\ UNCHANGED <<kept, lost>>
        \/ lost' = [lost EXCEPT ![x] = @ \union {Head(held[x])}] /\ UNCHANGED <<kept, dropped>>
    BY <1>8 DEF DecoderReceives
  <2>5. held' \in [Streams -> Seq(Numbers)]  BY <1>4, <1>5, <2>2, <2>3
  <2>6. kept' \in [Streams -> Seq(Numbers)]  BY <1>4, <1>5, <2>2, <2>4
  <2>7. dropped' \in [Streams -> SUBSET Numbers]
    <3>1. dropped[x] \union {Head(held[x])} \in SUBSET Numbers  BY <1>4, <1>5, <2>2
    <3> QED  BY <1>4, <2>4, <3>1
  <2>8. decoder' \in [Streams -> DecoderPlaces]  BY <1>4, <2>3
  <2>9. lost' \in [Streams -> SUBSET Numbers]
    <3>1. lost[x] \union {Head(held[x])} \in SUBSET Numbers  BY <1>4, <1>5, <2>2
    <3> QED  BY <1>4, <2>4, <3>1
  <2> QED  BY <1>4, <2>3, <2>5, <2>6, <2>7, <2>8, <2>9
<1>9. CASE DecoderGoesOn(x)  BY <1>4, <1>9 DEF DecoderGoesOn, At, Flushing, DecoderPlaces
<1>10. CASE ProcessorFlushes(x)  BY <1>4, <1>10 DEF ProcessorFlushes, At, Flushing, DecoderPlaces
<1>11. CASE PushFrame(x)
  <2>1. kept[x] # <<>>  BY <1>11 DEF PushFrame, Room
  <2>2. /\ kept' = [kept EXCEPT ![x] = Tail(@)]
        /\ \E p \in DecoderPlaces : decoder' = [decoder EXCEPT ![x] = p]
        /\ frames' = frames \/ frames' = [frames EXCEPT ![x] = Append(@, Head(kept[x]))]
        /\ UNCHANGED <<stop, m_error, packets, framesClosed, held, flushing, skipped, dropped, lost>>
    BY <1>11 DEF PushFrame, At, AfterPush, DecoderPlaces
  <2>3. kept' \in [Streams -> Seq(Numbers)]  BY <1>4, <1>5, <2>1, <2>2
  <2>4. frames' \in [Streams -> Seq(Numbers)]
    <3>1. Append(frames[x], Head(kept[x])) \in Seq(Numbers)  BY <1>5, <2>1
    <3> QED  BY <1>4, <2>2, <3>1
  <2>5. decoder' \in [Streams -> DecoderPlaces]  BY <1>4, <2>2
  <2> QED  BY <1>4, <2>2, <2>3, <2>4, <2>5
<1>12. CASE DecoderThrows(x)  BY <1>4, <1>12 DEF DecoderThrows, Fail, At, DecoderPlaces
<1>13. CASE CloseFrames(x)  BY <1>4, <1>13 DEF CloseFrames, At, DecoderPlaces
<1>14. CASE DecoderEnds(x)  BY <1>4, <1>14 DEF DecoderEnds, At, DecoderPlaces
<1>15. CASE DecoderFails(x)
  <2>1. Delay(x) \in Nat  BY <1>2, SetupIs DEF Delay
  <2>2. held[x] # <<>>  BY <1>5, <1>15, <2>1 DEF DecoderFails
  <2>3. UNCHANGED <<stop, m_error, packets, frames, framesClosed, decoder, kept, flushing, skipped, dropped>>
    BY <1>15 DEF DecoderFails
  <2>4. \/ held' = [held EXCEPT ![x] = Tail(@)] /\ lost' = [lost EXCEPT ![x] = @ \union {Head(held[x])}]
        \/ held' = [held EXCEPT ![x] = <<>>] /\ lost' = [lost EXCEPT ![x] = @ \union Items(held[x])]
    BY <1>15 DEF DecoderFails
  <2>5. Items(held[x]) \subseteq Numbers
    <3>1. held[x] \in Seq(Numbers)  BY <1>4
    <3>2. \A n \in DOMAIN held[x] : held[x][n] \in Numbers  BY <3>1, LenProperties, ElementOfSeq
    <3> QED  BY <3>2 DEF Items
  <2>6. held' \in [Streams -> Seq(Numbers)]
    <3>1. Tail(held[x]) \in Seq(Numbers) /\ <<>> \in Seq(Numbers)  BY <1>5, <2>2
    <3>2. held' = [held EXCEPT ![x] = Tail(held[x])] \/ held' = [held EXCEPT ![x] = <<>>]  BY <2>4
    <3> QED  BY <1>4, <3>1, <3>2
  <2>7. lost' \in [Streams -> SUBSET Numbers]
    <3>1. /\ lost[x] \union {Head(held[x])} \in SUBSET Numbers
          /\ lost[x] \union Items(held[x]) \in SUBSET Numbers
      BY <1>4, <1>5, <2>2, <2>5
    <3> QED  BY <1>4, <2>4, <3>1
  <2> QED  BY <1>4, <2>3, <2>6, <2>7
<1> QED
  BY <1>6, <1>7, <1>8, <1>9, <1>10, <1>11, <1>12, <1>13, <1>14, <1>15 DEF Decode, DecoderWorks

\* by a presenter, which presents only a frame in hand,
LEMMA PresentTyped ==
  ASSUME Typed, NEW x \in Streams, Working(x), Present(PresenterWorks(x)) \/ Present(PresenterDrops(x))
  PROVE  Typed'
<1>1. /\ setup' = setup
      /\ UNCHANGED <<stop, m_error, packets, packetsClosed, framesClosed, demux, toPush, read, m_loops,
                     decoder, held, kept, flushing, skipped, lost, interrupted, exit>>
  BY DEF Present, demuxVars, decodeVars, mainVars
<1>2. Streams' = Streams /\ Numbers' = Numbers /\ MaxLoops' = MaxLoops /\ setup \in Setups
  BY <1>1, SetupKept, SetupIs DEF Typed
<1>3. SUFFICES /\ frames' \in [Streams -> Seq(Numbers)] /\ sent' \in [Streams -> Seq(Numbers)]
               /\ presenter' \in [Streams -> PresenterPlaces]
               /\ inHand' \in [Streams -> Numbers \union {Nobody}]
               /\ started' \subseteq Streams /\ dropped' \in [Streams -> SUBSET Numbers]
  BY <1>1, <1>2 DEF Typed
<1>4. /\ frames \in [Streams -> Seq(Numbers)] /\ sent \in [Streams -> Seq(Numbers)]
      /\ presenter \in [Streams -> PresenterPlaces]
      /\ inHand \in [Streams -> Numbers \union {Nobody}]
      /\ started \subseteq Streams /\ dropped \in [Streams -> SUBSET Numbers]
  BY DEF Typed
<1>5. /\ frames[x] # <<>> => Head(frames[x]) \in Numbers /\ Tail(frames[x]) \in Seq(Numbers)
      /\ \A n \in Numbers : Append(sent[x], n) \in Seq(Numbers)
      /\ presenter[x] = "present" => inHand[x] \in Numbers
  BY <1>4, SeqEnds DEF Working
<1>6. CASE PresenterPops(x)  BY <1>4, <1>5, <1>6 DEF PresenterPops, Goes, PresenterPlaces
<1>7. CASE PresenterFinds(x)  BY <1>4, <1>7 DEF PresenterFinds, Goes, PresenterPlaces
<1>8. CASE PresenterStarts(x)  BY <1>4, <1>8 DEF PresenterStarts, Goes, PresenterPlaces
<1>9. CASE PresenterStops(x)  BY <1>4, <1>9 DEF PresenterStops, Goes, PresenterPlaces
<1>10. CASE PresenterDrops(x)  BY <1>4, <1>5, <1>10 DEF PresenterDrops, Goes, PresenterPlaces
<1>11. CASE PresenterSends(x)  BY <1>4, <1>5, <1>11 DEF PresenterSends, Goes, PresenterPlaces
<1>12. CASE PresenterEnds(x)  BY <1>4, <1>12 DEF PresenterEnds, Goes, PresenterPlaces
<1> QED  BY <1>6, <1>7, <1>8, <1>9, <1>10, <1>11, <1>12 DEF Present, PresenterWorks

\* by main and the signal thread.
LEMMA MainTyped ==
  ASSUME Typed, (exit = NotYet /\ (Signal \/ ForceExit)) \/ MainStep \/ UNCHANGED vars
  PROVE  Typed'
<1>1. /\ setup' = setup
      /\ UNCHANGED <<m_error, packets, packetsClosed, frames, framesClosed, demux, toPush, read, m_loops,
                     decoder, held, kept, flushing, skipped, presenter, inHand, started, sent, dropped,
                     lost>>
      /\ stop' \in {stop, TRUE} /\ interrupted' \in {interrupted, TRUE} /\ exit' \in {exit, 0, 1, 130}
  BY DEF Signal, ForceExit, MainStep, SignalStops, MainReturns, pipeVars, vars, mainVars,
         demuxVars, decodeVars, presentVars
<1>2. Streams' = Streams /\ Numbers' = Numbers /\ MaxLoops' = MaxLoops
  BY <1>1, SetupKept
<1>3. stop' \in BOOLEAN /\ interrupted' \in BOOLEAN /\ exit' \in {NotYet, 0, 1, 130}
  BY <1>1, ZenonT(40) DEF Typed
<1> QED  BY <1>1, <1>2, <1>3 DEF Typed
-----------------------------------------------------------------------------
\* Who is alive after a thread has moved.
LEMMA OneMoves ==
  ASSUME NEW S, IsFiniteSet(S), NEW f, NEW g, NEW x \in S, f[x] # "gone",
         \A y \in S \ {x} : g[y] = f[y]
  PROVE  Cardinality({y \in S : g[y] # "gone"})
           = Cardinality({y \in S : f[y] # "gone"}) - (IF g[x] = "gone" THEN 1 ELSE 0)
<1> DEFINE F == {y \in S : f[y] # "gone"}
           G == {y \in S : g[y] # "gone"}
<1>1. IsFiniteSet(F) /\ x \in F  BY FS_Subset
<1>2. Cardinality(F) \in Nat  BY <1>1, FS_CardinalityType
<1>3. CASE g[x] = "gone"
  <2>1. G = F \ {x}  BY <1>3
  <2>2. Cardinality(F \ {x}) = Cardinality(F) - 1  BY <1>1, FS_RemoveElement
  <2> QED  BY <1>3, <2>1, <2>2
<1>4. CASE g[x] # "gone"
  <2>1. G = F  BY <1>4
  <2> QED  BY <1>2, <1>4, <2>1
<1> QED  BY <1>3, <1>4

\* The threads of a kind are a finite set.
LEMMA AliveIs ==
  ASSUME Typed
  PROVE  /\ IsFiniteSet(Streams)
         /\ Cardinality({y \in Streams : decoder[y] # "gone"}) \in Nat
         /\ Cardinality({y \in Streams : presenter[y] # "gone"}) \in Nat
<1>1. IsFiniteSet({"video", "audio"})
  <2>1. IsFiniteSet({"video"}) /\ IsFiniteSet({"audio"})  BY FS_Singleton
  <2>2. {"video", "audio"} = {"video"} \union {"audio"}  OBVIOUS
  <2> QED  BY <2>1, <2>2, FS_Union
<1>2. IsFiniteSet(Streams)  BY <1>1, SetupIs, FS_Subset DEF Typed
<1>3. /\ IsFiniteSet({y \in Streams : decoder[y] # "gone"})
      /\ IsFiniteSet({y \in Streams : presenter[y] # "gone"})
  BY <1>2, FS_Subset
<1> QED  BY <1>2, <1>3, FS_CardinalityType

\* m_running counts the threads: when the demuxer moves or leaves,
LEMMA DemuxCounted ==
  ASSUME Typed, Counted, Demux(DemuxWorks) \/ Demux(ReadPacket) \/ Demux(ReadBreaksOff) \/ Demux(ReadThrows)
  PROVE  Counted'
<1>1. setup' = setup /\ UNCHANGED <<decoder, presenter>>
  BY DEF Demux, decodeVars, presentVars, mainVars
<1>2. Streams' = Streams  BY <1>1, SetupKept
<1>3. demux # "gone" /\ m_running' = m_running - (IF demux' = "gone" THEN 1 ELSE 0)
  <2>1. m_running \in Int  BY AliveIs DEF Counted, Alive
  <2>2. CASE ReadBreaksOff  BY <2>1, <2>2 DEF ReadBreaksOff
  <2> QED  BY <2>1, <2>2
        DEF Demux, DemuxWorks, DemuxTop, ReadPacket, ReadThrows, ReadNothing, EndOfPass, PushPacket,
            ClosePackets, DemuxEnds, Leaves
<1> QED  BY <1>1, <1>2, <1>3, AliveIs DEF Counted, Alive

\* a decoder,
LEMMA DecodeCounted ==
  ASSUME Typed, Counted, NEW x \in Streams, Decode(DecoderWorks(x)) \/ Decode(DecoderThrows(x))
  PROVE  Counted'
<1>1. setup' = setup /\ UNCHANGED <<demux, presenter>>
  BY DEF Decode, demuxVars, presentVars, mainVars
<1>2. Streams' = Streams  BY <1>1, SetupKept
<1>3. m_running \in Int /\ decoder \in [Streams -> DecoderPlaces]
  BY AliveIs, SMTT(30) DEF Counted, Alive, Typed
<1>4. /\ decoder[x] # "gone" /\ \A y \in Streams \ {x} : decoder'[y] = decoder[y]
      /\ m_running' = m_running - (IF decoder'[x] = "gone" THEN 1 ELSE 0)
  <2>1. CASE DecoderPops(x)
    <3>1. decoder[x] = "pop" /\ m_running' = m_running /\ (decoder' = decoder \/ At(x, "drain"))
      BY <2>1 DEF DecoderPops
    <3> QED  BY <1>3, <3>1 DEF At
  <2>2. CASE DecoderFinds(x) \/ DecoderReceives(x) \/ DecoderGoesOn(x) \/ ProcessorFlushes(x)
             \/ PushFrame(x) \/ DecoderThrows(x) \/ CloseFrames(x)
    <3>1. decoder[x] \in {"pop", "drain", "push", "closing"} /\ m_running' = m_running
      BY <2>2 DEF DecoderFinds, DecoderReceives, DecoderGoesOn, Drained, ProcessorFlushes, PushFrame,
                  DecoderThrows, CloseFrames
    <3>2. \E p \in DecoderPlaces : p # "gone" /\ At(x, p)
      BY <2>2 DEF DecoderFinds, DecoderReceives, DecoderGoesOn, ProcessorFlushes, PushFrame,
                  DecoderThrows, CloseFrames, AfterPush, DecoderPlaces
    <3>3. decoder'[x] # "gone" /\ \A y \in Streams \ {x} : decoder'[y] = decoder[y]
      BY <1>3, <3>2 DEF At
    <3> QED  BY <1>3, <3>1, <3>3
  <2>3. CASE DecoderEnds(x)
    BY <1>3, <2>3 DEF DecoderEnds, Leaves, At
  <2>4. CASE DecoderFails(x)  BY <1>3, <2>4 DEF DecoderFails
  <2> QED  BY <2>1, <2>2, <2>3, <2>4 DEF Decode, DecoderWorks
<1>5. Cardinality({y \in Streams : decoder'[y] # "gone"})
        = Cardinality({y \in Streams : decoder[y] # "gone"}) - (IF decoder'[x] = "gone" THEN 1 ELSE 0)
  BY <1>4, AliveIs, OneMoves
<1> QED  BY <1>1, <1>2, <1>3, <1>4, <1>5, AliveIs DEF Counted, Alive

\* a presenter,
LEMMA PresentCounted ==
  ASSUME Typed, Counted, NEW x \in Streams, Present(PresenterWorks(x)) \/ Present(PresenterDrops(x))
  PROVE  Counted'
<1>1. setup' = setup /\ UNCHANGED <<demux, decoder>>
  BY DEF Present, demuxVars, decodeVars, mainVars
<1>2. Streams' = Streams  BY <1>1, SetupKept
<1>3. m_running \in Int /\ presenter \in [Streams -> PresenterPlaces]
  BY AliveIs, SMTT(30) DEF Counted, Alive, Typed
<1>4. /\ presenter[x] # "gone" /\ \A y \in Streams \ {x} : presenter'[y] = presenter[y]
      /\ m_running' = m_running - (IF presenter'[x] = "gone" THEN 1 ELSE 0)
  <2>1. CASE PresenterPops(x) \/ PresenterFinds(x) \/ PresenterStarts(x) \/ PresenterStops(x)
             \/ PresenterSends(x) \/ PresenterDrops(x)
    <3>1. presenter[x] \in {"pop", "start", "present"} /\ m_running' = m_running
      BY <2>1 DEF PresenterPops, PresenterFinds, PresenterStarts, PresenterStops, PresenterSends,
                  PresenterDrops
    <3>2. \E p \in PresenterPlaces : p # "gone" /\ Goes(x, p)
      BY <2>1 DEF PresenterPops, PresenterFinds, PresenterStarts, PresenterStops, PresenterSends,
                  PresenterDrops, PresenterPlaces
    <3>3. presenter'[x] # "gone" /\ \A y \in Streams \ {x} : presenter'[y] = presenter[y]
      BY <1>3, <3>2 DEF Goes
    <3> QED  BY <1>3, <3>1, <3>3
  <2>2. CASE PresenterEnds(x)
    BY <1>3, <2>2 DEF PresenterEnds, Leaves, Goes
  <2> QED  BY <2>1, <2>2 DEF Present, PresenterWorks
<1>5. Cardinality({y \in Streams : presenter'[y] # "gone"})
        = Cardinality({y \in Streams : presenter[y] # "gone"}) - (IF presenter'[x] = "gone" THEN 1 ELSE 0)
  BY <1>4, AliveIs, OneMoves
<1> QED  BY <1>1, <1>2, <1>3, <1>4, <1>5, AliveIs DEF Counted, Alive

\* or main, which leaves them alone.
LEMMA MainCounted ==
  ASSUME Typed, Counted, (exit = NotYet /\ (Signal \/ ForceExit)) \/ MainStep \/ UNCHANGED vars
  PROVE  Counted'
<1>1. UNCHANGED <<setup, decoder, presenter, demux, m_running>>
  BY DEF Signal, ForceExit, MainStep, SignalStops, MainReturns, pipeVars, vars, mainVars,
         demuxVars, decodeVars, presentVars
<1> QED  BY <1>1, SetupKept DEF Counted, Alive
-----------------------------------------------------------------------------
\* A thread stops the others only when it has failed; threads run until the exit.
LEMMA ThreadsEnding ==
  ASSUME Typed, Ending,
         \/ Demux(DemuxWorks) \/ Demux(ReadPacket) \/ Demux(ReadBreaksOff) \/ Demux(ReadThrows)
         \/ \E x \in Streams : \/ Decode(DecoderWorks(x)) \/ Decode(DecoderThrows(x))
                               \/ Present(PresenterWorks(x)) \/ Present(PresenterDrops(x))
  PROVE  Ending'
<1>1. exit = NotYet /\ exit' = exit /\ interrupted' = interrupted
  BY DEF Demux, Decode, Present, mainVars
<1>2. UNCHANGED <<stop, m_error>> \/ \E who : who # "none" /\ Fail(who)
  <2>1. CASE Demux(DemuxWorks) \/ Demux(ReadPacket)
    BY <2>1 DEF Demux, DemuxWorks, DemuxTop, ReadPacket, ReadNothing, EndOfPass, PushPacket,
                ClosePackets, DemuxEnds
  <2>6. CASE Demux(ReadBreaksOff)  BY <2>6 DEF Demux, ReadBreaksOff
  <2>2. CASE Demux(ReadThrows)
    <3>1. Fail("demux")  BY <2>2 DEF Demux, ReadThrows
    <3> QED  BY <3>1
  <2>3. ASSUME NEW x \in Streams, Decode(DecoderWorks(x)) PROVE UNCHANGED <<stop, m_error>>
    BY <2>3 DEF Decode, DecoderWorks, DecoderPops, DecoderFinds, DecoderReceives, DecoderGoesOn,
                ProcessorFlushes, PushFrame, CloseFrames, DecoderEnds, DecoderFails
  <2>4. ASSUME NEW x \in Streams, Decode(DecoderThrows(x)) PROVE x # "none" /\ Fail(x)
    BY <2>4, SetupIs DEF Decode, DecoderThrows, Typed
  <2>5. ASSUME NEW x \in Streams, Present(PresenterWorks(x)) \/ Present(PresenterDrops(x))
        PROVE  UNCHANGED <<stop, m_error>>
    BY <2>5 DEF Present
  <2> QED  BY <2>1, <2>2, <2>3, <2>4, <2>5, <2>6
<1>3. stop' => m_error' # "none" \/ interrupted'  BY <1>1, <1>2 DEF Ending, Fail
<1> QED  BY <1>1, <1>3 DEF Ending, NotYet

\* main returns 0 only when every thread has left and none has failed.
LEMMA MainEnding ==
  ASSUME Typed, Ending, (exit = NotYet /\ (Signal \/ ForceExit)) \/ MainStep \/ UNCHANGED vars
  PROVE  Ending'
<1>1. CASE UNCHANGED vars  BY <1>1 DEF vars, Ending, mainVars
<1>2. CASE exit = NotYet /\ (Signal \/ ForceExit)
  BY <1>2 DEF Signal, ForceExit, pipeVars, Ending, NotYet
<1>3. CASE MainStep  BY <1>3 DEF MainStep, SignalStops, MainReturns, pipeVars, Ending, NotYet
<1> QED  BY <1>1, <1>2, <1>3
-----------------------------------------------------------------------------
\* While the demuxer rests, what it has read and queued stays.
LEMMA DemuxerRests ==
  ASSUME Demuxing, UNCHANGED <<setup, packetsClosed, demux, toPush, read, m_loops>>, stop => stop'
  PROVE  Demuxing'
BY SetupKept DEF Demuxing, Exhausted

\* The demuxer's own steps keep its part of the invariant.
LEMMA DemuxingKept ==
  ASSUME Typed, Demuxing, Demux(DemuxWorks) \/ Demux(ReadPacket) \/ Demux(ReadBreaksOff) \/ Demux(ReadThrows)
  PROVE  Demuxing'
<1>1. setup' = setup  BY DEF Demux, mainVars
<1>2. /\ Streams' = Streams /\ PassLength' = PassLength /\ setup \in Setups /\ m_loops \in Nat
      /\ stop \in BOOLEAN
  BY <1>1, SetupKept, SetupIs DEF Typed
<1>3. \A x \in Streams : PassLength[x] \in Nat /\ read[x] \in Nat
  BY <1>2, SetupIs, NumbersArePositive, SMTT(30) DEF Typed
<1>4. \A x \in Streams : /\ PassLength[x] * m_loops \in Nat /\ PassLength[x] * (m_loops + 1) \in Nat
                         /\ PassLength[x] * (m_loops + 1 + 1) \in Nat
                         /\ PassLength[x] * (m_loops + 1) <= PassLength[x] * (m_loops + 1 + 1)
  <2> TAKE x \in Streams
  <2> QED  BY <1>2, <1>3, PassesGrow
<1>5. CASE DemuxTop  BY <1>1, <1>2, <1>5 DEF DemuxTop, Demuxing, Exhausted
<1>6. CASE ReadNothing  BY <1>1, <1>2, <1>6 DEF ReadNothing, Demuxing, Exhausted
<1>7. CASE ReadThrows  BY <1>1, <1>2, <1>7 DEF ReadThrows, Fail, Demuxing, Exhausted
<1>8. CASE DemuxEnds  BY <1>1, <1>2, <1>8 DEF DemuxEnds, Demuxing, Exhausted
<1>9. CASE ClosePackets("video", "closeVideo", "closeAudio") \/ ClosePackets("audio", "closeAudio", "ending")
  <2>1. /\ demux \in {"closeVideo", "closeAudio"} /\ demux' \in {"closeAudio", "ending"}
        /\ UNCHANGED <<stop, toPush, read, m_loops>>
        /\ \A x \in Streams : packetsClosed'[x] => demux' \in {"closeAudio", "ending"}
    BY <1>9 DEF ClosePackets
  <2> QED  BY <1>1, <1>2, <2>1 DEF Demuxing, Exhausted
<1>10. CASE ReadPacket
  <2>1. PICK x \in Streams :
          /\ ~Exhausted(x) /\ read' = [read EXCEPT ![x] = @ + 1]
          /\ toPush' = <<[stream |-> x, item |-> read[x] + 1]>> /\ demux' = "push"
          /\ demux = "reading" /\ UNCHANGED <<stop, packetsClosed, m_loops>>
    BY <1>10 DEF ReadPacket
  <2>2. toPush' # <<>> /\ DOMAIN toPush' = {1}  BY <2>1
  <2>3. \A y \in Streams : ~packetsClosed[y]  BY <2>1 DEF Demuxing
  <2>4. \A y \in Streams : /\ PassLength[y] * m_loops <= read'[y]
                           /\ read'[y] <= PassLength[y] * (m_loops + 1)
    <3> TAKE y \in Streams
    <3>1. CASE y # x  BY <2>1, <3>1 DEF Demuxing, Typed
    <3>2. CASE y = x
      <4>1. read'[x] = read[x] + 1  BY <2>1 DEF Typed
      <4> QED  BY <1>3, <1>4, <2>1, <3>2, <4>1 DEF Demuxing, Exhausted
    <3> QED  BY <3>1, <3>2
  <2> QED  BY <1>2, <2>1, <2>2, <2>3, <2>4 DEF Demuxing
<1>11. CASE EndOfPass
  <2>1. CASE /\ ~stop /\ m_loops' = m_loops + 1 /\ toPush' = Markers /\ demux' = "push"
             /\ demux = "atEnd" /\ UNCHANGED <<stop, packetsClosed, read>>
    <3>1. \A x \in Streams : ~packetsClosed[x]  BY <2>1 DEF Demuxing
    <3>2. \A x \in Streams : read[x] = PassLength[x] * (m_loops + 1)  BY <2>1 DEF Demuxing, Exhausted
    <3>3. \A x \in Streams : /\ PassLength[x] * m_loops' <= read'[x]
                             /\ read'[x] <= PassLength[x] * (m_loops' + 1)
      BY <1>4, <2>1, <3>2
    <3> QED  BY <1>2, <2>1, <3>1, <3>3, MarkersAre DEF Demuxing
  <2>2. CASE /\ demux' = "closeVideo" /\ demux = "atEnd"
             /\ UNCHANGED <<stop, packetsClosed, toPush, read, m_loops>>
    BY <1>2, <2>2 DEF Demuxing, Exhausted
  <2> QED  BY <1>11, <2>1, <2>2 DEF EndOfPass
<1>12. CASE PushPacket
  <2> DEFINE T == [stream : Streams, item : Numbers \union {Marker}]
  <2>1. toPush # <<>> /\ demux = "push"  BY <1>12 DEF PushPacket, Demuxing
  <2>2. /\ Len(toPush) \in Nat \ {0} /\ DOMAIN toPush = 1..Len(toPush) /\ Tail(toPush) \in Seq(T)
        /\ Len(Tail(toPush)) = Len(toPush) - 1 /\ DOMAIN Tail(toPush) = 1..Len(toPush) - 1
        /\ \A i \in 1..Len(toPush) - 1 : Tail(toPush)[i] = toPush[i + 1]
        /\ (Tail(toPush) = <<>> <=> Len(toPush) = 1)
    <3>1. toPush \in Seq(T)  BY DEF Typed
    <3>2. Len(toPush) \in Nat \ {0} /\ DOMAIN toPush = 1..Len(toPush)
      BY <2>1, <3>1, EmptySeq, LenProperties
    <3>3. /\ Tail(toPush) \in Seq(T) /\ Len(Tail(toPush)) = Len(toPush) - 1
          /\ \A i \in 1..Len(toPush) - 1 : Tail(toPush)[i] = toPush[i + 1]
      BY <2>1, <3>1, HeadTailProperties
    <3>4. DOMAIN Tail(toPush) = 1..Len(toPush) - 1 /\ (Tail(toPush) = <<>> <=> Len(Tail(toPush)) = 0)
      BY <3>3, EmptySeq, LenProperties
    <3> QED  BY <3>2, <3>3, <3>4
  <2>3. UNCHANGED <<stop, packetsClosed, read, m_loops>>  BY <1>12 DEF PushPacket
  <2>4. \A x \in Streams : ~packetsClosed[x]  BY <2>1 DEF Demuxing
  <2>5. CASE toPush' = Tail(toPush) /\ demux' = IF Len(toPush) = 1 THEN "top" ELSE "push"
    <3>1. demux' = "push" <=> toPush' # <<>>  BY <2>2, <2>5
    <3>2. \A i, j \in DOMAIN toPush' : toPush'[i].stream = toPush'[j].stream => i = j
      <4> TAKE i, j \in DOMAIN toPush'
      <4>1. i \in 1..Len(toPush) - 1 /\ j \in 1..Len(toPush) - 1  BY <2>2, <2>5
      <4>2. i + 1 \in DOMAIN toPush /\ j + 1 \in DOMAIN toPush  BY <2>2, <4>1
      <4>3. toPush'[i] = toPush[i + 1] /\ toPush'[j] = toPush[j + 1]  BY <2>2, <2>5, <4>1
      <4> QED  BY <4>1, <4>2, <4>3 DEF Demuxing
    <3> QED  BY <1>2, <2>3, <2>4, <2>5, <3>1, <3>2 DEF Demuxing
  <2>6. CASE stop /\ toPush' = <<>> /\ demux' = "closeVideo"
    BY <1>2, <2>3, <2>4, <2>6 DEF Demuxing
  <2> QED  BY <1>12, <2>5, <2>6 DEF PushPacket
<1>13. CASE ReadBreaksOff
  <2>1. /\ demux = "reading" /\ demux' = "atEnd" /\ UNCHANGED <<stop, packetsClosed, toPush, m_loops>>
        /\ read' = [x \in Streams |-> PassLength[x] * (m_loops + 1)]
    BY <1>13 DEF ReadBreaksOff
  <2>2. \A x \in Streams : ~packetsClosed[x]  BY <2>1 DEF Demuxing
  <2>3. \A x \in Streams : /\ read'[x] = PassLength[x] * (m_loops + 1)
                           /\ PassLength[x] * m_loops <= read'[x]
    <3> TAKE x \in Streams
    <3>1. read'[x] = PassLength[x] * (m_loops + 1)  BY <2>1
    <3>2. PassLength[x] * m_loops <= PassLength[x] * (m_loops + 1)  BY <1>2, <1>3, PassesGrow
    <3> QED  BY <3>1, <3>2
  <2>4. demux' = "push" <=> toPush' # <<>>  BY <2>1 DEF Demuxing
  <2>5. \A x \in Streams : read'[x] <= PassLength[x] * (m_loops + 1) /\ Exhausted(x)'
    <3> TAKE x \in Streams
    <3> QED  BY <1>2, <1>4, <2>1, <2>3 DEF Exhausted
  <2> QED  BY <1>2, <2>1, <2>2, <2>3, <2>4, <2>5 DEF Demuxing
<1> QED
  BY <1>5, <1>6, <1>7, <1>8, <1>9, <1>10, <1>11, <1>12, <1>13 DEF Demux, DemuxWorks
-----------------------------------------------------------------------------
\* All that is claimed of one stream.
Stream(x) == Room(x) /\ Working(x) /\ Line(x) /\ Batches(x)

\* DemuxLoop has not ended.
Live == demux \in {"top", "reading", "atEnd", "push"}

\* What is on the way, but for what the demuxer holds.
Underway(x) == sent[x] \o InHand(x) \o frames[x] \o kept[x] \o held[x] \o packets[x]
\* What a decoder has to do, but for what the demuxer holds.
Fed(x) == held[x] \o Popped(x) \o packets[x]

\* Joined sequences of numbers are one.
LEMMA ConcatInSeq ==
  ASSUME NEW s \in Seq(Nat), NEW t \in Seq(Nat) PROVE s \o t \in Seq(Nat)
BY ConcatProperties

\* An empty part adds nothing.
LEMMA EmptyEnd == ASSUME NEW s \in Seq(Nat) PROVE s \o <<>> = s /\ <<>> \o s = s
BY ConcatEmptySeq

\* The parts of a stream's way are sequences of numbers,
LEMMA PartsAre ==
  ASSUME Typed, NEW x \in Streams
  PROVE  /\ packets[x] \in Seq(Nat) /\ frames[x] \in Seq(Nat) /\ held[x] \in Seq(Nat)
         /\ kept[x] \in Seq(Nat) /\ sent[x] \in Seq(Nat) /\ InHand(x) \in Seq(Nat)
         /\ Popped(x) \in Seq(Nat)
<1>1. Numbers \subseteq Nat /\ Numbers \union {Marker} \subseteq Nat
  BY NumbersArePositive DEF Typed, Marker
<1>2. /\ packets[x] \in Seq(Nat) /\ frames[x] \in Seq(Nat) /\ held[x] \in Seq(Nat)
      /\ kept[x] \in Seq(Nat) /\ sent[x] \in Seq(Nat)
  BY <1>1, TypesAt, SeqMonotonic
<1>3. InHand(x) \in Seq(Nat)
  <2>1. inHand[x] \in Nat  BY <1>1, TypesAt DEF Nobody
  <2> QED  BY <2>1 DEF InHand
<1>4. Popped(x) \in Seq(Nat)  BY DEF Popped, Marker
<1> QED  BY <1>2, <1>3, <1>4

\* and so is what they make up.
LEMMA WaysAre ==
  ASSUME Typed, NEW x \in Streams
  PROVE  /\ Underway(x) \in Seq(Nat) /\ Fed(x) \in Seq(Nat)
         /\ OnTheWay(x) = Underway(x) \o Pushing(x) /\ ToDecode(x) = Fed(x) \o Pushing(x)
<1>1. sent[x] \o InHand(x) \in Seq(Nat)  BY PartsAre, ConcatInSeq
<1>2. sent[x] \o InHand(x) \o frames[x] \in Seq(Nat)  BY <1>1, PartsAre, ConcatInSeq
<1>3. sent[x] \o InHand(x) \o frames[x] \o kept[x] \in Seq(Nat)  BY <1>2, PartsAre, ConcatInSeq
<1>4. sent[x] \o InHand(x) \o frames[x] \o kept[x] \o held[x] \in Seq(Nat)
  BY <1>3, PartsAre, ConcatInSeq
<1>5. Underway(x) \in Seq(Nat)  BY <1>4, PartsAre, ConcatInSeq DEF Underway
<1>6. held[x] \o Popped(x) \in Seq(Nat)  BY PartsAre, ConcatInSeq
<1>7. Fed(x) \in Seq(Nat)  BY <1>6, PartsAre, ConcatInSeq DEF Fed
<1> QED  BY <1>5, <1>7 DEF OnTheWay, ToDecode, Underway, Fed

\* The items of q for stream x, where q has one item at most for each stream.
PushingOf(q, x) ==
    LET mine == {n \in DOMAIN q : q[n].stream = x}
    IN  IF mine = {} THEN <<>> ELSE <<q[CHOOSE n \in mine : TRUE].item>>

\* It is the item for the stream, or nothing.
LEMMA PushingIs ==
  ASSUME NEW q, \A i, j \in DOMAIN q : q[i].stream = q[j].stream => i = j, NEW x
  PROVE  /\ \A n \in DOMAIN q : q[n].stream = x => PushingOf(q, x) = <<q[n].item>>
         /\ (\A n \in DOMAIN q : q[n].stream # x) => PushingOf(q, x) = <<>>
<1> DEFINE mine == {n \in DOMAIN q : q[n].stream = x}
<1>1. ASSUME NEW n \in DOMAIN q, q[n].stream = x PROVE PushingOf(q, x) = <<q[n].item>>
  <2>1. n \in mine /\ mine # {}  BY <1>1
  <2>2. (CHOOSE i \in mine : TRUE) \in mine  BY <2>1
  <2>3. (CHOOSE i \in mine : TRUE) = n  BY <1>1, <2>2
  <2> QED  BY <2>1, <2>3 DEF PushingOf
<1>2. (\A n \in DOMAIN q : q[n].stream # x) => PushingOf(q, x) = <<>>  BY DEF PushingOf
<1> QED  BY <1>1, <1>2

\* What the demuxer is about to push is one item at most.
LEMMA PushingAre ==
  ASSUME Typed, NEW x \in Streams
  PROVE  Pushing(x) = <<>> \/ \E e \in Nat : Pushing(x) = <<e>>
<1> DEFINE mine == {n \in DOMAIN toPush : toPush[n].stream = x}
           T == [stream : Streams, item : Numbers \union {Marker}]
<1>1. CASE mine = {}  BY <1>1 DEF Pushing
<1>2. CASE mine # {}
  <2>1. (CHOOSE n \in mine : TRUE) \in DOMAIN toPush  BY <1>2
  <2>2. \A n \in DOMAIN toPush : toPush[n] \in T
    <3>1. toPush \in Seq(T)  BY DEF Typed
    <3> HIDE DEF T
    <3> QED  BY <3>1, ElementOfSeq, LenProperties
  <2>3. \A n \in DOMAIN toPush : toPush[n].item \in Nat
    <3>1. setup \in Setups  BY DEF Typed
    <3>2. Numbers \union {Marker} \subseteq Nat  BY <3>1, NumbersArePositive DEF Marker
    <3> QED  BY <2>2, <3>2
  <2>4. Pushing(x) = <<toPush[CHOOSE n \in mine : TRUE].item>>  BY <1>2 DEF Pushing
  <2> HIDE DEF mine
  <2> QED  BY <2>1, <2>3, <2>4
<1> QED  BY <1>1, <1>2

\* The first item of q leaves.
LEMMA PushedOff ==
  ASSUME NEW T, NEW q \in Seq(T), q # <<>>,
         \A i, j \in DOMAIN q : q[i].stream = q[j].stream => i = j
  PROVE  /\ PushingOf(q, q[1].stream) = <<q[1].item>>
         /\ PushingOf(Tail(q), q[1].stream) = <<>>
         /\ \A x : x # q[1].stream => PushingOf(Tail(q), x) = PushingOf(q, x)
<1> DEFINE t == Tail(q)
<1>1. /\ Len(q) \in Nat \ {0} /\ DOMAIN q = 1..Len(q) /\ DOMAIN t = 1..Len(q) - 1
      /\ \A i \in 1..Len(q) - 1 : t[i] = q[i + 1]
  <2>1. t \in Seq(T) /\ Len(t) = Len(q) - 1 /\ \A i \in 1..Len(q) - 1 : t[i] = q[i + 1]
    BY HeadTailProperties
  <2> QED  BY <2>1, EmptySeq, LenProperties
<1> HIDE DEF t
<1>2. 1 \in DOMAIN q  BY <1>1
<1>3. \A i \in DOMAIN t : i + 1 \in DOMAIN q /\ i + 1 # 1 /\ t[i] = q[i + 1]  BY <1>1
<1>4. ASSUME NEW i \in DOMAIN t, NEW j \in DOMAIN t, t[i].stream = t[j].stream PROVE i = j
  <2>1. i + 1 = j + 1  BY <1>3, <1>4
  <2> QED  BY <1>1, <2>1
<1>5. PushingOf(q, q[1].stream) = <<q[1].item>>  BY <1>2, PushingIs
<1>6. PushingOf(t, q[1].stream) = <<>>
  <2>1. \A i \in DOMAIN t : t[i].stream # q[1].stream  BY <1>2, <1>3
  <2> QED  BY <1>4, <2>1, PushingIs
<1>7. ASSUME NEW x, x # q[1].stream PROVE PushingOf(t, x) = PushingOf(q, x)
  <2>1. CASE \E n \in DOMAIN q : q[n].stream = x
    <3>1. PICK n \in DOMAIN q : q[n].stream = x  BY <2>1
    <3>2. n # 1  BY <1>7, <3>1
    <3>3. n - 1 \in DOMAIN t /\ t[n - 1] = q[n]  BY <1>1, <3>1, <3>2
    <3>4. PushingOf(q, x) = <<q[n].item>>  BY <3>1, PushingIs
    <3>5. PushingOf(t, x) = <<q[n].item>>  BY <1>4, <3>1, <3>3, PushingIs
    <3> QED  BY <3>4, <3>5
  <2>2. CASE \A n \in DOMAIN q : q[n].stream # x
    <3>1. \A i \in DOMAIN t : t[i].stream # x  BY <1>3, <2>2
    <3> QED  BY <1>4, <2>2, <3>1, PushingIs
  <2> QED  BY <2>1, <2>2
<1> QED  BY <1>5, <1>6, <1>7 DEF t

\* A stream nobody works at keeps what is claimed of it.
LEMMA StreamRests ==
  ASSUME NEW x \in Streams, Stream(x), setup' = setup, stop => stop', m_loops' = m_loops,
         Live' => Live, Pushing(x)' = Pushing(x), packetsClosed[x] => packetsClosed'[x],
         packets'[x] = packets[x], frames'[x] = frames[x], framesClosed'[x] = framesClosed[x],
         read'[x] = read[x], decoder'[x] = decoder[x], held'[x] = held[x], kept'[x] = kept[x],
         flushing'[x] = flushing[x], presenter'[x] = presenter[x], inHand'[x] = inHand[x],
         sent'[x] = sent[x], dropped'[x] = dropped[x], skipped'[x] = skipped[x], lost'[x] = lost[x]
  PROVE  Stream(x)'
<1>1. OnTheWay(x)' = OnTheWay(x)  BY DEF OnTheWay, InHand
<1>2. ToDecode(x)' = ToDecode(x)  BY DEF ToDecode, Popped
<1>3. /\ PacketCapacity' = PacketCapacity /\ FrameCapacity' = FrameCapacity
      /\ DecoderDelay' = DecoderDelay /\ ProcessorDelay' = ProcessorDelay /\ PassLength' = PassLength
      /\ MayLose' = MayLose
  BY SetupKept
<1>4. Room(x)'  BY <1>3 DEF Stream, Room
<1>5. Working(x)'  BY DEF Stream, Working
<1>6. Line(x)'  BY <1>1, <1>3 DEF Stream, Line, Off, Exhausted
<1>7. Batches(x)'  BY <1>2, <1>3 DEF Stream, Batches, Live
<1> QED  BY <1>4, <1>5, <1>6, <1>7 DEF Stream

\* The frames of two parts are those of both.
LEMMA ItemsConcat ==
  ASSUME NEW s \in Seq(Nat), NEW t \in Seq(Nat)
  PROVE  Items(s \o t) = Items(s) \union Items(t)
<1>1. /\ Len(s) \in Nat /\ Len(t) \in Nat
      /\ DOMAIN s = 1..Len(s) /\ DOMAIN t = 1..Len(t) /\ DOMAIN (s \o t) = 1..Len(s) + Len(t)
      /\ \A i \in 1..Len(s) : (s \o t)[i] = s[i]
      /\ \A i \in 1..Len(t) : (s \o t)[Len(s) + i] = t[i]
  BY Concat
<1> DEFINE u == s \o t
<1> HIDE DEF u
<1>2. ASSUME NEW n \in DOMAIN u
      PROVE  (\E i \in DOMAIN s : u[n] = s[i]) \/ (\E i \in DOMAIN t : u[n] = t[i])
  <2>1. CASE n <= Len(s)
    <3>1. n \in DOMAIN s /\ u[n] = s[n]  BY <1>1, <2>1 DEF u
    <3> QED  BY <3>1
  <2>2. CASE n > Len(s)
    <3>1. n - Len(s) \in 1..Len(t) /\ n = Len(s) + (n - Len(s))  BY <1>1, <2>2 DEF u
    <3>2. u[n] = t[n - Len(s)]  BY <1>1, <3>1 DEF u
    <3> QED  BY <1>1, <3>1, <3>2
  <2> QED  BY <1>1, <2>1, <2>2 DEF u
<1>3. \A i \in DOMAIN s : i \in DOMAIN u /\ u[i] = s[i]  BY <1>1 DEF u
<1>4. \A i \in DOMAIN t : Len(s) + i \in DOMAIN u /\ u[Len(s) + i] = t[i]  BY <1>1 DEF u
<1>5. Items(u) \subseteq Items(s) \union Items(t)  BY <1>2 DEF Items
<1>6. Items(s) \union Items(t) \subseteq Items(u)  BY <1>3, <1>4 DEF Items
<1> QED  BY <1>5, <1>6 DEF u

\* What a decoder has to do is on the way.
LEMMA FedIsUnderway ==
  ASSUME Typed, NEW x \in Streams
  PROVE  Items(Fed(x)) \subseteq Items(Underway(x))
<1> DEFINE w == sent[x] \o InHand(x) \o frames[x] \o kept[x]
<1>1. w \in Seq(Nat) /\ w \o held[x] \in Seq(Nat) /\ held[x] \o Popped(x) \in Seq(Nat)
  <2>1. sent[x] \o InHand(x) \in Seq(Nat)  BY PartsAre, ConcatInSeq
  <2>2. sent[x] \o InHand(x) \o frames[x] \in Seq(Nat)  BY <2>1, PartsAre, ConcatInSeq
  <2>3. w \in Seq(Nat)  BY <2>2, PartsAre, ConcatInSeq
  <2> HIDE DEF w
  <2> QED  BY <2>3, PartsAre, ConcatInSeq
<1>2. Underway(x) = (w \o held[x]) \o packets[x]  BY DEF Underway
<1> HIDE DEF w
<1>3. Items(Underway(x)) = Items(w) \union Items(held[x]) \union Items(packets[x])
  BY <1>1, <1>2, PartsAre, ItemsConcat
<1>4. Items(Fed(x)) = Items(held[x]) \union Items(Popped(x)) \union Items(packets[x])
  <2>1. Items(Fed(x)) = Items(held[x] \o Popped(x)) \union Items(packets[x])
    BY <1>1, PartsAre, ItemsConcat DEF Fed
  <2> QED  BY <2>1, PartsAre, ItemsConcat
<1>5. Items(Popped(x)) = {}  BY DEF Items, Popped
<1> QED  BY <1>3, <1>4, <1>5
-----------------------------------------------------------------------------
\* The demuxer at the top, at the end of the input and at its own end moves no packet.
LEMMA DemuxPauses ==
  ASSUME NEW x \in Streams, Stream(x), Typed,
         Demux(DemuxTop \/ ReadNothing \/ DemuxEnds \/ ReadThrows
               \/ ClosePackets("video", "closeVideo", "closeAudio")
               \/ ClosePackets("audio", "closeAudio", "ending")
               \/ (EndOfPass /\ m_loops' = m_loops /\ toPush' = toPush))
  PROVE  Stream(x)'
<1>1. /\ setup' = setup /\ UNCHANGED <<frames, framesClosed, decoder, held, kept, flushing, presenter,
                                      inHand, sent, dropped, skipped>>
  BY DEF Demux, decodeVars, presentVars, mainVars
<1>2. UNCHANGED <<m_loops, toPush, packets, read, lost>> /\ (stop => stop')
  BY DEF Demux, DemuxTop, ReadNothing, DemuxEnds, ReadThrows, Fail, ClosePackets, EndOfPass
<1>3. Live' => Live
  BY DEF Demux, DemuxTop, ReadNothing, DemuxEnds, ReadThrows, ClosePackets, EndOfPass, Live
<1>4. packetsClosed[x] => packetsClosed'[x]
  <2>1. CASE ClosePackets("video", "closeVideo", "closeAudio") \/ ClosePackets("audio", "closeAudio", "ending")
    <3>1. \/ packetsClosed' = packetsClosed
          \/ \E y \in Streams : packetsClosed' = [packetsClosed EXCEPT ![y] = TRUE]
      BY <2>1 DEF ClosePackets
    <3>2. packetsClosed \in [Streams -> BOOLEAN]  BY DEF Typed
    <3> QED  BY <3>1, <3>2, Zenon
  <2>2. CASE DemuxTop \/ ReadNothing \/ DemuxEnds \/ ReadThrows \/ EndOfPass
    BY <2>2 DEF DemuxTop, ReadNothing, DemuxEnds, ReadThrows, EndOfPass
  <2> QED  BY <2>1, <2>2 DEF Demux
<1>5. Pushing(x)' = Pushing(x)  BY <1>2 DEF Pushing
<1> QED  BY <1>1, <1>2, <1>3, <1>4, <1>5, StreamRests

\* Nothing but the ways and what was read may change when the demuxer moves an item.
LEMMA DemuxMoves ==
  ASSUME NEW x \in Streams, Stream(x), setup' = setup, stop' = stop,
         UNCHANGED <<packetsClosed, frames, framesClosed, decoder, held, kept, flushing, presenter, inHand,
                     sent, dropped, skipped>>,
         Len(packets'[x]) <= PacketCapacity,
         packetsClosed[x] => packets'[x] = packets[x],
         Line(x)', Batches(x)'
  PROVE  Stream(x)'
<1>1. Room(x)'  BY SetupKept DEF Stream, Room
<1>2. Working(x)'  BY DEF Stream, Working
<1> QED  BY <1>1, <1>2 DEF Stream

\* A packet that is read has the next number, and comes last.
LEMMA ReadKeeps ==
  ASSUME NEW x \in Streams, Stream(x), Typed, Demuxing, Demux(ReadPacket)
  PROVE  Stream(x)'
<1>1. setup' = setup /\ UNCHANGED <<frames, framesClosed, decoder, held, kept, flushing, presenter,
                                    inHand, sent, dropped, skipped>>
  BY DEF Demux, decodeVars, presentVars, mainVars
<1>2. PICK y \in Streams :
          /\ ~Exhausted(y) /\ read' = [read EXCEPT ![y] = @ + 1]
          /\ toPush' = <<[stream |-> y, item |-> read[y] + 1]>> /\ demux' = "push"
          /\ demux = "reading" /\ UNCHANGED <<stop, packets, packetsClosed, m_loops, lost>>
  BY DEF ReadPacket, Demux
<1>3. toPush = <<>> /\ Pushing(x) = <<>>
  <2>1. toPush = <<>>  BY <1>2 DEF Demuxing
  <2> QED  BY <2>1 DEF Pushing
<1>4. DOMAIN toPush' = {1} /\ toPush'[1].stream = y /\ toPush'[1].item = read[y] + 1  BY <1>2
<1>5. Pushing(x)' = IF x = y THEN <<read[y] + 1>> ELSE <<>>
  <2>1. \A i, j \in DOMAIN toPush' : toPush'[i].stream = toPush'[j].stream => i = j  BY <1>4
  <2>2. CASE x = y
    <3>1. {n \in DOMAIN toPush' : toPush'[n].stream = x} = {1}  BY <1>4, <2>2
    <3> QED  BY <1>4, <2>2, <3>1 DEF Pushing
  <2>3. CASE x # y  BY <1>4, <2>3 DEF Pushing
  <2> QED  BY <2>2, <2>3
<1>6. CASE x # y
  <2>1. read'[x] = read[x]  BY <1>2, <1>6 DEF Typed
  <2>2. Live' => Live  BY <1>2 DEF Live
  <2> QED  BY <1>1, <1>2, <1>3, <1>5, <1>6, <2>1, <2>2, StreamRests
<1>7. CASE x = y
  <2> DEFINE r == read[x]
             p == PassLength[x]
             old == p * m_loops
  <2>1. /\ r \in Nat /\ read'[x] = r + 1 /\ p \in Nat /\ m_loops \in Nat /\ PassLength' = PassLength
        /\ setup \in Setups
    BY <1>1, <1>2, <1>7, SetupIs, SetupKept, NumbersArePositive, SMTT(30) DEF Typed
  <2>2. old \in Nat /\ p * (m_loops + 1) \in Nat  BY <2>1
  <2>3. r < p * (m_loops + 1) /\ old <= r
    <3> DEFINE q == p * (m_loops + 1)
    <3>1. old <= r /\ r <= q  BY DEF Demuxing
    <3>2. r # q  BY <1>2, <1>7 DEF Exhausted
    <3>3. r \in Nat /\ q \in Nat  BY <2>1, <2>2
    <3> HIDE DEF q, r, old
    <3>4. r < q /\ old <= r  BY <3>1, <3>2, <3>3
    <3> QED  BY <3>4 DEF q
  <2>4. /\ OnTheWay(x) = Underway(x) /\ Underway(x) \in Seq(Nat)
        /\ OnTheWay(x)' = Underway(x) \o <<r + 1>>
        /\ ToDecode(x) = Fed(x) /\ Fed(x) \in Seq(Nat) /\ ToDecode(x)' = Fed(x) \o <<r + 1>>
    <3>1. Underway(x)' = Underway(x) /\ Fed(x)' = Fed(x)
      BY <1>1, <1>2 DEF Underway, Fed, InHand, Popped
    <3>2. OnTheWay(x)' = Underway(x)' \o Pushing(x)' /\ ToDecode(x)' = Fed(x)' \o Pushing(x)'
      BY DEF OnTheWay, ToDecode, Underway, Fed
    <3> QED  BY <1>3, <1>5, <1>7, <3>1, <3>2, WaysAre, EmptyEnd
  <2> HIDE DEF r, p, old
  <2>5. Line(x)'
    <3>1. Rising(Underway(x)) /\ Items(Underway(x)) \subseteq 1..r  BY <2>4 DEF Stream, Line, r
    <3>2. /\ Rising(OnTheWay(x)')
          /\ Items(OnTheWay(x)') = Items(Underway(x)) \union ({r + 1} \ {Marker})
      BY <2>1, <2>4, <3>1, AddedRising, SMTT(30)
    <3>3. 1..(r + 1) = 1..r \union {r + 1} /\ {r + 1} \ {Marker} = {r + 1}  BY <2>1 DEF Marker
    <3>4. Off(x) \subseteq 1..r  BY DEF Stream, Line, r
    <3>5. ~stop => 1..r = Items(Underway(x)) \union Off(x)  BY <2>4 DEF Stream, Line, r
    <3>6. r + 1 \notin dropped[x]  BY <2>1, <3>4 DEF Off
    <3>7. /\ dropped'[x] = dropped[x] /\ Off(x)' = Off(x) /\ stop' = stop
          /\ (lost[x] # {} => MayLose)' <=> (lost[x] # {} => MayLose)
      BY <1>1, <1>2, SetupKept DEF Off
    <3>8. Items(OnTheWay(x)') \subseteq 1..(r + 1)  BY <3>1, <3>2, <3>3
    <3>9. Off(x) \subseteq 1..(r + 1)  BY <3>3, <3>4
    <3>10. ~stop => 1..(r + 1) = Items(OnTheWay(x)') \union Off(x)  BY <3>2, <3>3, <3>5
    <3>11. Items(OnTheWay(x))' = Items(OnTheWay(x)') /\ Rising(OnTheWay(x))' = Rising(OnTheWay(x)')
      BY DEF Items, Rising
    <3>12. lost[x] # {} => MayLose  BY DEF Stream, Line
    <3> QED  BY <2>1, <3>2, <3>6, <3>7, <3>8, <3>9, <3>10, <3>12 DEF Line
  <2>6. Batches(x)'
    <3> DEFINE s == Fed(x)
    <3>1. Items(s) \subseteq 1..r
      <4>1. Items(Underway(x)) \subseteq 1..r  BY <2>4 DEF Stream, Line, r
      <4>2. Items(s) \subseteq Items(Underway(x))  BY FedIsUnderway
      <4> QED  BY <4>1, <4>2
    <3>2. Divided(s, p) /\ BehindMarkers(s, old) /\ AheadOfMarkers(s, old)
      BY <1>2, <2>4 DEF Stream, Batches, p, old
    <3>3. \A b \in Items(s) : b > old => (b - 1) \div p = ((r + 1) - 1) \div p
      <4> TAKE b \in Items(s)
      <4> HAVE b > old
      <4>1. b \in Nat /\ b <= r /\ b <= p * (m_loops + 1)  BY <2>1, <2>2, <2>3, <3>1
      <4>2. (b - 1) \div p = m_loops  BY <2>1, <4>1, PassOf DEF old
      <4>3. ((r + 1) - 1) \div p = m_loops
        <5>1. r + 1 \in Nat /\ p * m_loops < r + 1 /\ r + 1 <= p * (m_loops + 1)
          BY <2>1, <2>2, <2>3 DEF old
        <5> QED  BY <2>1, <5>1, PassOf
      <4> QED  BY <4>2, <4>3
    <3>4. r + 1 \in Nat /\ r + 1 # Marker /\ r + 1 > old  BY <2>1, <2>2, <2>3 DEF Marker
    <3>5. /\ Divided(s \o <<r + 1>>, p) /\ BehindMarkers(s \o <<r + 1>>, old)
          /\ AheadOfMarkers(s \o <<r + 1>>, old)
      BY <2>2, <2>4, <3>2, <3>3, <3>4, AddedDivided
    <3>6. PassLength'[x] * m_loops' = old /\ PassLength'[x] = p  BY <1>2, <2>1 DEF old, p
    <3> QED  BY <2>4, <3>5, <3>6 DEF Batches
  <2>7. Len(packets'[x]) <= PacketCapacity  BY <1>2 DEF Stream, Room
  <2> QED  BY <1>1, <1>2, <2>5, <2>6, <2>7, DemuxMoves
<1> QED  BY <1>6, <1>7
-----------------------------------------------------------------------------
\* The line of a stream after a step that takes nothing from it.
LEMMA LineStays ==
  ASSUME NEW x \in Streams, Line(x), OnTheWay(x)' = OnTheWay(x), setup' = setup, stop => stop',
         m_loops' = m_loops, read'[x] = read[x], dropped'[x] = dropped[x],
         skipped'[x] = skipped[x], lost'[x] = lost[x]
  PROVE  Line(x)'
BY SetupKept DEF Line, Off, Exhausted

\* A step may take one item: a marker, a frame that is shed or given up, or anything once
\* there is a stop.
LEMMA LineLoses ==
  ASSUME NEW x \in Streams, Line(x), setup' = setup, stop => stop',
         m_loops' = m_loops, read'[x] = read[x],
         NEW e \in Nat, Removed(OnTheWay(x)', OnTheWay(x), e),
         \/ /\ stop' \/ e = Marker
            /\ dropped'[x] = dropped[x] /\ skipped'[x] = skipped[x] /\ lost'[x] = lost[x]
         \/ /\ e # Marker /\ skipped'[x] = skipped[x] \union {e}
            /\ dropped'[x] = dropped[x] /\ lost'[x] = lost[x]
         \/ /\ e # Marker /\ dropped'[x] = dropped[x] \union {e} /\ (e = read[x] => ~Exhausted(x))
            /\ skipped'[x] = skipped[x] /\ lost'[x] = lost[x]
         \/ /\ e # Marker /\ lost'[x] = lost[x] \union {e} /\ MayLose
            /\ dropped'[x] = dropped[x] /\ skipped'[x] = skipped[x]
  PROVE  Line(x)'
<1>1. Rising(OnTheWay(x)) /\ Items(OnTheWay(x)) \subseteq 1..read[x]  BY DEF Line
<1>2. Rising(OnTheWay(x)') /\ Items(OnTheWay(x)) = Items(OnTheWay(x)') \union ({e} \ {Marker})
  BY <1>1, RemovedRising
<1>3. Exhausted(x)' <=> Exhausted(x)  BY SetupKept DEF Exhausted
<1>4. Items(OnTheWay(x)') \subseteq 1..read[x]  BY <1>1, <1>2
<1>5. Off(x)' \subseteq 1..read[x]  BY <1>1, <1>2 DEF Line, Off
<1>6. ~stop' => 1..read[x] = Items(OnTheWay(x)') \union Off(x)'  BY <1>2 DEF Line, Off
<1>7. read[x] \in dropped'[x] => ~Exhausted(x)  BY DEF Line
<1>8. lost'[x] # {} => MayLose'  BY SetupKept DEF Line
<1> QED  BY <1>2, <1>3, <1>4, <1>5, <1>6, <1>7, <1>8 DEF Line

\* Passes stay divided when nothing moves past a marker,
LEMMA BatchesStay ==
  ASSUME NEW x \in Streams, Batches(x), ToDecode(x)' = ToDecode(x), setup' = setup,
         m_loops' = m_loops, Live' => Live
  PROVE  Batches(x)'
BY SetupKept DEF Batches, Live

\* and when a frame is taken, or the marker in front.
LEMMA BatchesLose ==
  ASSUME NEW x \in Streams, Batches(x), setup' = setup, m_loops' = m_loops, Live' => Live,
         NEW A \in Seq(Nat), NEW B \in Seq(Nat), NEW e \in Nat, e # Marker \/ A = <<>>,
         ToDecode(x) = A \o (<<e>> \o B), ToDecode(x)' = A \o B
  PROVE  Batches(x)'
<1> DEFINE p == PassLength[x]
           old == PassLength[x] * m_loops
           s == A \o (<<e>> \o B)
           w == A \o B
<1>1. PassLength'[x] * m_loops' = old /\ PassLength'[x] = p  BY SetupKept
<1>2. Divided(s, p) /\ BehindMarkers(s, old) /\ (Live => AheadOfMarkers(s, old))
  BY DEF Batches, Live
<1> HIDE DEF p, old
<1>3. Divided(w, p) /\ BehindMarkers(w, old) /\ (AheadOfMarkers(s, old) => AheadOfMarkers(w, old))
  BY <1>2, RemovedDivided
<1>4. Live' => AheadOfMarkers(w, old)  BY <1>2, <1>3
<1> HIDE DEF s, w
<1>5. ToDecode(x)' = w  BY DEF w
<1> QED  BY <1>1, <1>3, <1>4, <1>5 DEF Batches, Live
-----------------------------------------------------------------------------
\* A restart puts a marker behind all that was read.
LEMMA RestartKeeps ==
  ASSUME NEW x \in Streams, Stream(x), Typed, Demuxing, Demux(EndOfPass), m_loops' = m_loops + 1,
         toPush' = Markers, demux' = "push", ~stop
  PROVE  Stream(x)'
<1> DEFINE r == read[x]
           p == PassLength[x]
           last == p * (m_loops + 1)
<1>1. setup' = setup /\ UNCHANGED <<frames, framesClosed, decoder, held, kept, flushing, presenter,
                                    inHand, sent, dropped, skipped>>
  BY DEF Demux, decodeVars, presentVars, mainVars
<1>2. demux = "atEnd" /\ UNCHANGED <<stop, packets, packetsClosed, read, lost>>
  BY DEF EndOfPass, Demux
<1>3. toPush = <<>> /\ Pushing(x) = <<>> /\ r = last
  <2>1. toPush = <<>> /\ r = last  BY <1>2 DEF Demuxing, Exhausted
  <2> QED  BY <2>1 DEF Pushing
<1>4. Pushing(x)' = <<Marker>>
  <2>1. setup \in Setups  BY DEF Typed
  <2>2. PICK i \in DOMAIN Markers : Markers[i].stream = x  BY <2>1, MarkersAre
  <2>3. PushingOf(Markers, x) = <<Markers[i].item>>  BY <2>1, <2>2, MarkersAre, PushingIs
  <2>4. Markers[i].item = Marker
    <3>1. Markers \in Seq([stream : Streams, item : {Marker}])  BY <2>1, MarkersAre
    <3>2. i \in 1..Len(Markers)  BY <2>2, <3>1, LenProperties
    <3>3. Markers[i] \in [stream : Streams, item : {Marker}]  BY <3>1, <3>2, ElementOfSeq
    <3> QED  BY <3>3
  <2>5. Pushing(x)' = PushingOf(toPush', x)  BY DEF Pushing, PushingOf
  <2> QED  BY <2>3, <2>4, <2>5
<1>5. /\ OnTheWay(x) = Underway(x) /\ Underway(x) \in Seq(Nat)
      /\ OnTheWay(x)' = Underway(x) \o <<Marker>>
      /\ ToDecode(x) = Fed(x) /\ Fed(x) \in Seq(Nat) /\ ToDecode(x)' = Fed(x) \o <<Marker>>
  <2>1. Underway(x)' = Underway(x) /\ Fed(x)' = Fed(x)
    BY <1>1, <1>2 DEF Underway, Fed, InHand, Popped
  <2>2. OnTheWay(x)' = Underway(x)' \o Pushing(x)' /\ ToDecode(x)' = Fed(x)' \o Pushing(x)'
    BY DEF OnTheWay, ToDecode, Underway, Fed
  <2> QED  BY <1>3, <1>4, <2>1, <2>2, WaysAre, EmptyEnd
<1>6. /\ p \in Nat /\ m_loops \in Nat /\ last \in Nat /\ PassLength'[x] = p
      /\ PassLength'[x] * m_loops' = last
  <2>1. p \in Nat /\ m_loops \in Nat /\ PassLength'[x] = p  BY <1>1, SetupIs, SetupKept DEF Typed
  <2> QED  BY <2>1
<1> HIDE DEF r, p, last
<1>7. Line(x)'
  <2>1. Rising(Underway(x)) /\ Items(Underway(x)) \subseteq 1..r  BY <1>5 DEF Line, Stream, r
  <2>2. Rising(OnTheWay(x)') /\ Items(OnTheWay(x)') = Items(Underway(x)) \union ({Marker} \ {Marker})
    BY <1>5, <2>1, AddedRising DEF Marker
  <2>3. Items(OnTheWay(x)') = Items(OnTheWay(x))  BY <1>5, <2>2
  <2>4. r \notin dropped[x]  BY <1>3 DEF Line, Stream, Exhausted, r, last, p
  <2>5. /\ read'[x] = r /\ dropped'[x] = dropped[x] /\ Off(x)' = Off(x) /\ lost'[x] = lost[x]
        /\ stop' = stop /\ MayLose' = MayLose
    BY <1>1, <1>2, SetupKept DEF r, Off
  <2> QED  BY <2>2, <2>3, <2>4, <2>5 DEF Line, Stream, r
<1>8. Batches(x)'
  <2> DEFINE s == Fed(x)
  <2>1. \A b \in Items(s) : b <= last
    <3>1. Items(s) \subseteq Items(Underway(x))  BY FedIsUnderway
    <3>2. Items(Underway(x)) \subseteq 1..last  BY <1>3, <1>5 DEF Stream, Line, r
    <3> QED  BY <1>6, <3>1, <3>2
  <2>2. Divided(s, p)  BY <1>5 DEF Stream, Batches, p
  <2>3. /\ Divided(s \o <<Marker>>, p) /\ BehindMarkers(s \o <<Marker>>, last)
        /\ AheadOfMarkers(s \o <<Marker>>, last)
    BY <1>5, <1>6, <2>1, <2>2, MarkedDivided
  <2> QED  BY <1>5, <1>6, <2>3 DEF Batches
<1>9. Len(packets'[x]) <= PacketCapacity  BY <1>2 DEF Stream, Room
<1> QED  BY <1>1, <1>2, <1>7, <1>8, <1>9, DemuxMoves

\* A push moves an item into the queue, or loses it because of a stop.
LEMMA PushKeeps ==
  ASSUME NEW x \in Streams, Stream(x), Typed, Demuxing, Demux(PushPacket)
  PROVE  Stream(x)'
<1> DEFINE T == [stream : Streams, item : Numbers \union {Marker}]
           y == toPush[1].stream
           e == toPush[1].item
<1>1. setup' = setup /\ UNCHANGED <<frames, framesClosed, decoder, held, kept, flushing, presenter,
                                    inHand, sent, dropped, skipped>>
  BY DEF Demux, decodeVars, presentVars, mainVars
<1>2. demux = "push" /\ toPush # <<>> /\ UNCHANGED <<stop, packetsClosed, read, m_loops, lost>>
  BY DEF Demux, PushPacket, Demuxing
<1>3. /\ toPush \in Seq(T)
      /\ \A i, j \in DOMAIN toPush : toPush[i].stream = toPush[j].stream => i = j
  BY DEF Typed, Demuxing
<1>4. /\ Pushing(x) = PushingOf(toPush, x) /\ Pushing(x)' = PushingOf(toPush', x)
  BY DEF Pushing, PushingOf
<1>5. Live /\ ~packetsClosed[x]  BY <1>2 DEF Live, Demuxing
<1>6. /\ Underway(x) \in Seq(Nat) /\ Fed(x) \in Seq(Nat)
      /\ OnTheWay(x) = Underway(x) \o Pushing(x) /\ ToDecode(x) = Fed(x) \o Pushing(x)
      /\ OnTheWay(x)' = Underway(x)' \o Pushing(x)' /\ ToDecode(x)' = Fed(x)' \o Pushing(x)'
  BY WaysAre DEF OnTheWay, ToDecode, Underway, Fed
<1>7. y \in Streams /\ e \in Nat
  <2>1. 1 \in 1..Len(toPush)  BY <1>2, <1>3, EmptySeq, LenProperties
  <2>2. toPush[1] \in T  BY <1>3, <2>1, ElementOfSeq
  <2>3. setup \in Setups  BY DEF Typed
  <2>4. Numbers \union {Marker} \subseteq Nat  BY <2>3, NumbersArePositive DEF Marker
  <2> QED  BY <2>2, <2>4
<1> HIDE DEF T
<1>8. CASE /\ Len(packets[y]) < PacketCapacity /\ toPush' = Tail(toPush)
           /\ packets' = [packets EXCEPT ![y] = Append(@, e)]
  <2>1. CASE x # y
    <3>1. packets'[x] = packets[x]  BY <1>8, <2>1 DEF Typed
    <3>2. Pushing(x)' = Pushing(x)  BY <1>2, <1>3, <1>4, <1>8, <2>1, PushedOff
    <3> QED  BY <1>1, <1>2, <1>5, <3>1, <3>2, StreamRests
  <2>2. CASE x = y
    <3>1. packets'[x] = Append(packets[x], e)
      <4>1. packets \in [Streams -> Seq(Numbers \union {Marker})]  BY DEF Typed
      <4> HIDE DEF y, e
      <4> QED  BY <1>8, <2>2, <4>1
    <3>2. Pushing(x) = <<e>> /\ Pushing(x)' = <<>>  BY <1>2, <1>3, <1>4, <1>8, <2>2, PushedOff
    <3> HIDE DEF y, e
    <3>3. Head(Pushing(x)) = e /\ Tail(Pushing(x)) = <<>> /\ Pushing(x) \in Seq(Nat) /\ Pushing(x) # <<>>
      BY <1>7, <3>2
    <3> DEFINE P == sent[x] \o InHand(x) \o frames[x] \o kept[x] \o held[x]
               Q == held[x] \o Popped(x)
    <3>4. P \in Seq(Nat) /\ Q \in Seq(Nat) /\ packets[x] \in Seq(Nat)
      <4>1. sent[x] \o InHand(x) \in Seq(Nat)  BY PartsAre, ConcatInSeq
      <4>2. sent[x] \o InHand(x) \o frames[x] \in Seq(Nat)  BY <4>1, PartsAre, ConcatInSeq
      <4>3. sent[x] \o InHand(x) \o frames[x] \o kept[x] \in Seq(Nat)  BY <4>2, PartsAre, ConcatInSeq
      <4> QED  BY <4>3, PartsAre, ConcatInSeq
    <3>5. /\ OnTheWay(x) = (P \o packets[x]) \o Pushing(x) /\ ToDecode(x) = (Q \o packets[x]) \o Pushing(x)
          /\ OnTheWay(x)' = (P \o packets'[x]) \o Pushing(x)'
          /\ ToDecode(x)' = (Q \o packets'[x]) \o Pushing(x)'
      BY <1>1 DEF OnTheWay, ToDecode, InHand, Popped
    <3> HIDE DEF P, Q
    <3>6. OnTheWay(x)' = OnTheWay(x) /\ ToDecode(x)' = ToDecode(x)
      <4>1. packets'[x] = Append(packets[x], Head(Pushing(x))) /\ Pushing(x)' = Tail(Pushing(x))
        BY <3>1, <3>2, <3>3
      <4> DEFINE B == packets[x]
                 C == Pushing(x)
                 D == packets'[x]
                 E == Pushing(x)'
      <4>2. D = Append(B, Head(C)) /\ E = Tail(C) /\ C # <<>> /\ B \in Seq(Nat) /\ C \in Seq(Nat)
        BY <3>3, <3>4, <4>1
      <4>3. /\ OnTheWay(x) = Way(P, B, C) /\ OnTheWay(x)' = Way(P, D, E)
            /\ ToDecode(x) = Way(Q, B, C) /\ ToDecode(x)' = Way(Q, D, E)
        BY <3>5 DEF Way
      <4> HIDE DEF B, C, D, E
      <4>4. Way(P, Append(B, Head(C)), Tail(C)) = Way(P, B, C)  BY <3>4, <4>2, Shift
      <4>5. Way(Q, Append(B, Head(C)), Tail(C)) = Way(Q, B, C)  BY <3>4, <4>2, Shift
      <4> QED  BY <4>2, <4>3, <4>4, <4>5
    <3>7. Line(x)' /\ Batches(x)'
      BY <1>1, <1>2, <1>5, <3>6, LineStays, BatchesStay DEF Stream
    <3>8. Len(packets'[x]) <= PacketCapacity
      <4>1. Len(packets'[x]) = Len(packets[x]) + 1 /\ Len(packets[x]) \in Nat
        BY <1>7, <3>1, <3>4, SeqEnds
      <4>2. PacketCapacity \in Nat  BY SetupIs DEF Typed
      <4> QED  BY <1>8, <2>2, <4>1, <4>2
    <3> QED  BY <1>1, <1>2, <1>5, <3>7, <3>8, DemuxMoves
  <2> QED  BY <2>1, <2>2
<1>9. CASE stop /\ toPush' = <<>> /\ UNCHANGED packets /\ demux' = "closeVideo"
  <2>1. Pushing(x)' = <<>>  BY <1>9 DEF Pushing
  <2>2. CASE Pushing(x) = <<>>  BY <1>1, <1>2, <1>5, <1>9, <2>1, <2>2, StreamRests
  <2>3. CASE Pushing(x) # <<>>
    <3>1. PICK a \in Nat : Pushing(x) = <<a>>  BY <2>3, PushingAre
    <3>2. <<a>> \in Seq(Nat) /\ Head(<<a>>) = a /\ Tail(<<a>>) = <<>> /\ <<a>> # <<>>  OBVIOUS
    <3>3. Underway(x)' = Underway(x) /\ Fed(x)' = Fed(x)
      BY <1>1, <1>9 DEF Underway, Fed, InHand, Popped
    <3>4. Removed(OnTheWay(x)', OnTheWay(x), a)  BY <1>6, <2>1, <3>1, <3>2, <3>3, RemoveHead
    <3>5. Line(x)'  BY <1>1, <1>2, <1>9, <3>4, LineLoses DEF Stream
    <3>6. Batches(x)'
      <4> DEFINE s == Fed(x)
                 p == PassLength[x]
                 old == p * m_loops
      <4>1. ToDecode(x)' = s /\ ToDecode(x) = s \o <<a>>  BY <1>6, <2>1, <3>1, <3>3, EmptyEnd
      <4>2. Divided(s \o <<a>>, p) /\ BehindMarkers(s \o <<a>>, old)
        BY <4>1 DEF Stream, Batches
      <4>3. Divided(s, p) /\ BehindMarkers(s, old)
        <5> HIDE DEF p, old
        <5> QED  BY <1>6, <4>2, CutDivided
      <4>4. PassLength'[x] * m_loops' = old /\ PassLength'[x] = p  BY <1>1, <1>2, SetupKept
      <4>5. ~(demux' \in {"top", "reading", "atEnd", "push"})  BY <1>9
      <4> HIDE DEF p, old, s
      <4> QED  BY <4>1, <4>3, <4>4, <4>5 DEF Batches
    <3>7. Len(packets'[x]) <= PacketCapacity  BY <1>9 DEF Stream, Room
    <3> QED  BY <1>1, <1>2, <1>5, <3>5, <3>6, <3>7, DemuxMoves
  <2> QED  BY <2>2, <2>3
<1> QED  BY <1>8, <1>9 DEF Demux, PushPacket

\* A read that breaks off gives up the rest of the pass, and moves no packet.
LEMMA BreakKeeps ==
  ASSUME NEW x \in Streams, Stream(x), Typed, Demuxing, Demux(ReadBreaksOff)
  PROVE  Stream(x)'
<1> DEFINE r == read[x]
           q == PassLength[x] * (m_loops + 1)
<1>1. setup' = setup /\ UNCHANGED <<frames, framesClosed, decoder, held, kept, flushing, presenter,
                                    inHand, sent, dropped, skipped>>
  BY DEF Demux, decodeVars, presentVars, mainVars
<1>2. /\ demux = "reading" /\ demux' = "atEnd" /\ MayLose
      /\ UNCHANGED <<stop, packets, packetsClosed, toPush, m_loops>>
      /\ read' = [y \in Streams |-> PassLength[y] * (m_loops + 1)]
      /\ lost' = [y \in Streams |-> lost[y] \union (read[y] + 1)..read'[y]]
  BY DEF Demux, ReadBreaksOff
<1>3. /\ r \in Nat /\ q \in Nat /\ r <= q /\ read'[x] = q /\ lost'[x] = lost[x] \union (r + 1)..q
      /\ PassLength' = PassLength /\ MayLose'
  <2>1. PassLength[x] \in Nat /\ m_loops \in Nat /\ setup \in Setups  BY SetupIs DEF Typed
  <2>2. r \in Nat  BY <2>1, TypesAt, NumbersArePositive
  <2>3. r <= q  BY DEF Demuxing
  <2>4. MayLose' /\ PassLength' = PassLength  BY <1>1, <1>2, SetupKept
  <2> QED  BY <1>2, <2>1, <2>2, <2>3, <2>4
<1>4. OnTheWay(x)' = OnTheWay(x) /\ ToDecode(x)' = ToDecode(x)
  BY <1>1, <1>2 DEF OnTheWay, ToDecode, Popped, Pushing, InHand
<1>5. q \notin dropped[x]
  <2>1. CASE r = q
    <3>1. Exhausted(x)  BY <2>1 DEF Exhausted
    <3> QED  BY <2>1, <3>1 DEF Stream, Line
  <2>2. CASE r < q
    <3>1. dropped[x] \subseteq 1..r  BY DEF Stream, Line, Off
    <3> QED  BY <1>3, <2>2, <3>1
  <2> QED  BY <1>3, <2>1, <2>2
<1> HIDE DEF q
<1>6. Line(x)'
  <2>1. /\ Rising(OnTheWay(x)) /\ Items(OnTheWay(x)) \subseteq 1..r /\ Off(x) \subseteq 1..r
        /\ ~stop => 1..r = Items(OnTheWay(x)) \union Off(x)
    BY DEF Stream, Line
  <2> HIDE DEF r
  <2>2. 1..q = 1..r \union (r + 1)..q  BY <1>3
  <2>3. Off(x)' = Off(x) \union (r + 1)..q  BY <1>1, <1>3 DEF Off
  <2>4. Items(OnTheWay(x)) \subseteq 1..q /\ Off(x)' \subseteq 1..q  BY <2>1, <2>2, <2>3
  <2>5. ~stop => 1..q = Items(OnTheWay(x)) \union Off(x)'  BY <2>1, <2>2, <2>3
  <2>6. dropped'[x] = dropped[x] /\ stop' = stop  BY <1>1, <1>2
  <2> QED  BY <1>3, <1>4, <1>5, <2>1, <2>4, <2>5, <2>6 DEF Line
<1>7. Batches(x)'
  <2>1. Live' => Live  BY <1>2 DEF Live
  <2> QED  BY <1>1, <1>2, <1>4, <2>1, BatchesStay DEF Stream
<1>8. Len(packets'[x]) <= PacketCapacity  BY <1>2 DEF Stream, Room
<1> QED  BY <1>1, <1>2, <1>6, <1>7, <1>8, DemuxMoves

\* The demuxer keeps what is claimed of a stream.
LEMMA DemuxKeeps ==
  ASSUME NEW x \in Streams, Stream(x), Typed, Demuxing,
         Demux(DemuxWorks) \/ Demux(ReadPacket) \/ Demux(ReadBreaksOff) \/ Demux(ReadThrows)
  PROVE  Stream(x)'
<1>1. CASE Demux(PushPacket)  BY <1>1, PushKeeps
<1>2. CASE Demux(ReadPacket)  BY <1>2, ReadKeeps
<1>3. CASE Demux(EndOfPass)
  <2>1. CASE m_loops' = m_loops + 1 /\ toPush' = Markers /\ demux' = "push" /\ ~stop
    BY <1>3, <2>1, RestartKeeps
  <2>2. CASE m_loops' = m_loops /\ toPush' = toPush
    <3>1. Demux(EndOfPass /\ m_loops' = m_loops /\ toPush' = toPush)  BY <1>3, <2>2 DEF Demux
    <3>2. Demux(DemuxTop \/ ReadNothing \/ DemuxEnds \/ ReadThrows
               \/ ClosePackets("video", "closeVideo", "closeAudio")
               \/ ClosePackets("audio", "closeAudio", "ending")
               \/ (EndOfPass /\ m_loops' = m_loops /\ toPush' = toPush))
      BY <3>1 DEF Demux
    <3> QED  BY <3>2, DemuxPauses
  <2> QED  BY <1>3, <2>1, <2>2 DEF Demux, EndOfPass
<1>4. CASE Demux(DemuxTop \/ ReadNothing \/ DemuxEnds \/ ReadThrows
                 \/ ClosePackets("video", "closeVideo", "closeAudio")
                 \/ ClosePackets("audio", "closeAudio", "ending"))
  <2>1. Demux(DemuxTop \/ ReadNothing \/ DemuxEnds \/ ReadThrows
               \/ ClosePackets("video", "closeVideo", "closeAudio")
               \/ ClosePackets("audio", "closeAudio", "ending")
               \/ (EndOfPass /\ m_loops' = m_loops /\ toPush' = toPush))
    BY <1>4 DEF Demux
  <2> QED  BY <2>1, DemuxPauses
<1>5. CASE Demux(ReadBreaksOff)  BY <1>5, BreakKeeps
<1> QED  BY <1>1, <1>2, <1>3, <1>4, <1>5 DEF Demux, DemuxWorks
-----------------------------------------------------------------------------
\* The way of a stream up to what a presenter has in hand.
UpToHand(x) == sent[x] \o InHand(x)
\* Up to the frames queue,
UpToFrames(x) == UpToHand(x) \o frames[x]
\* the processor,
UpToKept(x) == UpToFrames(x) \o kept[x]
\* and the decoder.
UpToHeld(x) == UpToKept(x) \o held[x]

\* The way of a stream in these parts.
LEMMA WayParts ==
  ASSUME Typed, NEW x \in Streams
  PROVE  /\ UpToHand(x) \in Seq(Nat) /\ UpToFrames(x) \in Seq(Nat) /\ UpToKept(x) \in Seq(Nat)
         /\ UpToHeld(x) \in Seq(Nat)
         /\ packets[x] \in Seq(Nat) /\ frames[x] \in Seq(Nat) /\ held[x] \in Seq(Nat)
         /\ kept[x] \in Seq(Nat) /\ sent[x] \in Seq(Nat) /\ InHand(x) \in Seq(Nat)
         /\ Popped(x) \in Seq(Nat) /\ Pushing(x) \in Seq(Nat)
         /\ OnTheWay(x) = ((UpToHeld(x) \o packets[x]) \o Pushing(x))
         /\ ToDecode(x) = (((held[x] \o Popped(x)) \o packets[x]) \o Pushing(x))
<1>1. UpToHand(x) \in Seq(Nat)  BY PartsAre, ConcatInSeq DEF UpToHand
<1>2. UpToFrames(x) \in Seq(Nat)  BY <1>1, PartsAre, ConcatInSeq DEF UpToFrames
<1>3. UpToKept(x) \in Seq(Nat)  BY <1>2, PartsAre, ConcatInSeq DEF UpToKept
<1>4. UpToHeld(x) \in Seq(Nat)  BY <1>3, PartsAre, ConcatInSeq DEF UpToHeld
<1>5. Pushing(x) \in Seq(Nat)
  <2>1. CASE Pushing(x) = <<>>  BY <2>1
  <2>2. CASE \E e \in Nat : Pushing(x) = <<e>>  BY <2>2
  <2> QED  BY <2>1, <2>2, PushingAre
<1> QED  BY <1>1, <1>2, <1>3, <1>4, <1>5, PartsAre
         DEF OnTheWay, ToDecode, UpToHeld, UpToKept, UpToFrames, UpToHand

\* In a line, what is in front is smaller than what is behind.
LEMMA PartsOfRising ==
  ASSUME NEW s \in Seq(Nat), NEW t \in Seq(Nat), Rising(s \o t)
  PROVE  Rising(s) /\ Rising(t) /\ \A a \in Items(s), b \in Items(t) : a < b
<1> DEFINE u == s \o t
<1>1. /\ Len(s) \in Nat /\ Len(t) \in Nat
      /\ DOMAIN s = 1..Len(s) /\ DOMAIN t = 1..Len(t) /\ DOMAIN u = 1..Len(s) + Len(t)
      /\ \A i \in 1..Len(s) : u[i] = s[i]
      /\ \A i \in 1..Len(t) : u[Len(s) + i] = t[i]
  BY Concat
<1>2. Rising(u)  OBVIOUS
<1> HIDE DEF u
<1>3. Rising(s)
  <2> SUFFICES ASSUME NEW m \in DOMAIN s, NEW n \in DOMAIN s, m < n, s[n] # Marker
               PROVE  s[m] < s[n]
    BY DEF Rising
  <2>1. m \in DOMAIN u /\ n \in DOMAIN u /\ u[m] = s[m] /\ u[n] = s[n]  BY <1>1
  <2> QED  BY <1>2, <2>1 DEF Rising
<1>4. ASSUME NEW a \in Items(s), NEW b \in Items(t) PROVE a < b
  <2>1. PICK m \in DOMAIN s : s[m] = a  BY DEF Items
  <2>2. PICK n \in DOMAIN t : t[n] = b /\ b # Marker  BY DEF Items
  <2>3. /\ m \in DOMAIN u /\ Len(s) + n \in DOMAIN u /\ m < Len(s) + n
        /\ u[m] = a /\ u[Len(s) + n] = b
    BY <1>1, <2>1, <2>2
  <2> QED  BY <1>2, <2>2, <2>3 DEF Rising
<1>5. Rising(t)
  <2> SUFFICES ASSUME NEW m \in DOMAIN t, NEW n \in DOMAIN t, m < n, t[n] # Marker
               PROVE  t[m] < t[n]
    BY DEF Rising
  <2>1. /\ Len(s) + m \in DOMAIN u /\ Len(s) + n \in DOMAIN u /\ Len(s) + m < Len(s) + n
        /\ u[Len(s) + m] = t[m] /\ u[Len(s) + n] = t[n]
    BY <1>1
  <2> QED  BY <1>2, <2>1 DEF Rising
<1> QED  BY <1>3, <1>4, <1>5

\* Two lines of which the first is in front are one.
LEMMA JoinRising ==
  ASSUME NEW s \in Seq(Nat), NEW t \in Seq(Nat), Rising(s), Rising(t),
         \A a \in Items(s), b \in Items(t) : a < b
  PROVE  Rising(s \o t)
<1> DEFINE u == s \o t
<1>1. /\ Len(s) \in Nat /\ Len(t) \in Nat
      /\ DOMAIN s = 1..Len(s) /\ DOMAIN t = 1..Len(t) /\ DOMAIN u = 1..Len(s) + Len(t)
      /\ \A i \in 1..Len(s) : u[i] = s[i]
      /\ \A i \in 1..Len(t) : u[Len(s) + i] = t[i] /\ t[i] \in Nat
  BY Concat, ElementOfSeq
<1> HIDE DEF u
<1>2. SUFFICES ASSUME NEW m \in DOMAIN u, NEW n \in DOMAIN u, m < n, u[n] # Marker
               PROVE  u[m] < u[n]
  BY DEF Rising, u
<1>3. CASE n <= Len(s)
  <2>1. m \in DOMAIN s /\ n \in DOMAIN s /\ u[m] = s[m] /\ u[n] = s[n]  BY <1>1, <1>2, <1>3
  <2> QED  BY <1>2, <2>1 DEF Rising
<1>4. CASE n > Len(s)
  <2> DEFINE j == n - Len(s)
  <2>1. j \in DOMAIN t /\ u[n] = t[j] /\ t[j] \in Nat
    <3>1. j \in 1..Len(t) /\ Len(s) + j = n  BY <1>1, <1>2, <1>4
    <3> HIDE DEF j
    <3> QED  BY <1>1, <3>1
  <2>2. CASE m > Len(s)
    <3> DEFINE i == m - Len(s)
    <3>1. i \in 1..Len(t) /\ Len(s) + i = m /\ i < j  BY <1>1, <1>2, <2>2
    <3> HIDE DEF i, j
    <3>2. u[m] = t[i] /\ i \in DOMAIN t  BY <1>1, <3>1
    <3> QED  BY <1>2, <2>1, <3>1, <3>2 DEF Rising
  <2>3. CASE m <= Len(s)
    <3> HIDE DEF j
    <3>1. m \in DOMAIN s /\ u[m] = s[m]  BY <1>1, <1>2, <2>3
    <3>2. t[j] \in Items(t)  BY <1>2, <2>1 DEF Items
    <3>3. CASE s[m] = Marker  BY <1>2, <2>1, <3>1, <3>3 DEF Marker
    <3>4. CASE s[m] # Marker
      <4>1. s[m] \in Items(s)  BY <3>1, <3>4 DEF Items
      <4> QED  BY <2>1, <3>1, <3>2, <4>1
    <3> QED  BY <3>3, <3>4
  <2> QED  BY <1>1, <1>2, <2>2, <2>3
<1> QED  BY <1>1, <1>2, <1>3, <1>4

\* A line without a piece of it is still one.
LEMMA LineLosesMany ==
  ASSUME NEW x \in Streams, Line(x), setup' = setup, stop => stop',
         m_loops' = m_loops, read'[x] = read[x],
         NEW A \in Seq(Nat), NEW B \in Seq(Nat), NEW C \in Seq(Nat),
         OnTheWay(x) = (A \o B) \o C, OnTheWay(x)' = A \o C,
         lost'[x] = lost[x] \union Items(B), MayLose,
         dropped'[x] = dropped[x], skipped'[x] = skipped[x]
  PROVE  Line(x)'
<1>1. A \o B \in Seq(Nat)  BY ConcatInSeq
<1>2. Items(OnTheWay(x)) = Items(A) \union Items(B) \union Items(C)  BY <1>1, ItemsConcat
<1>3. Items(OnTheWay(x)') = Items(A) \union Items(C)  BY ItemsConcat
<1>4. Rising(OnTheWay(x)')
  <2>1. Rising((A \o B) \o C)  BY DEF Line
  <2>2. /\ Rising(A \o B) /\ Rising(C)
        /\ \A a \in Items(A \o B), b \in Items(C) : a < b
    BY <1>1, <2>1, PartsOfRising
  <2>3. Rising(A) /\ Items(A) \subseteq Items(A \o B)  BY <2>2, PartsOfRising, ItemsConcat
  <2>4. \A a \in Items(A), b \in Items(C) : a < b  BY <2>2, <2>3
  <2>5. Rising(A \o C)  BY <2>2, <2>3, <2>4, JoinRising
  <2> QED  BY <2>5
<1>5. Exhausted(x)' <=> Exhausted(x)  BY SetupKept DEF Exhausted
<1>6. Items(OnTheWay(x)') \subseteq 1..read[x]  BY <1>2, <1>3 DEF Line
<1>7. Off(x)' \subseteq 1..read[x]  BY <1>2 DEF Line, Off
<1>8. ~stop' => 1..read[x] = Items(OnTheWay(x)') \union Off(x)'  BY <1>2, <1>3 DEF Line, Off
<1>9. read[x] \in dropped'[x] => ~Exhausted(x)  BY DEF Line
<1>10. MayLose'  BY SetupKept
<1> QED  BY <1>4, <1>5, <1>6, <1>7, <1>8, <1>9, <1>10 DEF Line

\* Without a piece in front, passes are still divided.
LEMMA PieceDivided ==
  ASSUME NEW B \in Seq(Nat), NEW w \in Seq(Nat), NEW p, NEW old,
         Divided(B \o w, p), BehindMarkers(B \o w, old)
  PROVE  /\ Divided(w, p) /\ BehindMarkers(w, old)
         /\ AheadOfMarkers(B \o w, old) => AheadOfMarkers(w, old)
<1> DEFINE s == B \o w
<1>3. /\ Len(B) \in Nat /\ Len(w) \in Nat
      /\ DOMAIN w = 1..Len(w) /\ DOMAIN s = 1..Len(B) + Len(w)
      /\ \A i \in 1..Len(w) : s[Len(B) + i] = w[i]
  BY Concat
<1>10. Divided(s, p) /\ BehindMarkers(s, old)  OBVIOUS
<1> HIDE DEF s
<1>4. \A i \in DOMAIN w : Len(B) + i \in DOMAIN s /\ s[Len(B) + i] = w[i]  BY <1>3
<1>5. \A k \in DOMAIN s : k > Len(B) => k - Len(B) \in DOMAIN w /\ w[k - Len(B)] = s[k]
  <2> TAKE k \in DOMAIN s
  <2> HAVE k > Len(B)
  <2>1. k - Len(B) \in 1..Len(w) /\ Len(B) + (k - Len(B)) = k  BY <1>3
  <2> QED  BY <1>3, <2>1
<1>6. Divided(w, p)
  <2> SUFFICES ASSUME NEW m \in DOMAIN w, NEW n \in DOMAIN w, m < n, w[m] # Marker, w[n] # Marker,
                      \A k \in m..n : w[k] # Marker
               PROVE  (w[m] - 1) \div p = (w[n] - 1) \div p
    BY DEF Divided
  <2>1. /\ Len(B) + m \in DOMAIN s /\ Len(B) + n \in DOMAIN s /\ Len(B) + m < Len(B) + n
        /\ s[Len(B) + m] = w[m] /\ s[Len(B) + n] = w[n]
    BY <1>3, <1>4
  <2>2. ASSUME NEW k \in Len(B) + m..Len(B) + n PROVE s[k] # Marker
    <3>1. k - Len(B) \in m..n /\ k > Len(B) /\ k \in DOMAIN s  BY <1>3
    <3> QED  BY <1>5, <3>1
  <2> QED  BY <1>10, <2>1, <2>2 DEF Divided
<1>7. BehindMarkers(w, old)
  <2> SUFFICES ASSUME NEW m \in DOMAIN w, NEW n \in DOMAIN w, m < n, w[n] = Marker
               PROVE  w[m] <= old
    BY DEF BehindMarkers
  <2>1. /\ Len(B) + m \in DOMAIN s /\ Len(B) + n \in DOMAIN s /\ Len(B) + m < Len(B) + n
        /\ s[Len(B) + m] = w[m] /\ s[Len(B) + n] = w[n]
    BY <1>3, <1>4
  <2> QED  BY <1>10, <2>1 DEF BehindMarkers
<1>8. ASSUME AheadOfMarkers(s, old) PROVE AheadOfMarkers(w, old)
  <2> SUFFICES ASSUME NEW m \in DOMAIN w, w[m] # Marker, ~(w[m] > old)
               PROVE  \E n \in DOMAIN w : m < n /\ w[n] = Marker
    BY DEF AheadOfMarkers
  <2>1. Len(B) + m \in DOMAIN s /\ s[Len(B) + m] = w[m]  BY <1>4
  <2>2. PICK k \in DOMAIN s : Len(B) + m < k /\ s[k] = Marker
    BY <1>8, <2>1 DEF AheadOfMarkers
  <2>3. k > Len(B) /\ m < k - Len(B)  BY <1>3, <2>2
  <2>4. k - Len(B) \in DOMAIN w /\ w[k - Len(B)] = Marker  BY <1>5, <2>2, <2>3
  <2> QED  BY <2>3, <2>4
<1> QED  BY <1>6, <1>7, <1>8 DEF s

\* So it may go.
LEMMA BatchesLosePiece ==
  ASSUME NEW x \in Streams, Batches(x), setup' = setup, m_loops' = m_loops, Live' => Live,
         NEW B \in Seq(Nat), NEW w \in Seq(Nat), ToDecode(x) = B \o w, ToDecode(x)' = w
  PROVE  Batches(x)'
<1> DEFINE p == PassLength[x]
           old == PassLength[x] * m_loops
           s == B \o w
<1>1. PassLength'[x] * m_loops' = old /\ PassLength'[x] = p  BY SetupKept
<1>2. Divided(s, p) /\ BehindMarkers(s, old) /\ (Live => AheadOfMarkers(s, old))
  BY DEF Batches, Live
<1> HIDE DEF p, old, s
<1>3. Divided(w, p) /\ BehindMarkers(w, old) /\ (AheadOfMarkers(s, old) => AheadOfMarkers(w, old))
  BY <1>2, PieceDivided DEF s
<1>4. Live' => AheadOfMarkers(w, old)  BY <1>2, <1>3
<1> QED  BY <1>1, <1>3, <1>4 DEF Batches, Live

\* What is in front of a marker is of a pass that has ended.
LEMMA PartsBehind ==
  ASSUME NEW s \in Seq(Nat), NEW t \in Seq(Nat), NEW old, BehindMarkers(s \o t, old)
  PROVE  /\ BehindMarkers(s, old)
         /\ (\E n \in DOMAIN t : t[n] = Marker) => \A a \in Items(s) : a <= old
<1> DEFINE u == s \o t
<1>1. /\ Len(s) \in Nat /\ Len(t) \in Nat
      /\ DOMAIN s = 1..Len(s) /\ DOMAIN t = 1..Len(t) /\ DOMAIN u = 1..Len(s) + Len(t)
      /\ \A i \in 1..Len(s) : u[i] = s[i]
      /\ \A i \in 1..Len(t) : u[Len(s) + i] = t[i]
  BY Concat
<1>2. BehindMarkers(u, old)  OBVIOUS
<1> HIDE DEF u
<1>3. BehindMarkers(s, old)
  <2> SUFFICES ASSUME NEW m \in DOMAIN s, NEW n \in DOMAIN s, m < n, s[n] = Marker
               PROVE  s[m] <= old
    BY DEF BehindMarkers
  <2>1. m \in DOMAIN u /\ n \in DOMAIN u /\ u[m] = s[m] /\ u[n] = s[n]  BY <1>1
  <2> QED  BY <1>2, <2>1 DEF BehindMarkers
<1>4. ASSUME NEW n \in DOMAIN t, t[n] = Marker, NEW a \in Items(s) PROVE a <= old
  <2>1. PICK m \in DOMAIN s : s[m] = a  BY DEF Items
  <2>2. /\ m \in DOMAIN u /\ Len(s) + n \in DOMAIN u /\ m < Len(s) + n
        /\ u[m] = a /\ u[Len(s) + n] = Marker
    BY <1>1, <1>4, <2>1
  <2> QED  BY <1>2, <2>2 DEF BehindMarkers
<1> QED  BY <1>3, <1>4

\* HandleDecodedVideo drops a late frame only when packets wait behind it.  One of them
\* is a packet of a higher number or the marker of a restart: the frame is not the last.
LEMMA LateIsNotLast ==
  ASSUME Typed, NEW x \in Streams, Line(x), Batches(x), held[x] # <<>>, packets[x] # <<>>,
         Exhausted(x)
  PROVE  Head(held[x]) # read[x]
<1> DEFINE e == Head(held[x])
           q == Head(packets[x])
           old == PassLength[x] * m_loops
<1>1. /\ PassLength[x] \in Nat /\ m_loops \in Nat /\ read[x] = PassLength[x] * (m_loops + 1)
  BY SetupIs DEF Typed, Exhausted
<1>2. e \in Items(held[x]) /\ e \in Nat
  <2>1. held[x] \in Seq(Numbers) /\ Numbers \subseteq Nat \ {0}
    BY TypesAt, NumbersArePositive DEF Typed
  <2>2. e \in Numbers /\ 1 \in DOMAIN held[x] /\ held[x][1] = e
    BY <2>1, HeadTailProperties, EmptySeq, LenProperties
  <2> QED  BY <2>1, <2>2 DEF Items, Marker
<1>3. q \in Nat /\ 1 \in DOMAIN packets[x] /\ packets[x][1] = q
  <2>1. packets[x] \in Seq(Nat)  BY WayParts
  <2>2. q \in Nat /\ q = packets[x][1]  BY <2>1, HeadTailProperties
  <2>3. Len(packets[x]) \in Nat \ {0} /\ DOMAIN packets[x] = 1..Len(packets[x])
    BY <2>1, EmptySeq, LenProperties
  <2> QED  BY <2>2, <2>3
<1>4. Items(UpToHeld(x)) = Items(UpToKept(x)) \union Items(held[x])
  BY WayParts, ItemsConcat DEF UpToHeld
<1>5. UpToHeld(x) \o packets[x] \in Seq(Nat)  BY WayParts, ConcatInSeq
<1>6. Items(OnTheWay(x)) = Items(UpToHeld(x)) \union Items(packets[x]) \union Items(Pushing(x))
  BY <1>5, WayParts, ItemsConcat
<1>7. Rising(UpToHeld(x) \o packets[x])  BY <1>5, WayParts, PartsOfRising DEF Line
<1>8. CASE q # Marker
  <2>1. q \in Items(packets[x])  BY <1>3, <1>8 DEF Items
  <2>2. e < q  BY <1>2, <1>4, <1>7, <2>1, WayParts, PartsOfRising
  <2>3. q \in 1..read[x]  BY <1>6, <2>1 DEF Line
  <2> QED  BY <1>1, <1>2, <1>3, <2>2, <2>3
<1>9. CASE q = Marker
  <2>1. held[x] \o Popped(x) \in Seq(Nat) /\ (held[x] \o Popped(x)) \o packets[x] \in Seq(Nat)
    <3>1. held[x] \o Popped(x) \in Seq(Nat)  BY WayParts, ConcatInSeq
    <3> QED  BY <3>1, WayParts, ConcatInSeq
  <2>2. BehindMarkers(((held[x] \o Popped(x)) \o packets[x]) \o Pushing(x), old)
    BY WayParts DEF Batches
  <2> HIDE DEF old
  <2>3. BehindMarkers((held[x] \o Popped(x)) \o packets[x], old)
    BY <2>1, <2>2, WayParts, PartsBehind
  <2>4. \A a \in Items(held[x] \o Popped(x)) : a <= old
    BY <1>3, <1>9, <2>1, <2>3, WayParts, PartsBehind
  <2>5. Items(held[x] \o Popped(x)) = Items(held[x]) \union Items(Popped(x))  BY WayParts, ItemsConcat
  <2>6. e <= old  BY <1>2, <2>4, <2>5
  <2>7. e \in 1..read[x]  BY <1>2, <1>4, <1>6 DEF Line
  <2> QED  BY <1>1, <1>2, <2>6, <2>7 DEF old
<1> QED  BY <1>8, <1>9

\* Passes stay divided when one frame is taken, wherever it was,
LEMMA BatchesLoseOne ==
  ASSUME NEW x \in Streams, Batches(x), setup' = setup, m_loops' = m_loops, Live' => Live,
         NEW e \in Nat, e # Marker, Removed(ToDecode(x)', ToDecode(x), e)
  PROVE  Batches(x)'
<1>1. PICK A \in Seq(Nat), B \in Seq(Nat) : ToDecode(x) = A \o (<<e>> \o B) /\ ToDecode(x)' = A \o B
  BY DEF Removed
<1> QED  BY <1>1, BatchesLose

\* or whatever comes first.
LEMMA BatchesLoseFirst ==
  ASSUME NEW x \in Streams, Batches(x), setup' = setup, m_loops' = m_loops, Live' => Live,
         NEW e \in Nat, NEW w \in Seq(Nat), ToDecode(x) = <<e>> \o w, ToDecode(x)' = w
  PROVE  Batches(x)'
<1> DEFINE A == <<>>
<1>1. A \in Seq(Nat) /\ A = <<>>  OBVIOUS
<1>2. <<e>> \o w \in Seq(Nat)  BY ConcatInSeq
<1>3. ToDecode(x) = A \o (<<e>> \o w) /\ ToDecode(x)' = A \o w  BY <1>2, EmptyEnd
<1> HIDE DEF A
<1> QED  BY <1>1, <1>3, BatchesLose
-----------------------------------------------------------------------------
\* What no step of a decoder changes.
LEMMA DecodeLeaves ==
  ASSUME NEW x \in Streams, Typed, Decode(DecoderWorks(x)) \/ Decode(DecoderThrows(x))
  PROVE  /\ UNCHANGED <<setup, packetsClosed, demux, toPush, read, m_loops, presenter, inHand, sent>>
         /\ stop => stop'
         /\ \A y \in Streams : Pushing(y)' = Pushing(y) /\ InHand(y)' = InHand(y)
         /\ Live' <=> Live
<1>1. UNCHANGED <<setup, packetsClosed, demux, toPush, read, m_loops, presenter, inHand, sent>>
  BY DEF Decode, demuxVars, presentVars, mainVars
<1>2. stop => stop'
  BY DEF Decode, DecoderWorks, DecoderPops, DecoderFinds, DecoderReceives, DecoderGoesOn,
         ProcessorFlushes, PushFrame, CloseFrames, DecoderEnds, DecoderThrows, DecoderFails, Fail
<1> QED  BY <1>1, <1>2 DEF Pushing, InHand, Live

\* What a decoder's step does to the other stream: nothing.
LEMMA DecodeElsewhere ==
  ASSUME NEW x \in Streams, Typed, Decode(DecoderWorks(x)) \/ Decode(DecoderThrows(x)),
         NEW y \in Streams, y # x, Stream(y)
  PROVE  Stream(y)'
<1>1. /\ packets'[y] = packets[y] /\ frames'[y] = frames[y] /\ framesClosed'[y] = framesClosed[y]
      /\ decoder'[y] = decoder[y] /\ held'[y] = held[y] /\ kept'[y] = kept[y]
      /\ flushing'[y] = flushing[y] /\ dropped'[y] = dropped[y] /\ skipped'[y] = skipped[y]
      /\ lost'[y] = lost[y]
  <2>1. CASE DecoderPops(x)
    BY <2>1 DEF DecoderPops, At, Flushing, Typed
  <2>2. CASE DecoderFinds(x)
    BY <2>2 DEF DecoderFinds, At, Flushing, Typed
  <2>3. CASE DecoderReceives(x)
    BY <2>3 DEF DecoderReceives, At, Flushing, Typed
  <2>4. CASE DecoderGoesOn(x)
    BY <2>4 DEF DecoderGoesOn, At, Flushing, Typed
  <2>5. CASE ProcessorFlushes(x)
    BY <2>5 DEF ProcessorFlushes, At, Flushing, Typed
  <2>6. CASE PushFrame(x)
    <3>1. UNCHANGED <<packets, framesClosed, held, flushing, skipped, dropped, lost>>
      BY <2>6 DEF PushFrame
    <3>2. \E place : decoder' = [decoder EXCEPT ![x] = place]  BY <2>6 DEF PushFrame, At
    <3>3. decoder'[y] = decoder[y]  BY <3>2 DEF Typed
    <3>4. kept'[y] = kept[y]  BY <2>6 DEF PushFrame, Typed
    <3>5. frames'[y] = frames[y]
      <4>1. frames' = frames \/ \E f : frames' = [frames EXCEPT ![x] = f]  BY <2>6 DEF PushFrame
      <4> QED  BY <4>1 DEF Typed
    <3> QED  BY <3>1, <3>3, <3>4, <3>5
  <2>7. CASE CloseFrames(x)
    BY <2>7 DEF CloseFrames, At, Flushing, Typed
  <2>8. CASE DecoderEnds(x)
    BY <2>8 DEF DecoderEnds, At, Flushing, Typed
  <2>9. CASE DecoderThrows(x)
    BY <2>9 DEF DecoderThrows, At, Flushing, Typed
  <2>10. CASE DecoderFails(x)
    <3>1. UNCHANGED <<packets, frames, framesClosed, decoder, kept, flushing, skipped, dropped>>
      BY <2>10 DEF DecoderFails
    <3>2. /\ \E h : held' = [held EXCEPT ![x] = h]
          /\ \E l : lost' = [lost EXCEPT ![x] = l]
      BY <2>10 DEF DecoderFails
    <3>3. held'[y] = held[y] /\ lost'[y] = lost[y]  BY <3>2 DEF Typed
    <3> QED  BY <3>1, <3>3
  <2> QED  BY <2>1, <2>2, <2>3, <2>4, <2>5, <2>6, <2>7, <2>8, <2>9, <2>10 DEF Decode, DecoderWorks
<1> QED  BY <1>1, DecodeLeaves, StreamRests
-----------------------------------------------------------------------------
\* The first item of one part becomes the last of the part before.
LEMMA FirstShift ==
  ASSUME NEW B \in Seq(Nat), NEW C \in Seq(Nat), C # <<>>
  PROVE  Append(B, Head(C)) \o Tail(C) = B \o C
<1> DEFINE N == <<>>
<1>1. N \in Seq(Nat)  OBVIOUS
<1>2. Append(B, Head(C)) \in Seq(Nat)  BY HeadFirst, AppendProperties
<1>3. N \o B = B /\ N \o Append(B, Head(C)) = Append(B, Head(C))  BY <1>2, EmptyEnd
<1> HIDE DEF N
<1>4. Way(N, Append(B, Head(C)), Tail(C)) = Way(N, B, C)  BY <1>1, Shift
<1> QED  BY <1>3, <1>4 DEF Way

\* The first item of a part is the first of all that follows.
LEMMA HeadRegroup ==
  ASSUME NEW s \in Seq(Nat), s # <<>>, NEW t \in Seq(Nat)
  PROVE  s \o t = <<Head(s)>> \o (Tail(s) \o t)
<1>1. <<Head(s)>> \in Seq(Nat) /\ Tail(s) \in Seq(Nat) /\ <<Head(s)>> \o Tail(s) = s  BY HeadFirst
<1> DEFINE h == <<Head(s)>>
           l == Tail(s)
<1> HIDE DEF h, l
<1>2. (h \o l) \o t = h \o (l \o t)  BY <1>1, Regroup DEF h, l
<1> QED  BY <1>1, <1>2 DEF h, l

\* A decoder pops: the packet is decoded, shed, given up, or the marker of a pass.
LEMMA PopKeeps ==
  ASSUME NEW x \in Streams, Stream(x), Typed, Decode(DecoderPops(x))
  PROVE  Stream(x)'
<1> DEFINE e == Head(packets[x])
<1>1. /\ UNCHANGED <<setup, packetsClosed, demux, toPush, read, m_loops, presenter, inHand, sent>>
      /\ Pushing(x)' = Pushing(x) /\ InHand(x)' = InHand(x) /\ (Live' <=> Live)
  BY DecodeLeaves DEF Decode, DecoderWorks
<1>2. /\ decoder[x] = "pop" /\ packets[x] # <<>>
      /\ UNCHANGED <<stop, frames, framesClosed, kept, dropped>>
      /\ packets' = [packets EXCEPT ![x] = Tail(@)]
  BY DEF Decode, DecoderPops
<1>3. packets'[x] = Tail(packets[x])  BY <1>2 DEF Typed
<1>4. flushing[x] = "no" /\ ~framesClosed[x] /\ Popped(x) = <<>>
  BY <1>2 DEF Stream, Working, Popped
<1>5. /\ e \in Nat /\ packets[x] \in Seq(Nat) /\ Tail(packets[x]) \in Seq(Nat)
      /\ Len(Tail(packets[x])) <= PacketCapacity
  <2>1. packets[x] \in Seq(Nat)  BY WayParts
  <2>2. /\ e \in Nat /\ Tail(packets[x]) \in Seq(Nat) /\ Len(Tail(packets[x])) = Len(packets[x]) - 1
        /\ Len(packets[x]) \in Nat
    BY <1>2, <2>1, SeqEnds
  <2> QED  BY <2>1, <2>2, SetupIs DEF Stream, Room, Typed
<1>6. /\ UpToHeld(x) \in Seq(Nat) /\ UpToKept(x) \in Seq(Nat) /\ Pushing(x) \in Seq(Nat)
      /\ held[x] \in Seq(Nat)
      /\ OnTheWay(x) = (UpToHeld(x) \o packets[x]) \o Pushing(x)
      /\ OnTheWay(x)' = (UpToHeld(x)' \o packets'[x]) \o Pushing(x)'
      /\ UpToHeld(x) = UpToKept(x) \o held[x]
      /\ UpToHeld(x)' = UpToKept(x)' \o held'[x] /\ UpToKept(x)' = UpToKept(x)
  <2>1. UpToKept(x)' = UpToKept(x)  BY <1>1, <1>2 DEF UpToKept, UpToFrames, UpToHand
  <2> QED  BY <2>1, WayParts DEF OnTheWay, UpToHeld, UpToKept, UpToFrames, UpToHand
<1>7. ToDecode(x) = (held[x] \o packets[x]) \o Pushing(x)
  BY <1>4, <1>6, EmptyEnd DEF ToDecode
<1>8. /\ PacketCapacity' = PacketCapacity /\ FrameCapacity' = FrameCapacity
      /\ DecoderDelay' = DecoderDelay /\ ProcessorDelay' = ProcessorDelay
  BY <1>1, SetupKept
<1>9. Removed(UpToHeld(x) \o Tail(packets[x]), UpToHeld(x) \o packets[x], e)
  BY <1>2, <1>5, <1>6, RemoveHead
<1> HIDE DEF e
<1>10. Removed((UpToHeld(x) \o Tail(packets[x])) \o Pushing(x), OnTheWay(x), e)
  BY <1>5, <1>6, <1>9, RemoveInFront
<1>11. /\ Len(frames'[x]) <= FrameCapacity' /\ Len(kept'[x]) <= ProcessorDelay'
       /\ Len(packets'[x]) <= PacketCapacity' /\ Len(held[x]) <= DecoderDelay'
       /\ Len(kept'[x]) <= ProcessorDelay' + 1 /\ Len(held[x]) <= DecoderDelay' + 1
  <2>1. Len(kept[x]) <= ProcessorDelay /\ Len(held[x]) <= DecoderDelay  BY <1>2 DEF Stream, Room
  <2>2. Len(kept[x]) \in Nat /\ Len(held[x]) \in Nat  BY WayParts, LenProperties
  <2>3. ProcessorDelay \in Nat /\ DecoderDelay \in Nat  BY SetupIs DEF Typed
  <2> QED  BY <1>2, <1>3, <1>5, <1>8, <2>1, <2>2, <2>3 DEF Stream, Room
<1>12. CASE e = Marker /\ Flushing(x, "loop") /\ At(x, "drain") /\ UNCHANGED <<held, skipped, lost>>
  <2>1. decoder'[x] = "drain" /\ flushing'[x] = "loop" /\ held'[x] = held[x]
    BY <1>12 DEF At, Flushing, Typed
  <2>2. Room(x)'  BY <1>11, <2>1 DEF Room
  <2>3. Working(x)'  BY <1>1, <1>2, <1>4, <2>1 DEF Stream, Working
  <2>4. Line(x)'
    <3>1. OnTheWay(x)' = (UpToHeld(x) \o Tail(packets[x])) \o Pushing(x)
      BY <1>1, <1>3, <1>6, <2>1
    <3> QED  BY <1>1, <1>2, <1>5, <1>10, <1>12, <3>1, LineLoses DEF Stream
  <2>5. Batches(x)'
    <3>1. ToDecode(x)' = ((held[x] \o <<e>>) \o Tail(packets[x])) \o Pushing(x)
      BY <1>1, <1>3, <1>12, <2>1 DEF ToDecode, Popped
    <3>2. held[x] \o <<e>> = Append(held[x], e)  BY <1>5, <1>6, AppendIsConcat
    <3>3. Append(held[x], e) \o Tail(packets[x]) = held[x] \o packets[x]
      <4>1. e = Head(packets[x])  BY DEF e
      <4> QED  BY <1>2, <1>5, <1>6, <4>1, FirstShift
    <3>4. ToDecode(x)' = ToDecode(x)  BY <1>7, <3>1, <3>2, <3>3
    <3> QED  BY <1>1, <3>4, BatchesStay DEF Stream
  <2> QED  BY <2>2, <2>3, <2>4, <2>5 DEF Stream
<1>13. CASE e # Marker /\ held' = [held EXCEPT ![x] = Append(@, e)] /\ At(x, "drain")
            /\ UNCHANGED <<flushing, skipped, lost>>
  <2>1. decoder'[x] = "drain" /\ flushing'[x] = "no" /\ held'[x] = Append(held[x], e)
    BY <1>4, <1>13 DEF At, Typed
  <2>2. Room(x)'
    <3>1. Len(held'[x]) <= DecoderDelay' + 1
      <4>1. Len(held'[x]) = Len(held[x]) + 1 /\ Len(held[x]) \in Nat  BY <1>5, <1>6, <2>1, SeqEnds
      <4>2. DecoderDelay' \in Nat  BY <1>8, SetupIs DEF Typed
      <4> QED  BY <1>11, <4>1, <4>2
    <3> QED  BY <1>11, <2>1, <3>1 DEF Room
  <2>3. Working(x)'  BY <1>1, <1>2, <1>4, <2>1 DEF Stream, Working
  <2>4. Line(x)'
    <3>1. Way(UpToKept(x), Append(held[x], Head(packets[x])), Tail(packets[x]))
            = Way(UpToKept(x), held[x], packets[x])
      BY <1>2, <1>5, <1>6, Shift
    <3>2. OnTheWay(x) = Way(UpToKept(x), held[x], packets[x]) \o Pushing(x)  BY <1>6 DEF Way
    <3>3. OnTheWay(x)' = Way(UpToKept(x), Append(held[x], Head(packets[x])), Tail(packets[x])) \o Pushing(x)
      BY <1>1, <1>3, <1>6, <2>1 DEF Way, e
    <3>4. OnTheWay(x)' = OnTheWay(x)  BY <3>1, <3>2, <3>3
    <3> QED  BY <1>1, <1>2, <1>13, <3>4, LineStays DEF Stream
  <2>5. Batches(x)'
    <3>1. held'[x] \in Seq(Nat)  BY <1>5, <1>6, <2>1, SeqEnds
    <3>2. ToDecode(x)' = (held'[x] \o Tail(packets[x])) \o Pushing(x)
      <4>1. Popped(x)' = <<>>  BY <2>1 DEF Popped
      <4> QED  BY <1>1, <1>3, <3>1, <4>1, EmptyEnd DEF ToDecode
    <3>3. Append(held[x], Head(packets[x])) \o Tail(packets[x]) = held[x] \o packets[x]
      BY <1>2, <1>5, <1>6, FirstShift
    <3>4. ToDecode(x)' = ToDecode(x)  BY <1>7, <2>1, <3>2, <3>3 DEF e
    <3> QED  BY <1>1, <3>4, BatchesStay DEF Stream
  <2> QED  BY <2>2, <2>3, <2>4, <2>5 DEF Stream
<1>14. CASE e # Marker /\ skipped' = [skipped EXCEPT ![x] = @ \union {e}]
            /\ UNCHANGED <<decoder, held, flushing, lost>>
  <2>1. skipped'[x] = skipped[x] \union {e}  BY <1>14 DEF Typed
  <2>2. Room(x)'  BY <1>2, <1>11, <1>14 DEF Room
  <2>3. Working(x)'  BY <1>1, <1>2, <1>4, <1>14 DEF Stream, Working
  <2>4. Line(x)'
    <3>1. OnTheWay(x)' = (UpToHeld(x) \o Tail(packets[x])) \o Pushing(x)
      BY <1>1, <1>3, <1>6, <1>14
    <3> QED  BY <1>1, <1>2, <1>5, <1>10, <1>14, <2>1, <3>1, LineLoses DEF Stream
  <2>5. Batches(x)'
    <3>1. ToDecode(x)' = (held[x] \o Tail(packets[x])) \o Pushing(x)
      <4>1. Popped(x)' = <<>>  BY <1>4, <1>14 DEF Popped
      <4> QED  BY <1>1, <1>3, <1>6, <1>14, <4>1, EmptyEnd DEF ToDecode
    <3>2. Removed(held[x] \o Tail(packets[x]), held[x] \o packets[x], e)
      BY <1>2, <1>5, <1>6, RemoveHead DEF e
    <3>3. Removed(ToDecode(x)', ToDecode(x), e)  BY <1>5, <1>6, <1>7, <3>1, <3>2, RemoveInFront
    <3> QED  BY <1>1, <1>5, <1>14, <3>3, BatchesLoseOne DEF Stream
  <2> QED  BY <2>2, <2>3, <2>4, <2>5 DEF Stream
<1>15. CASE e # Marker /\ MayLose /\ lost' = [lost EXCEPT ![x] = @ \union {e}] /\ At(x, "drain")
            /\ UNCHANGED <<held, flushing, skipped>>
  <2>1. lost'[x] = lost[x] \union {e} /\ decoder'[x] = "drain"  BY <1>15 DEF At, Typed
  <2>2. Room(x)'  BY <1>11, <1>15, <2>1 DEF Room
  <2>3. Working(x)'  BY <1>1, <1>2, <1>4, <1>15, <2>1 DEF Stream, Working
  <2>4. Line(x)'
    <3>1. OnTheWay(x)' = (UpToHeld(x) \o Tail(packets[x])) \o Pushing(x)
      BY <1>1, <1>3, <1>6, <1>15
    <3> QED  BY <1>1, <1>2, <1>5, <1>10, <1>15, <2>1, <3>1, LineLoses DEF Stream
  <2>5. Batches(x)'
    <3>1. ToDecode(x)' = (held[x] \o Tail(packets[x])) \o Pushing(x)
      <4>1. Popped(x)' = <<>>  BY <1>4, <1>15 DEF Popped
      <4> QED  BY <1>1, <1>3, <1>6, <1>15, <4>1, EmptyEnd DEF ToDecode
    <3>2. Removed(held[x] \o Tail(packets[x]), held[x] \o packets[x], e)
      BY <1>2, <1>5, <1>6, RemoveHead DEF e
    <3>3. Removed(ToDecode(x)', ToDecode(x), e)  BY <1>5, <1>6, <1>7, <3>1, <3>2, RemoveInFront
    <3> QED  BY <1>1, <1>5, <1>15, <3>3, BatchesLoseOne DEF Stream
  <2> QED  BY <2>2, <2>3, <2>4, <2>5 DEF Stream
<1> QED  BY <1>12, <1>13, <1>14, <1>15 DEF Decode, DecoderPops, e
-----------------------------------------------------------------------------
\* A step that moves no frame: the decoder looks at its queue, a flush or its end.
LEMMA TurnKeeps ==
  ASSUME NEW x \in Streams, Stream(x), Typed, Decode(DecoderWorks(x)) \/ Decode(DecoderThrows(x)),
         UNCHANGED <<packets, frames, held, kept, dropped, skipped, lost>>,
         Popped(x)' = Popped(x) \/ (held[x] = <<>> /\ Popped(x) = <<Marker>> /\ Popped(x)' = <<>>),
         decoder'[x] = "pop" => Len(held[x]) <= DecoderDelay,
         decoder'[x] \in {"pop", "drain"} => decoder[x] \in {"pop", "drain"},
         decoder'[x] = "push" => kept[x] # <<>>,
         Working(x)'
  PROVE  Stream(x)'
<1>1. /\ UNCHANGED <<setup, packetsClosed, demux, toPush, read, m_loops, presenter, inHand, sent>>
      /\ stop => stop'
      /\ Pushing(x)' = Pushing(x) /\ InHand(x)' = InHand(x) /\ (Live' <=> Live)
  BY DecodeLeaves
<1>2. Room(x)'  BY <1>1, SetupKept DEF Stream, Room
<1>3. OnTheWay(x)' = OnTheWay(x)  BY <1>1 DEF OnTheWay
<1>4. Line(x)'  BY <1>1, <1>3, LineStays DEF Stream
<1>5. CASE Popped(x)' = Popped(x)
  <2>1. ToDecode(x)' = ToDecode(x)  BY <1>1, <1>5 DEF ToDecode
  <2>2. Batches(x)'  BY <1>1, <2>1, BatchesStay DEF Stream
  <2> QED  BY <1>2, <1>4, <2>2 DEF Stream
<1>6. CASE held[x] = <<>> /\ Popped(x) = <<Marker>> /\ Popped(x)' = <<>>
  <2> DEFINE w == packets[x] \o Pushing(x)
             N == <<>>
  <2>1. /\ w \in Seq(Nat) /\ packets[x] \in Seq(Nat) /\ Pushing(x) \in Seq(Nat)
        /\ <<Marker>> \in Seq(Nat) /\ Marker \in Nat /\ N \in Seq(Nat)
    <3>1. packets[x] \in Seq(Nat) /\ Pushing(x) \in Seq(Nat)  BY WayParts
    <3>2. w \in Seq(Nat)  BY <3>1, ConcatInSeq
    <3>3. <<Marker>> \in Seq(Nat) /\ Marker \in Nat /\ N \in Seq(Nat)  BY DEF Marker
    <3> QED  BY <3>1, <3>2, <3>3
  <2>2. ToDecode(x) = ((N \o <<Marker>>) \o packets[x]) \o Pushing(x)
    BY <1>6 DEF ToDecode
  <2>3. ToDecode(x)' = ((N \o N) \o packets[x]) \o Pushing(x)
    BY <1>1, <1>6 DEF ToDecode
  <2>4. N \o <<Marker>> = <<Marker>> /\ N \o N = N /\ N \o packets[x] = packets[x]
    BY <2>1, EmptyEnd
  <2>5. (<<Marker>> \o packets[x]) \o Pushing(x) = <<Marker>> \o w  BY <2>1, Regroup
  <2>6. ToDecode(x) = <<Marker>> \o w  BY <2>2, <2>4, <2>5
  <2>7. ToDecode(x)' = w  BY <2>3, <2>4
  <2> HIDE DEF w
  <2>8. Batches(x)'  BY <1>1, <2>1, <2>6, <2>7, BatchesLoseFirst DEF Stream
  <2> QED  BY <1>2, <1>4, <2>8 DEF Stream
<1> QED  BY <1>5, <1>6

\* Such are these steps.
LEMMA TurnsKeep ==
  ASSUME NEW x \in Streams, Stream(x), Typed,
         Decode(DecoderFinds(x) \/ DecoderGoesOn(x) \/ ProcessorFlushes(x) \/ CloseFrames(x)
                \/ DecoderEnds(x) \/ DecoderThrows(x))
  PROVE  Stream(x)'
<1>1. Decode(DecoderWorks(x)) \/ Decode(DecoderThrows(x))  BY DEF Decode, DecoderWorks
<1>2. /\ UNCHANGED <<setup, packetsClosed, demux, toPush, read, m_loops, presenter, inHand, sent>>
      /\ stop => stop'
  BY <1>1, DecodeLeaves
<1>3. UNCHANGED <<packets, frames, held, kept, dropped, skipped, lost>>
  BY DEF Decode, DecoderFinds, DecoderGoesOn, ProcessorFlushes, CloseFrames, DecoderEnds, DecoderThrows
<1>4. Len(held[x]) \in Nat /\ (held[x] = <<>> <=> Len(held[x]) = 0)
  <2>1. held[x] \in Seq(Nat)  BY WayParts
  <2> QED  BY <2>1, SeqEnds
<1>5. CASE DecoderFinds(x)
  <2>1. /\ decoder[x] = "pop" /\ packets[x] = <<>> /\ flushing[x] = "no"
        /\ UNCHANGED <<stop, framesClosed>> /\ ~framesClosed[x]
    BY <1>5 DEF DecoderFinds, Stream, Working
  <2>2. \/ stop /\ decoder'[x] = "closing" /\ flushing'[x] = "no"
        \/ ~stop /\ packetsClosed[x] /\ decoder'[x] = "drain" /\ flushing'[x] = "end"
    BY <1>5, <2>1 DEF DecoderFinds, At, Flushing, Typed
  <2>3. Popped(x)' = Popped(x)  BY <2>1, <2>2 DEF Popped
  <2>4. Working(x)'  BY <1>2, <1>3, <2>1, <2>2 DEF Stream, Working
  <2> QED  BY <1>1, <1>3, <2>1, <2>2, <2>3, <2>4, TurnKeeps
<1>6. CASE DecoderGoesOn(x)
  <2>1. /\ decoder[x] = "drain" /\ flushing[x] \in {"no", "loop"} /\ Len(held[x]) <= Delay(x)
        /\ UNCHANGED <<stop, framesClosed>> /\ ~framesClosed[x]
    BY <1>6 DEF DecoderGoesOn, Drained, Stream, Working
  <2>2. decoder'[x] = "pop" /\ flushing'[x] = "no"
    BY <1>6 DEF DecoderGoesOn, At, Flushing, Typed
  <2>3. Len(held[x]) <= DecoderDelay /\ (flushing[x] = "loop" => held[x] = <<>>)
    <3>1. DecoderDelay \in Nat  BY SetupIs DEF Typed
    <3> QED  BY <1>4, <2>1, <3>1 DEF Delay
  <2>4. Popped(x)' = Popped(x) \/ (held[x] = <<>> /\ Popped(x) = <<Marker>> /\ Popped(x)' = <<>>)
    BY <2>1, <2>2, <2>3 DEF Popped
  <2>5. Working(x)'  BY <1>2, <1>3, <2>1, <2>2 DEF Stream, Working
  <2> QED  BY <1>1, <1>3, <2>1, <2>2, <2>3, <2>4, <2>5, TurnKeeps
<1>7. CASE ProcessorFlushes(x)
  <2>1. /\ decoder[x] = "drain" /\ flushing[x] = "end" /\ Len(held[x]) <= Delay(x)
        /\ UNCHANGED <<stop, framesClosed>> /\ ~framesClosed[x]
    BY <1>7 DEF ProcessorFlushes, Drained, Stream, Working
  <2>2. /\ flushing'[x] = "processor"
        /\ decoder'[x] = IF stop \/ kept[x] = <<>> THEN "closing" ELSE "push"
    BY <1>7 DEF ProcessorFlushes, At, Flushing, Typed
  <2>3. held[x] = <<>>  BY <1>4, <2>1 DEF Delay
  <2>4. Popped(x)' = Popped(x)  BY <2>1, <2>2 DEF Popped
  <2>5. Working(x)'  BY <1>2, <1>3, <2>1, <2>2, <2>3 DEF Stream, Working
  <2> QED  BY <1>1, <1>3, <2>1, <2>2, <2>4, <2>5, TurnKeeps
<1>8. CASE CloseFrames(x)
  <2>1. decoder[x] = "closing" /\ UNCHANGED <<stop, flushing>> /\ ~framesClosed[x]
    BY <1>8 DEF CloseFrames, Stream, Working
  <2>2. decoder'[x] = "ending" /\ framesClosed'[x]
    BY <1>8 DEF CloseFrames, At, Typed
  <2>3. Popped(x)' = Popped(x)  BY <2>1 DEF Popped
  <2>4. Working(x)'  BY <1>2, <1>3, <2>1, <2>2 DEF Stream, Working
  <2> QED  BY <1>1, <1>3, <2>2, <2>3, <2>4, TurnKeeps
<1>9. CASE DecoderEnds(x)
  <2>1. decoder[x] = "ending" /\ UNCHANGED <<stop, flushing, framesClosed>>
    BY <1>9 DEF DecoderEnds
  <2>2. decoder'[x] = "gone"  BY <1>9 DEF DecoderEnds, At, Typed
  <2>3. Popped(x)' = Popped(x)  BY <2>1 DEF Popped
  <2>4. Working(x)'  BY <1>2, <1>3, <2>1, <2>2 DEF Stream, Working
  <2> QED  BY <1>1, <1>3, <2>2, <2>3, <2>4, TurnKeeps
<1>10. CASE DecoderThrows(x)
  <2>1. decoder[x] = "drain" /\ stop' /\ UNCHANGED <<flushing, framesClosed>> /\ ~framesClosed[x]
    BY <1>10 DEF DecoderThrows, Fail, Stream, Working
  <2>2. decoder'[x] = "ending"  BY <1>10 DEF DecoderThrows, At, Typed
  <2>3. Popped(x)' = Popped(x)  BY <2>1 DEF Popped
  <2>4. Working(x)'  BY <1>2, <1>3, <2>1, <2>2 DEF Stream, Working
  <2> QED  BY <1>1, <1>3, <2>2, <2>3, <2>4, TurnKeeps
<1> QED  BY <1>5, <1>6, <1>7, <1>8, <1>9, <1>10 DEF Decode
-----------------------------------------------------------------------------
\* A frame leaves the decoder for the processor, or is late and dropped, or lost there.
LEMMA ReceiveKeeps ==
  ASSUME NEW x \in Streams, Stream(x), Typed, Decode(DecoderReceives(x))
  PROVE  Stream(x)'
<1> DEFINE e == Head(held[x])
           rest == (Popped(x) \o packets[x]) \o Pushing(x)
<1>1. /\ UNCHANGED <<setup, packetsClosed, demux, toPush, read, m_loops, presenter, inHand, sent>>
      /\ Pushing(x)' = Pushing(x) /\ InHand(x)' = InHand(x) /\ (Live' <=> Live)
  BY DecodeLeaves DEF Decode, DecoderWorks
<1>2. /\ decoder[x] = "drain" /\ Len(held[x]) > Delay(x)
      /\ UNCHANGED <<stop, packets, frames, framesClosed, flushing, skipped>>
      /\ held' = [held EXCEPT ![x] = Tail(@)]
  BY DEF Decode, DecoderReceives
<1>3. held'[x] = Tail(held[x])  BY <1>2 DEF Typed
<1>4. flushing[x] # "processor" /\ ~framesClosed[x] /\ Popped(x)' = Popped(x)
  BY <1>2 DEF Stream, Working, Popped
<1>5. /\ e \in Nat /\ held[x] \in Seq(Nat) /\ Tail(held[x]) \in Seq(Nat) /\ held[x] # <<>>
      /\ Len(Tail(held[x])) <= DecoderDelay + 1
  <2>1. held[x] \in Seq(Nat)  BY WayParts
  <2>2. Len(held[x]) \in Nat /\ DecoderDelay \in Nat  BY <2>1, SeqEnds, SetupIs DEF Typed
  <2>3. Len(held[x]) # 0  BY <1>2, <2>2 DEF Delay
  <2>4. /\ held[x] # <<>> /\ e \in Nat /\ Tail(held[x]) \in Seq(Nat)
        /\ Len(Tail(held[x])) = Len(held[x]) - 1
    BY <2>1, <2>3, SeqEnds
  <2>5. Len(held[x]) <= DecoderDelay + 1  BY DEF Stream, Room
  <2> QED  BY <2>1, <2>2, <2>4, <2>5
<1>6. e # Marker
  <2>1. held[x] \in Seq(Numbers) /\ Numbers \subseteq Nat \ {0}
    BY TypesAt, NumbersArePositive DEF Typed
  <2> QED  BY <1>5, <2>1, HeadTailProperties DEF Marker
<1>7. /\ UpToHeld(x) \in Seq(Nat) /\ UpToKept(x) \in Seq(Nat) /\ UpToFrames(x) \in Seq(Nat)
      /\ Pushing(x) \in Seq(Nat) /\ packets[x] \in Seq(Nat) /\ Popped(x) \in Seq(Nat)
      /\ kept[x] \in Seq(Nat)
      /\ OnTheWay(x) = (((UpToFrames(x) \o kept[x]) \o held[x]) \o packets[x]) \o Pushing(x)
      /\ OnTheWay(x)' = (((UpToFrames(x) \o kept'[x]) \o held'[x]) \o packets[x]) \o Pushing(x)
      /\ UpToKept(x) = UpToFrames(x) \o kept[x]
      /\ UpToHeld(x) = UpToKept(x) \o held[x]
  BY <1>1, <1>2, WayParts DEF OnTheWay, UpToHeld, UpToKept, UpToFrames, UpToHand
<1>8. /\ PacketCapacity' = PacketCapacity /\ FrameCapacity' = FrameCapacity
      /\ DecoderDelay' = DecoderDelay /\ ProcessorDelay' = ProcessorDelay
  BY <1>1, SetupKept
<1>9. /\ Len(frames'[x]) <= FrameCapacity' /\ Len(packets'[x]) <= PacketCapacity'
      /\ Len(held'[x]) <= DecoderDelay' + 1
      /\ Len(kept[x]) <= ProcessorDelay' /\ Len(kept[x]) \in Nat /\ ProcessorDelay' \in Nat
  <2>1. Len(kept[x]) \in Nat /\ ProcessorDelay \in Nat  BY <1>7, SeqEnds, SetupIs DEF Typed
  <2> QED  BY <1>2, <1>3, <1>5, <1>8, <2>1 DEF Stream, Room
<1>10. Batches(x)'
  <2>1. Popped(x) \o packets[x] \in Seq(Nat) /\ rest \in Seq(Nat) /\ Tail(held[x]) \o rest \in Seq(Nat)
    <3>1. Popped(x) \o packets[x] \in Seq(Nat)  BY <1>7, ConcatInSeq
    <3>2. rest \in Seq(Nat)  BY <1>7, <3>1, ConcatInSeq
    <3> HIDE DEF rest
    <3> QED  BY <1>5, <3>1, <3>2, ConcatInSeq
  <2>2. ASSUME NEW s \in Seq(Nat)
        PROVE  ((s \o Popped(x)) \o packets[x]) \o Pushing(x) = s \o rest
    <3>1. (s \o Popped(x)) \o packets[x] = s \o (Popped(x) \o packets[x])  BY <1>7, Regroup, ZenonT(40)
    <3>2. (s \o (Popped(x) \o packets[x])) \o Pushing(x) = s \o rest  BY <1>7, <2>1, Regroup, ZenonT(40)
    <3> QED  BY <3>1, <3>2
  <2>3. ToDecode(x) = held[x] \o rest
    <3>1. ToDecode(x) = ((held[x] \o Popped(x)) \o packets[x]) \o Pushing(x)  BY DEF ToDecode
    <3> QED  BY <1>5, <2>2, <3>1
  <2>4. ToDecode(x)' = Tail(held[x]) \o rest
    <3>1. ToDecode(x)' = ((Tail(held[x]) \o Popped(x)) \o packets[x]) \o Pushing(x)
      BY <1>1, <1>2, <1>3, <1>4 DEF ToDecode
    <3> QED  BY <1>5, <2>2, <3>1
  <2> HIDE DEF rest
  <2>5. held[x] \o rest = <<e>> \o (Tail(held[x]) \o rest)  BY <1>5, <2>1, HeadRegroup
  <2> DEFINE w == Tail(held[x]) \o rest
  <2>6. w \in Seq(Nat) /\ ToDecode(x) = <<e>> \o w /\ ToDecode(x)' = w  BY <2>1, <2>3, <2>4, <2>5
  <2> HIDE DEF w, e
  <2> QED  BY <1>1, <1>5, <2>6, BatchesLoseFirst DEF Stream
<1>11. CASE /\ kept' = [kept EXCEPT ![x] = Append(@, e)] /\ UNCHANGED <<dropped, lost>>
            /\ At(x, IF Len(kept[x]) = ProcessorDelay THEN "push"
                     ELSE IF stop THEN "closing" ELSE "drain")
  <2>1. kept'[x] = Append(kept[x], e)  BY <1>11 DEF Typed
  <2>2. decoder'[x] = IF Len(kept[x]) = ProcessorDelay THEN "push"
                      ELSE IF stop THEN "closing" ELSE "drain"
    BY <1>11 DEF At, Typed
  <2>3. Room(x)'
    <3>1. Len(kept'[x]) = Len(kept[x]) + 1 /\ kept'[x] # <<>>
      <4>1. kept'[x] \in Seq(Nat) /\ Len(kept'[x]) = Len(kept[x]) + 1  BY <1>5, <1>7, <2>1, SeqEnds
      <4>2. kept'[x] # <<>>  BY <1>9, <4>1, SeqEnds
      <4> QED  BY <4>1, <4>2
    <3>2. Len(kept'[x]) <= ProcessorDelay' + 1  BY <1>9, <3>1
    <3>3. decoder'[x] \in {"pop", "drain"} => Len(kept'[x]) <= ProcessorDelay'
      BY <1>8, <1>9, <2>2, <3>1
    <3> QED  BY <1>9, <2>2, <3>1, <3>2, <3>3 DEF Room
  <2>4. Working(x)'  BY <1>1, <1>2, <1>4, <2>2 DEF Stream, Working
  <2>5. Line(x)'
    <3>1. Way(UpToFrames(x), Append(kept[x], Head(held[x])), Tail(held[x]))
            = Way(UpToFrames(x), kept[x], held[x])
      BY <1>5, <1>7, Shift
    <3>2. OnTheWay(x) = (Way(UpToFrames(x), kept[x], held[x]) \o packets[x]) \o Pushing(x)
      BY <1>7 DEF Way
    <3>3. OnTheWay(x)' = (Way(UpToFrames(x), Append(kept[x], Head(held[x])), Tail(held[x]))
                            \o packets[x]) \o Pushing(x)
      BY <1>3, <1>7, <2>1 DEF Way
    <3>4. OnTheWay(x)' = OnTheWay(x)  BY <3>1, <3>2, <3>3
    <3> QED  BY <1>1, <1>2, <1>11, <3>4, LineStays DEF Stream
  <2> QED  BY <1>10, <2>3, <2>4, <2>5 DEF Stream
<1>12. CASE /\ packets[x] # <<>> /\ dropped' = [dropped EXCEPT ![x] = @ \union {e}]
            /\ At(x, IF stop THEN "closing" ELSE "drain") /\ UNCHANGED <<kept, lost>>
  <2>1. dropped'[x] = dropped[x] \union {e}  BY <1>12 DEF Typed
  <2>2. decoder'[x] = IF stop THEN "closing" ELSE "drain"  BY <1>12 DEF At, Typed
  <2>3. Room(x)'
    <3>1. Len(kept'[x]) <= ProcessorDelay' /\ Len(kept'[x]) <= ProcessorDelay' + 1
      BY <1>9, <1>12
    <3> QED  BY <1>9, <2>2, <3>1 DEF Room
  <2>4. Working(x)'  BY <1>1, <1>2, <1>4, <2>2 DEF Stream, Working
  <2>5. Line(x)'
    <3>1. Removed(UpToKept(x) \o Tail(held[x]), UpToHeld(x), e)
      BY <1>5, <1>7, RemoveHead
    <3>2. e = read[x] => ~Exhausted(x)  BY <1>5, <1>12, LateIsNotLast DEF Stream
    <3> HIDE DEF e
    <3>3. Removed((UpToKept(x) \o Tail(held[x])) \o packets[x], UpToHeld(x) \o packets[x], e)
      BY <1>5, <1>7, <3>1, RemoveInFront
    <3>4. Removed(((UpToKept(x) \o Tail(held[x])) \o packets[x]) \o Pushing(x),
                  (UpToHeld(x) \o packets[x]) \o Pushing(x), e)
      BY <1>5, <1>7, <3>3, RemoveInFront
    <3>5. /\ OnTheWay(x) = (UpToHeld(x) \o packets[x]) \o Pushing(x)
          /\ OnTheWay(x)' = ((UpToKept(x) \o Tail(held[x])) \o packets[x]) \o Pushing(x)
      BY <1>3, <1>7, <1>12
    <3> QED  BY <1>1, <1>2, <1>5, <1>6, <1>12, <2>1, <3>2, <3>4, <3>5, LineLoses DEF Stream
  <2> QED  BY <1>10, <2>3, <2>4, <2>5 DEF Stream
<1>13. CASE /\ MayLose /\ lost' = [lost EXCEPT ![x] = @ \union {e}]
            /\ At(x, IF stop THEN "closing" ELSE "drain") /\ UNCHANGED <<kept, dropped>>
  <2>1. lost'[x] = lost[x] \union {e}  BY <1>13 DEF Typed
  <2>2. decoder'[x] = IF stop THEN "closing" ELSE "drain"  BY <1>13 DEF At, Typed
  <2>3. Room(x)'
    <3>1. Len(kept'[x]) <= ProcessorDelay' /\ Len(kept'[x]) <= ProcessorDelay' + 1
      BY <1>9, <1>13
    <3> QED  BY <1>9, <2>2, <3>1 DEF Room
  <2>4. Working(x)'  BY <1>1, <1>2, <1>4, <2>2 DEF Stream, Working
  <2>5. Line(x)'
    <3>1. Removed(UpToKept(x) \o Tail(held[x]), UpToHeld(x), e)
      BY <1>5, <1>7, RemoveHead
    <3> HIDE DEF e
    <3>2. Removed((UpToKept(x) \o Tail(held[x])) \o packets[x], UpToHeld(x) \o packets[x], e)
      BY <1>5, <1>7, <3>1, RemoveInFront
    <3>3. Removed(((UpToKept(x) \o Tail(held[x])) \o packets[x]) \o Pushing(x),
                  (UpToHeld(x) \o packets[x]) \o Pushing(x), e)
      BY <1>5, <1>7, <3>2, RemoveInFront
    <3>4. /\ OnTheWay(x) = (UpToHeld(x) \o packets[x]) \o Pushing(x)
          /\ OnTheWay(x)' = ((UpToKept(x) \o Tail(held[x])) \o packets[x]) \o Pushing(x)
      BY <1>3, <1>7, <1>13
    <3> QED  BY <1>1, <1>2, <1>5, <1>6, <1>13, <2>1, <3>3, <3>4, LineLoses DEF Stream
  <2> QED  BY <1>10, <2>3, <2>4, <2>5 DEF Stream
<1> QED  BY <1>11, <1>12, <1>13 DEF Decode, DecoderReceives

\* A drain that is cut short loses the frame that failed, and in a flush all that are left.
LEMMA FailKeeps ==
  ASSUME NEW x \in Streams, Stream(x), Typed, Decode(DecoderFails(x))
  PROVE  Stream(x)'
<1>1. /\ UNCHANGED <<setup, packetsClosed, demux, toPush, read, m_loops, presenter, inHand, sent>>
      /\ Pushing(x)' = Pushing(x) /\ InHand(x)' = InHand(x) /\ (Live' <=> Live)
  BY DecodeLeaves DEF Decode, DecoderWorks
<1>2. /\ decoder[x] = "drain" /\ Len(held[x]) > Delay(x) /\ MayLose
      /\ UNCHANGED <<stop, packets, frames, framesClosed, decoder, kept, flushing, skipped, dropped>>
  BY DEF Decode, DecoderFails
<1>3. Popped(x)' = Popped(x) /\ flushing[x] # "processor" /\ ~framesClosed[x]
  BY <1>2 DEF Stream, Working, Popped
<1>4. /\ UpToKept(x) \in Seq(Nat) /\ Pushing(x) \in Seq(Nat) /\ packets[x] \in Seq(Nat)
      /\ Popped(x) \in Seq(Nat) /\ held[x] \in Seq(Nat)
      /\ OnTheWay(x) = ((UpToKept(x) \o held[x]) \o packets[x]) \o Pushing(x)
      /\ OnTheWay(x)' = ((UpToKept(x) \o held'[x]) \o packets[x]) \o Pushing(x)
      /\ ToDecode(x) = ((held[x] \o Popped(x)) \o packets[x]) \o Pushing(x)
      /\ ToDecode(x)' = ((held'[x] \o Popped(x)) \o packets[x]) \o Pushing(x)
  <2>1. UpToKept(x)' = UpToKept(x)  BY <1>1, <1>2 DEF UpToKept, UpToFrames, UpToHand
  <2> QED  BY <1>1, <1>2, <1>3, <2>1, WayParts
           DEF OnTheWay, ToDecode, UpToHeld, UpToKept, UpToFrames, UpToHand
<1>5. PICK B \in Seq(Nat), R \in Seq(Nat) :
        held[x] = B \o R /\ held'[x] = R /\ lost'[x] = lost[x] \union Items(B)
  <2>1. Len(held[x]) \in Nat /\ DecoderDelay \in Nat /\ (held[x] = <<>> <=> Len(held[x]) = 0)
    BY <1>4, SeqEnds, SetupIs DEF Typed
  <2>2. held[x] # <<>>  BY <1>2, <2>1 DEF Delay
  <2>3. CASE /\ held' = [held EXCEPT ![x] = Tail(@)]
             /\ lost' = [lost EXCEPT ![x] = @ \union {Head(held[x])}]
    <3> DEFINE B == <<Head(held[x])>>
    <3>1. B \in Seq(Nat) /\ Tail(held[x]) \in Seq(Nat) /\ held[x] = B \o Tail(held[x])
      BY <1>4, <2>2, HeadFirst
    <3>2. Items(B) = {Head(held[x])}
      <4>1. held[x] \in Seq(Numbers) /\ Numbers \subseteq Nat \ {0}
        BY TypesAt, NumbersArePositive DEF Typed
      <4>2. Head(held[x]) # Marker  BY <2>2, <4>1, HeadTailProperties DEF Marker
      <4> QED  BY <4>2 DEF Items
    <3> HIDE DEF B
    <3>3. held'[x] = Tail(held[x]) /\ lost'[x] = lost[x] \union {Head(held[x])}  BY <2>3 DEF Typed
    <3>4. lost'[x] = lost[x] \union Items(B)  BY <3>2, <3>3
    <3> QED  BY <3>1, <3>3, <3>4
  <2>4. CASE /\ held' = [held EXCEPT ![x] = <<>>]
             /\ lost' = [lost EXCEPT ![x] = @ \union Items(held[x])]
    <3>1. held'[x] = <<>> /\ lost'[x] = lost[x] \union Items(held[x])  BY <2>4 DEF Typed
    <3>2. held[x] = held[x] \o <<>> /\ <<>> \in Seq(Nat)  BY <1>4, EmptyEnd
    <3> QED  BY <1>4, <3>1, <3>2
  <2> QED  BY <2>3, <2>4 DEF Decode, DecoderFails
<1>6. Room(x)'
  <2>1. Len(held[x]) = Len(B) + Len(R) /\ Len(B) \in Nat /\ Len(R) \in Nat  BY <1>5, Concat
  <2>2. DecoderDelay \in Nat /\ Len(held[x]) <= DecoderDelay + 1  BY SetupIs DEF Typed, Stream, Room
  <2>3. Len(held'[x]) <= DecoderDelay + 1  BY <1>5, <2>1, <2>2
  <2> QED  BY <1>1, <1>2, <2>3, SetupKept DEF Stream, Room
<1>7. Working(x)'  BY <1>1, <1>2, <1>3 DEF Stream, Working
<1>8. Line(x)'
  <2> DEFINE A == UpToKept(x)
             P == packets[x]
             Q == Pushing(x)
             C == (R \o P) \o Q
  <2>1. A \in Seq(Nat) /\ A \o B \in Seq(Nat) /\ C \in Seq(Nat)
    <3>1. R \o packets[x] \in Seq(Nat)  BY <1>4, ConcatInSeq
    <3> QED  BY <1>4, <3>1, ConcatInSeq
  <2>2. A \o (B \o R) = (A \o B) \o R  BY <2>1, Regroup
  <2>5. P \in Seq(Nat) /\ Q \in Seq(Nat)  BY <1>4
  <2>3. OnTheWay(x) = (A \o B) \o C
    <3>1. OnTheWay(x) = (((A \o B) \o R) \o P) \o Q  BY <1>4, <1>5, <2>2
    <3> HIDE DEF A, P, Q
    <3> DEFINE D == A \o B
    <3>3. D \in Seq(Nat)  BY <2>1
    <3> HIDE DEF D
    <3>4. ((D \o R) \o P) \o Q = D \o ((R \o P) \o Q)
      <4>1. R \o P \in Seq(Nat)  BY <2>5, <3>3, ConcatInSeq
      <4>2. (D \o R) \o P = D \o (R \o P)  BY <2>5, <3>3, Regroup
      <4> DEFINE E == R \o P
      <4> HIDE DEF E
      <4>3. (D \o E) \o Q = D \o (E \o Q)  BY <2>5, <3>3, <4>1, Regroup DEF E
      <4> QED  BY <4>2, <4>3 DEF E
    <3>2. (((A \o B) \o R) \o P) \o Q = (A \o B) \o C  BY <3>4 DEF D
    <3> QED  BY <3>1, <3>2
  <2>4. OnTheWay(x)' = A \o C
    <3>1. OnTheWay(x)' = ((A \o R) \o P) \o Q  BY <1>4, <1>5
    <3> HIDE DEF A, P, Q
    <3>3. A \in Seq(Nat)  BY <2>1
    <3>2. ((A \o R) \o P) \o Q = A \o ((R \o P) \o Q)
      <4>1. R \o P \in Seq(Nat)  BY <2>5, <3>3, ConcatInSeq
      <4>2. (A \o R) \o P = A \o (R \o P)  BY <2>5, <3>3, Regroup
      <4> DEFINE E == R \o P
      <4> HIDE DEF E
      <4>3. (A \o E) \o Q = A \o (E \o Q)  BY <2>5, <3>3, <4>1, Regroup DEF E
      <4> QED  BY <4>2, <4>3 DEF E
    <3> QED  BY <3>1, <3>2
  <2> HIDE DEF A, C
  <2> QED  BY <1>1, <1>2, <1>5, <2>1, <2>3, <2>4, LineLosesMany DEF Stream
<1>9. Batches(x)'
  <2> DEFINE w == ((R \o Popped(x)) \o packets[x]) \o Pushing(x)
  <2>1. (R \o Popped(x)) \o packets[x] \in Seq(Nat) /\ w \in Seq(Nat)
    <3>1. R \o Popped(x) \in Seq(Nat)  BY <1>4, ConcatInSeq
    <3>2. (R \o Popped(x)) \o packets[x] \in Seq(Nat)  BY <1>4, <3>1, ConcatInSeq
    <3> QED  BY <1>4, <3>2, ConcatInSeq
  <2>2. ToDecode(x) = B \o w
    <3> DEFINE S == Popped(x)
               P == packets[x]
    <3>3. S \in Seq(Nat) /\ P \in Seq(Nat)  BY <1>4
    <3> HIDE DEF S, P
    <3>4. ((B \o R) \o S) \o P = B \o ((R \o S) \o P)
      <4>1. R \o S \in Seq(Nat)  BY <3>3, ConcatInSeq
      <4>2. (B \o R) \o S = B \o (R \o S)  BY <3>3, Regroup
      <4> DEFINE E == R \o S
      <4> HIDE DEF E
      <4>3. (B \o E) \o P = B \o (E \o P)  BY <3>3, <4>1, Regroup DEF E
      <4> QED  BY <4>2, <4>3 DEF E
    <3>1. ((B \o R) \o Popped(x)) \o packets[x] = B \o ((R \o Popped(x)) \o packets[x])
      BY <3>4 DEF S, P
    <3>2. (B \o ((R \o Popped(x)) \o packets[x])) \o Pushing(x) = B \o w
      BY <1>4, <2>1, Regroup, ZenonT(40)
    <3> QED  BY <1>4, <1>5, <3>1, <3>2
  <2>3. ToDecode(x)' = w  BY <1>4, <1>5
  <2> HIDE DEF w
  <2> QED  BY <1>1, <2>1, <2>2, <2>3, BatchesLosePiece DEF Stream
<1> QED  BY <1>6, <1>7, <1>8, <1>9 DEF Stream

\* A frame leaves the processor for its queue, or is lost because of a stop.
LEMMA PushFrameKeeps ==
  ASSUME NEW x \in Streams, Stream(x), Typed, Decode(PushFrame(x))
  PROVE  Stream(x)'
<1> DEFINE e == Head(kept[x])
<1>1. /\ UNCHANGED <<setup, packetsClosed, demux, toPush, read, m_loops, presenter, inHand, sent>>
      /\ Pushing(x)' = Pushing(x) /\ InHand(x)' = InHand(x) /\ (Live' <=> Live)
  BY DecodeLeaves DEF Decode, DecoderWorks
<1>2. /\ decoder[x] = "push" /\ kept[x] # <<>>
      /\ UNCHANGED <<stop, packets, framesClosed, held, flushing, skipped, dropped, lost>>
      /\ kept' = [kept EXCEPT ![x] = Tail(@)]
  BY DEF Decode, PushFrame, Stream, Room
<1>3. kept'[x] = Tail(kept[x])  BY <1>2 DEF Typed
<1>4. ~framesClosed[x] /\ Popped(x)' = Popped(x)
  BY <1>2 DEF Stream, Working, Popped
<1>5. /\ e \in Nat /\ kept[x] \in Seq(Nat) /\ Tail(kept[x]) \in Seq(Nat)
      /\ Len(kept[x]) \in Nat \ {0} /\ Len(Tail(kept[x])) = Len(kept[x]) - 1
      /\ (Tail(kept[x]) = <<>> <=> Len(kept[x]) = 1)
  <2>1. kept[x] \in Seq(Nat)  BY WayParts
  <2>2. /\ Len(kept[x]) \in Nat \ {0} /\ e \in Nat /\ Tail(kept[x]) \in Seq(Nat)
        /\ Len(Tail(kept[x])) = Len(kept[x]) - 1
    BY <1>2, <2>1, SeqEnds
  <2>3. Tail(kept[x]) = <<>> <=> Len(Tail(kept[x])) = 0  BY <2>2, SeqEnds
  <2> QED  BY <2>1, <2>2, <2>3
<1>7. /\ UpToKept(x) \in Seq(Nat) /\ UpToFrames(x) \in Seq(Nat) /\ UpToHand(x) \in Seq(Nat)
      /\ Pushing(x) \in Seq(Nat) /\ packets[x] \in Seq(Nat) /\ held[x] \in Seq(Nat)
      /\ frames[x] \in Seq(Nat)
      /\ OnTheWay(x) = ((((UpToHand(x) \o frames[x]) \o kept[x]) \o held[x]) \o packets[x]) \o Pushing(x)
      /\ OnTheWay(x)' = ((((UpToHand(x) \o frames'[x]) \o kept'[x]) \o held[x]) \o packets[x])
                          \o Pushing(x)
      /\ UpToKept(x) = UpToFrames(x) \o kept[x] /\ UpToFrames(x) = UpToHand(x) \o frames[x]
  BY <1>1, <1>2, WayParts DEF OnTheWay, UpToKept, UpToFrames, UpToHand
<1>8. /\ PacketCapacity' = PacketCapacity /\ FrameCapacity' = FrameCapacity
      /\ DecoderDelay' = DecoderDelay /\ ProcessorDelay' = ProcessorDelay
  BY <1>1, SetupKept
<1>9. /\ Len(packets'[x]) <= PacketCapacity' /\ Len(held'[x]) <= DecoderDelay' + 1
      /\ Len(kept'[x]) <= ProcessorDelay' /\ Len(kept'[x]) <= ProcessorDelay' + 1
  <2>1. ProcessorDelay \in Nat  BY SetupIs DEF Typed
  <2>2. Len(kept[x]) <= ProcessorDelay + 1  BY DEF Stream, Room
  <2>3. Len(kept'[x]) <= ProcessorDelay /\ Len(kept'[x]) <= ProcessorDelay + 1
    BY <1>3, <1>5, <2>1, <2>2
  <2> QED  BY <1>2, <1>8, <2>3 DEF Stream, Room
<1>10. Batches(x)'
  <2>1. ToDecode(x)' = ToDecode(x)  BY <1>1, <1>2, <1>4 DEF ToDecode
  <2> QED  BY <1>1, <2>1, BatchesStay DEF Stream
<1>11. \A place \in {"push", "closing", "drain"} :
         At(x, place) => decoder'[x] = place
  BY DEF At, Typed
<1>12. ASSUME NEW pushed \in BOOLEAN, At(x, AfterPush(x, pushed)), pushed \/ stop,
              Len(frames'[x]) <= FrameCapacity'
       PROVE  Room(x)' /\ Working(x)'
  <2>1. AfterPush(x, pushed) \in {"push", "closing", "drain"}  BY DEF AfterPush
  <2>2. decoder'[x] = AfterPush(x, pushed)  BY <1>11, <1>12, <2>1
  <2>3. decoder'[x] # "pop" /\ (decoder'[x] = "push" => kept'[x] # <<>>)
    <3>1. decoder'[x] # "pop"  BY <2>1, <2>2
    <3>2. ASSUME decoder'[x] = "push" PROVE Len(kept[x]) > 1  BY <2>2, <3>2 DEF AfterPush
    <3>3. Len(kept[x]) > 1 => Len(kept[x]) # 1
      <4> DEFINE n == Len(kept[x])
      <4>1. n \in Nat  BY <1>5
      <4> HIDE DEF n
      <4>2. n > 1 => n # 1  BY <4>1
      <4> QED  BY <4>2 DEF n
    <3> QED  BY <1>3, <1>5, <3>1, <3>2, <3>3
  <2>4. Room(x)'  BY <1>9, <1>12, <2>3 DEF Room
  <2>5. flushing[x] = "processor" => held[x] = <<>> /\ decoder'[x] # "drain"
    BY <2>2 DEF AfterPush, Stream, Working
  <2>6. decoder'[x] \in {"closing", "ending", "gone"} /\ ~stop =>
          flushing[x] = "processor" /\ kept'[x] = <<>>
    BY <1>3, <1>5, <1>12, <2>2 DEF AfterPush
  <2>7. Working(x)'  BY <1>1, <1>2, <1>4, <2>3, <2>5, <2>6 DEF Stream, Working
  <2> QED  BY <2>4, <2>7
<1>13. CASE /\ Len(frames[x]) < FrameCapacity /\ frames' = [frames EXCEPT ![x] = Append(@, e)]
            /\ At(x, AfterPush(x, TRUE))
  <2>1. frames'[x] = Append(frames[x], e)  BY <1>13 DEF Typed
  <2>2. Len(frames'[x]) <= FrameCapacity'
    <3>1. Len(frames'[x]) = Len(frames[x]) + 1 /\ Len(frames[x]) \in Nat  BY <1>5, <1>7, <2>1, SeqEnds
    <3>2. FrameCapacity \in Nat  BY SetupIs DEF Typed
    <3> QED  BY <1>8, <1>13, <3>1, <3>2
  <2>3. Room(x)' /\ Working(x)'  BY <1>12, <1>13, <2>2
  <2>4. Way(UpToHand(x), Append(frames[x], Head(kept[x])), Tail(kept[x]))
          = Way(UpToHand(x), frames[x], kept[x])
    BY <1>2, <1>5, <1>7, Shift
  <2>5. OnTheWay(x) = ((Way(UpToHand(x), frames[x], kept[x]) \o held[x]) \o packets[x]) \o Pushing(x)
    BY <1>7 DEF Way
  <2>6. OnTheWay(x)' = ((Way(UpToHand(x), Append(frames[x], Head(kept[x])), Tail(kept[x]))
                           \o held[x]) \o packets[x]) \o Pushing(x)
    BY <1>3, <1>7, <2>1 DEF Way
  <2>7. OnTheWay(x)' = OnTheWay(x)  BY <2>4, <2>5, <2>6
  <2>8. Line(x)'  BY <1>1, <1>2, <2>7, LineStays DEF Stream
  <2> QED  BY <1>10, <2>3, <2>8 DEF Stream
<1>14. CASE stop /\ UNCHANGED frames /\ At(x, AfterPush(x, FALSE))
  <2>1. Len(frames'[x]) <= FrameCapacity'  BY <1>8, <1>14 DEF Stream, Room
  <2>2. Room(x)' /\ Working(x)'  BY <1>12, <1>14, <2>1
  <2>3. Line(x)'
    <3>1. Removed(UpToFrames(x) \o Tail(kept[x]), UpToKept(x), e)
      BY <1>2, <1>5, <1>7, RemoveHead
    <3> HIDE DEF e
    <3>2. Removed((UpToFrames(x) \o Tail(kept[x])) \o held[x], UpToKept(x) \o held[x], e)
      BY <1>5, <1>7, <3>1, RemoveInFront
    <3>3. Removed(((UpToFrames(x) \o Tail(kept[x])) \o held[x]) \o packets[x],
                  (UpToKept(x) \o held[x]) \o packets[x], e)
      BY <1>5, <1>7, <3>2, RemoveInFront
    <3>4. Removed((((UpToFrames(x) \o Tail(kept[x])) \o held[x]) \o packets[x]) \o Pushing(x),
                  ((UpToKept(x) \o held[x]) \o packets[x]) \o Pushing(x), e)
      BY <1>5, <1>7, <3>3, RemoveInFront
    <3>5. /\ OnTheWay(x) = ((UpToKept(x) \o held[x]) \o packets[x]) \o Pushing(x)
          /\ OnTheWay(x)' = (((UpToFrames(x) \o Tail(kept[x])) \o held[x]) \o packets[x]) \o Pushing(x)
      BY <1>3, <1>7, <1>14
    <3> QED  BY <1>1, <1>2, <1>5, <1>14, <3>4, <3>5, LineLoses DEF Stream
  <2> QED  BY <1>10, <2>2, <2>3 DEF Stream
<1> QED  BY <1>13, <1>14 DEF Decode, PushFrame

\* A decoder keeps what is claimed of any stream.
LEMMA DecodeKeeps ==
  ASSUME NEW x \in Streams, NEW y \in Streams, Stream(y), Typed,
         Decode(DecoderWorks(x)) \/ Decode(DecoderThrows(x))
  PROVE  Stream(y)'
<1>1. CASE y # x  BY <1>1, DecodeElsewhere
<1>2. CASE y = x
  <2>1. CASE Decode(DecoderPops(x))  BY <1>2, <2>1, PopKeeps
  <2>2. CASE Decode(DecoderReceives(x))  BY <1>2, <2>2, ReceiveKeeps
  <2>3. CASE Decode(PushFrame(x))  BY <1>2, <2>3, PushFrameKeeps
  <2>4. CASE Decode(DecoderFinds(x) \/ DecoderGoesOn(x) \/ ProcessorFlushes(x) \/ CloseFrames(x)
                    \/ DecoderEnds(x) \/ DecoderThrows(x))
    BY <1>2, <2>4, TurnsKeep
  <2>5. CASE Decode(DecoderFails(x))  BY <1>2, <2>5, FailKeeps
  <2> QED  BY <2>1, <2>2, <2>3, <2>4, <2>5 DEF Decode, DecoderWorks
<1> QED  BY <1>1, <1>2
-----------------------------------------------------------------------------
\* What no step of a presenter changes.
LEMMA PresentLeaves ==
  ASSUME NEW x \in Streams, Typed, Present(PresenterWorks(x)) \/ Present(PresenterDrops(x))
  PROVE  /\ UNCHANGED <<setup, stop, packets, packetsClosed, framesClosed, demux, toPush, read, m_loops,
                        decoder, held, kept, flushing, skipped, lost>>
         /\ \A y \in Streams : Pushing(y)' = Pushing(y) /\ ToDecode(y)' = ToDecode(y)
         /\ Live' <=> Live
<1>1. UNCHANGED <<setup, stop, packets, packetsClosed, framesClosed, demux, toPush, read, m_loops,
                  decoder, held, kept, flushing, skipped, lost>>
  BY DEF Present, demuxVars, decodeVars, mainVars
<1>2. \A y \in Streams : Pushing(y)' = Pushing(y)  BY <1>1 DEF Pushing
<1> QED  BY <1>1, <1>2 DEF ToDecode, Popped, Live

\* What a presenter's step does to the other stream: nothing.
LEMMA PresentElsewhere ==
  ASSUME NEW x \in Streams, Typed, Present(PresenterWorks(x)) \/ Present(PresenterDrops(x)),
         NEW y \in Streams, y # x, Stream(y)
  PROVE  Stream(y)'
<1>1. /\ frames'[y] = frames[y] /\ presenter'[y] = presenter[y] /\ inHand'[y] = inHand[y]
      /\ sent'[y] = sent[y] /\ dropped'[y] = dropped[y]
  <2>1. CASE PresenterPops(x)  BY <2>1 DEF PresenterPops, Goes, Typed
  <2>2. CASE PresenterFinds(x)  BY <2>2 DEF PresenterFinds, Goes, Typed
  <2>3. CASE PresenterStarts(x)  BY <2>3 DEF PresenterStarts, Goes, Typed
  <2>4. CASE PresenterStops(x)  BY <2>4 DEF PresenterStops, Goes, Typed
  <2>5. CASE PresenterSends(x)  BY <2>5 DEF PresenterSends, Goes, Typed
  <2>6. CASE PresenterEnds(x)  BY <2>6 DEF PresenterEnds, Goes, Typed
  <2>7. CASE PresenterDrops(x)  BY <2>7 DEF PresenterDrops, Goes, Typed
  <2> QED  BY <2>1, <2>2, <2>3, <2>4, <2>5, <2>6, <2>7 DEF Present, PresenterWorks
<1> QED  BY <1>1, PresentLeaves, StreamRests

\* What is left to show of a presenter's step.
LEMMA PresentDoes ==
  ASSUME NEW x \in Streams, Stream(x), Typed, Present(PresenterWorks(x)) \/ Present(PresenterDrops(x)),
         Len(frames'[x]) <= FrameCapacity,
         presenter'[x] \in {"leaving", "gone"} /\ ~stop => framesClosed[x] /\ frames'[x] = <<>>,
         inHand'[x] # Nobody <=> presenter'[x] \in {"start", "present"},
         Line(x)'
  PROVE  Stream(x)'
<1>1. /\ UNCHANGED <<setup, stop, packets, packetsClosed, framesClosed, demux, toPush, read, m_loops,
                     decoder, held, kept, flushing, skipped, lost>>
      /\ ToDecode(x)' = ToDecode(x) /\ (Live' <=> Live)
  BY PresentLeaves
<1>2. Room(x)'  BY <1>1, SetupKept DEF Stream, Room
<1>3. Working(x)'  BY <1>1 DEF Stream, Working
<1>4. Batches(x)'  BY <1>1, BatchesStay DEF Stream
<1> QED  BY <1>2, <1>3, <1>4 DEF Stream

\* The frame in hand leaves the line.
LEMMA HandEmptied ==
  ASSUME NEW x \in Streams, Typed, Present(PresenterWorks(x)) \/ Present(PresenterDrops(x)),
         inHand[x] # Nobody, inHand'[x] = Nobody, sent'[x] = sent[x], frames'[x] = frames[x]
  PROVE  Removed(OnTheWay(x)', OnTheWay(x), inHand[x]) /\ inHand[x] \in Nat \ {Marker}
<1> DEFINE e == inHand[x]
           h == <<e>>
<1>1. /\ UNCHANGED <<packets, held, kept>> /\ Pushing(x)' = Pushing(x)
  BY PresentLeaves
<1>2. e \in Nat /\ e # Marker
  <2>1. setup \in Setups  BY DEF Typed
  <2>2. Numbers \subseteq Nat \ {0}  BY <2>1, NumbersArePositive
  <2> QED  BY <2>2, TypesAt DEF Nobody, Marker
<1>3. InHand(x) = h /\ InHand(x)' = <<>>  BY DEF InHand
<1>4. h \in Seq(Nat) /\ h # <<>> /\ Head(h) = e /\ Tail(h) = <<>>  BY <1>2
<1> HIDE DEF h, e
<1>5. /\ sent[x] \in Seq(Nat) /\ frames[x] \in Seq(Nat) /\ kept[x] \in Seq(Nat) /\ held[x] \in Seq(Nat)
      /\ packets[x] \in Seq(Nat) /\ Pushing(x) \in Seq(Nat)
  BY WayParts
<1>6. Removed(sent[x] \o <<>>, sent[x] \o h, e)  BY <1>4, <1>5, RemoveHead
<1>7. Removed((sent[x] \o <<>>) \o frames[x], (sent[x] \o h) \o frames[x], e)
  BY <1>2, <1>5, <1>6, RemoveInFront
<1>8. Removed(((sent[x] \o <<>>) \o frames[x]) \o kept[x], ((sent[x] \o h) \o frames[x]) \o kept[x], e)
  BY <1>2, <1>5, <1>7, RemoveInFront
<1>9. Removed((((sent[x] \o <<>>) \o frames[x]) \o kept[x]) \o held[x],
              (((sent[x] \o h) \o frames[x]) \o kept[x]) \o held[x], e)
  BY <1>2, <1>5, <1>8, RemoveInFront
<1>10. Removed(((((sent[x] \o <<>>) \o frames[x]) \o kept[x]) \o held[x]) \o packets[x],
               ((((sent[x] \o h) \o frames[x]) \o kept[x]) \o held[x]) \o packets[x], e)
  BY <1>2, <1>5, <1>9, RemoveInFront
<1>11. Removed((((((sent[x] \o <<>>) \o frames[x]) \o kept[x]) \o held[x]) \o packets[x]) \o Pushing(x),
               (((((sent[x] \o h) \o frames[x]) \o kept[x]) \o held[x]) \o packets[x]) \o Pushing(x), e)
  BY <1>2, <1>5, <1>10, RemoveInFront
<1>12. /\ OnTheWay(x) = (((((sent[x] \o h) \o frames[x]) \o kept[x]) \o held[x]) \o packets[x]) \o Pushing(x)
       /\ OnTheWay(x)' = (((((sent[x] \o <<>>) \o frames[x]) \o kept[x]) \o held[x]) \o packets[x])
                           \o Pushing(x)
  BY <1>1, <1>3 DEF OnTheWay
<1>13. Removed(OnTheWay(x)', OnTheWay(x), e)  BY <1>11, <1>12
<1> QED  BY <1>2, <1>13 DEF e

\* VideoPresentLoop drops a frame only when a newer one is ready: it is not the last.
LEMMA HandIsNotLast ==
  ASSUME NEW x \in Streams, Typed, Line(x), inHand[x] # Nobody, frames[x] # <<>>
  PROVE  inHand[x] # read[x]
<1> DEFINE e == inHand[x]
           q == Head(frames[x])
<1>1. setup \in Setups  BY DEF Typed
<1>2. Numbers \subseteq Nat \ {0}  BY <1>1, NumbersArePositive
<1>3. e \in Nat /\ e \in Items(InHand(x))
  <2>1. e \in Numbers  BY TypesAt
  <2>2. InHand(x) = <<e>> /\ e # Marker  BY <1>2, <2>1 DEF InHand, Marker
  <2>3. 1 \in DOMAIN <<e>> /\ <<e>>[1] = e  OBVIOUS
  <2> QED  BY <1>2, <2>1, <2>2, <2>3 DEF Items
<1>4. q \in Nat /\ q \in Items(frames[x])
  <2>1. frames[x] \in Seq(Numbers)  BY TypesAt
  <2>2. q \in Numbers /\ 1 \in DOMAIN frames[x] /\ frames[x][1] = q
    BY <2>1, HeadTailProperties, EmptySeq, LenProperties
  <2> QED  BY <1>2, <2>2 DEF Items, Marker
<1>5. Items(UpToHand(x)) = Items(sent[x]) \union Items(InHand(x))
  BY WayParts, ItemsConcat DEF UpToHand
<1>6. Items(UpToFrames(x)) = Items(UpToHand(x)) \union Items(frames[x])
  BY WayParts, ItemsConcat DEF UpToFrames
<1>7. Items(UpToKept(x)) = Items(UpToFrames(x)) \union Items(kept[x])
  BY WayParts, ItemsConcat DEF UpToKept
<1>8. Items(UpToHeld(x)) = Items(UpToKept(x)) \union Items(held[x])
  BY WayParts, ItemsConcat DEF UpToHeld
<1>9. UpToHeld(x) \o packets[x] \in Seq(Nat)  BY WayParts, ConcatInSeq
<1>10. Items(OnTheWay(x)) = Items(UpToHeld(x)) \union Items(packets[x]) \union Items(Pushing(x))
  BY <1>9, WayParts, ItemsConcat
<1>11. Rising(UpToHeld(x) \o packets[x])  BY <1>9, WayParts, PartsOfRising DEF Line
<1>12. Rising(UpToHeld(x))  BY <1>11, WayParts, PartsOfRising
<1>13. Rising(UpToKept(x))  BY <1>12, WayParts, PartsOfRising DEF UpToHeld
<1>14. Rising(UpToFrames(x))  BY <1>13, WayParts, PartsOfRising DEF UpToKept
<1>15. e < q  BY <1>3, <1>4, <1>5, <1>14, WayParts, PartsOfRising DEF UpToFrames
<1>16. q \in 1..read[x] /\ read[x] \in Nat
  <2>1. q \in 1..read[x]  BY <1>4, <1>6, <1>7, <1>8, <1>10 DEF Line
  <2>2. read[x] \in Numbers \union {0}  BY TypesAt
  <2>3. read[x] \in Nat
    <3>1. \A n \in Numbers : n \in Nat  BY <1>2
    <3>2. CASE read[x] \in Numbers  BY <3>1, <3>2
    <3>3. CASE read[x] = 0  BY <3>3
    <3> QED  BY <2>2, <3>2, <3>3
  <2> QED  BY <2>1, <2>3
<1> QED  BY <1>3, <1>4, <1>15, <1>16

\* A presenter keeps what is claimed of its stream,
LEMMA PresentKeepsOwn ==
  ASSUME NEW x \in Streams, Stream(x), Typed, Present(PresenterWorks(x)) \/ Present(PresenterDrops(x))
  PROVE  Stream(x)'
<1>1. /\ UNCHANGED <<setup, stop, packets, packetsClosed, framesClosed, demux, toPush, read, m_loops,
                     decoder, held, kept, flushing, skipped, lost>>
      /\ Pushing(x)' = Pushing(x)
  BY PresentLeaves
<1>2. /\ sent[x] \in Seq(Nat) /\ frames[x] \in Seq(Nat) /\ Len(frames[x]) <= FrameCapacity
      /\ UpToHand(x) \in Seq(Nat)
  BY WayParts DEF Stream, Room
<1>3. CASE PresenterPops(x)
  <2> DEFINE e == Head(frames[x])
             N == <<>>
  <2>1. /\ presenter[x] = "pop" /\ frames[x] # <<>> /\ UNCHANGED <<sent, dropped>>
        /\ inHand[x] = Nobody
    BY <1>3 DEF PresenterPops, Stream, Working
  <2>2. /\ frames'[x] = Tail(frames[x]) /\ inHand'[x] = e /\ presenter'[x] \in {"start", "present"}
    BY <1>3 DEF PresenterPops, Goes, Typed
  <2>3. e \in Nat /\ e # Nobody
    <3>1. setup \in Setups  BY DEF Typed
    <3>2. Numbers \subseteq Nat \ {0}  BY <3>1, NumbersArePositive
    <3>3. frames[x] \in Seq(Numbers)  BY TypesAt
    <3>4. e \in Numbers  BY <2>1, <3>3, SeqEnds
    <3> QED  BY <3>2, <3>4 DEF Nobody
  <2>4. Len(frames'[x]) <= FrameCapacity
    <3>1. Len(frames'[x]) = Len(frames[x]) - 1 /\ Len(frames[x]) \in Nat  BY <1>2, <2>1, <2>2, SeqEnds
    <3>2. FrameCapacity \in Nat  BY SetupIs DEF Typed
    <3> QED  BY <1>2, <3>1, <3>2
  <2>5. InHand(x) = N /\ InHand(x)' = <<e>> /\ Append(N, e) = <<e>> /\ N \in Seq(Nat)
    BY <2>1, <2>2, <2>3 DEF InHand
  <2> HIDE DEF N
  <2>6. Way(sent[x], Append(N, Head(frames[x])), Tail(frames[x])) = Way(sent[x], N, frames[x])
    BY <1>2, <2>1, <2>5, Shift
  <2>7. OnTheWay(x) = (((Way(sent[x], N, frames[x]) \o kept[x]) \o held[x]) \o packets[x]) \o Pushing(x)
    BY <2>5 DEF OnTheWay, Way
  <2>8. OnTheWay(x)' = (((Way(sent[x], Append(N, Head(frames[x])), Tail(frames[x])) \o kept[x]) \o held[x])
                           \o packets[x]) \o Pushing(x)
    BY <1>1, <2>1, <2>2, <2>5 DEF OnTheWay, Way
  <2>9. OnTheWay(x)' = OnTheWay(x)  BY <2>6, <2>7, <2>8
  <2>10. Line(x)'  BY <1>1, <2>1, <2>9, LineStays DEF Stream
  <2> HIDE DEF e
  <2> QED  BY <2>2, <2>3, <2>4, <2>10, PresentDoes
<1>4. CASE PresenterFinds(x) \/ PresenterStarts(x) \/ PresenterEnds(x)
  <2>1. UNCHANGED <<frames, inHand, sent, dropped>>
    BY <1>4 DEF PresenterFinds, PresenterStarts, PresenterEnds
  <2>2. \/ presenter[x] = "pop" /\ presenter'[x] = "leaving" /\ frames[x] = <<>> /\ (framesClosed[x] \/ stop)
        \/ presenter[x] = "start" /\ presenter'[x] = "present"
        \/ presenter[x] = "leaving" /\ presenter'[x] = "gone"
    BY <1>4 DEF PresenterFinds, PresenterStarts, PresenterEnds, Goes, Typed
  <2>3. presenter'[x] \in {"leaving", "gone"} /\ ~stop => framesClosed[x] /\ frames'[x] = <<>>
    BY <2>1, <2>2 DEF Stream, Working
  <2>4. inHand'[x] # Nobody <=> presenter'[x] \in {"start", "present"}
    BY <2>1, <2>2 DEF Stream, Working
  <2>5. OnTheWay(x)' = OnTheWay(x)  BY <1>1, <2>1 DEF OnTheWay, InHand
  <2>6. Line(x)'  BY <1>1, <2>1, <2>5, LineStays DEF Stream
  <2> QED  BY <1>2, <2>1, <2>3, <2>4, <2>6, PresentDoes
<1>5. CASE PresenterStops(x)
  <2>1. presenter[x] \in {"start", "present"} /\ stop /\ UNCHANGED <<frames, sent, dropped>>
    BY <1>5 DEF PresenterStops
  <2>2. presenter'[x] = "leaving" /\ inHand'[x] = Nobody
    BY <1>5 DEF PresenterStops, Goes, Typed
  <2>3. Removed(OnTheWay(x)', OnTheWay(x), inHand[x]) /\ inHand[x] \in Nat
    BY <2>1, <2>2, HandEmptied DEF Stream, Working
  <2>4. Line(x)'  BY <1>1, <2>1, <2>3, LineLoses DEF Stream
  <2> QED  BY <1>2, <2>1, <2>2, <2>4, PresentDoes
<1>6. CASE PresenterDrops(x)
  <2>1. presenter[x] = "present" /\ frames[x] # <<>> /\ UNCHANGED <<frames, sent>>
    BY <1>6 DEF PresenterDrops
  <2>2. presenter'[x] = "pop" /\ inHand'[x] = Nobody /\ dropped'[x] = dropped[x] \union {inHand[x]}
    BY <1>6 DEF PresenterDrops, Goes, Typed
  <2>3. Removed(OnTheWay(x)', OnTheWay(x), inHand[x]) /\ inHand[x] \in Nat /\ inHand[x] # Marker
    BY <2>1, <2>2, HandEmptied DEF Stream, Working
  <2>4. inHand[x] # read[x]  BY <2>1, HandIsNotLast DEF Stream, Working
  <2>5. Line(x)'  BY <1>1, <2>2, <2>3, <2>4, LineLoses DEF Stream
  <2> QED  BY <1>2, <2>1, <2>2, <2>5, PresentDoes
<1>7. CASE PresenterSends(x)
  <2> DEFINE e == inHand[x]
  <2>1. presenter[x] = "present" /\ UNCHANGED <<frames, dropped>> /\ e # Nobody
    BY <1>7 DEF PresenterSends, Stream, Working
  <2>2. presenter'[x] = "pop" /\ inHand'[x] = Nobody /\ sent'[x] = Append(sent[x], e)
    BY <1>7 DEF PresenterSends, Goes, Typed
  <2>3. e \in Nat
    <3>1. setup \in Setups  BY DEF Typed
    <3>2. Numbers \subseteq Nat \ {0}  BY <3>1, NumbersArePositive
    <3> QED  BY <2>1, <3>2, TypesAt
  <2>4. InHand(x) = <<e>> /\ InHand(x)' = <<>>  BY <2>1, <2>2 DEF InHand
  <2>5. /\ Append(sent[x], e) \in Seq(Nat) /\ Append(sent[x], e) = sent[x] \o <<e>>
    BY <1>2, <2>3, AppendProperties, AppendIsConcat
  <2>6. sent'[x] \o InHand(x)' = sent[x] \o InHand(x)
    <3>1. Append(sent[x], e) \o <<>> = Append(sent[x], e)  BY <2>5, EmptyEnd
    <3> QED  BY <2>2, <2>4, <2>5, <3>1
  <2>7. OnTheWay(x)' = OnTheWay(x)
    <3>1. OnTheWay(x) = ((((((sent[x] \o InHand(x)) \o frames[x]) \o kept[x]) \o held[x]) \o packets[x])
                           \o Pushing(x))
      BY DEF OnTheWay
    <3>2. OnTheWay(x)' = ((((((sent'[x] \o InHand(x)') \o frames[x]) \o kept[x]) \o held[x]) \o packets[x])
                            \o Pushing(x))
      BY <1>1, <2>1 DEF OnTheWay
    <3> QED  BY <2>6, <3>1, <3>2
  <2>8. Line(x)'  BY <1>1, <2>1, <2>7, LineStays DEF Stream
  <2> QED  BY <1>2, <2>1, <2>2, <2>8, PresentDoes
<1> QED  BY <1>3, <1>4, <1>5, <1>6, <1>7 DEF Present, PresenterWorks

\* and of the other.
LEMMA PresentKeeps ==
  ASSUME NEW x \in Streams, NEW y \in Streams, Stream(y), Typed,
         Present(PresenterWorks(x)) \/ Present(PresenterDrops(x))
  PROVE  Stream(y)'
<1>1. CASE y # x  BY <1>1, PresentElsewhere
<1>2. CASE y = x  BY <1>2, PresentKeepsOwn
<1> QED  BY <1>1, <1>2

\* main and the signal thread move no frame.
LEMMA MainKeeps ==
  ASSUME NEW x \in Streams, Stream(x),
         (exit = NotYet /\ (Signal \/ ForceExit)) \/ MainStep \/ UNCHANGED vars
  PROVE  Stream(x)'
<1>1. /\ UNCHANGED <<setup, packets, packetsClosed, frames, framesClosed, demux, toPush, read, m_loops,
                     decoder, held, kept, flushing, skipped, presenter, inHand, sent, dropped, lost>>
      /\ stop => stop'
  BY DEF Signal, ForceExit, MainStep, SignalStops, MainReturns, pipeVars, vars, mainVars,
         demuxVars, decodeVars, presentVars
<1>2. Pushing(x)' = Pushing(x) /\ (Live' => Live)  BY <1>1 DEF Pushing, Live
<1> QED  BY <1>1, <1>2, StreamRests
-----------------------------------------------------------------------------
\* Before the first step nothing is on the way.
LEMMA InitHolds == ASSUME Init PROVE IInv
<1> USE DEF Init
<1>1. /\ setup \in Setups /\ Streams \subseteq {"video", "audio"} /\ MaxLoops \in Nat
      /\ \A x \in Streams : PassLength[x] \in Nat
      /\ PacketCapacity \in Nat /\ FrameCapacity \in Nat /\ DecoderDelay \in Nat /\ ProcessorDelay \in Nat
  BY SetupIs
<1>2. Typed
  <2>1. m_loops \in 0..MaxLoops /\ stop \in BOOLEAN /\ interrupted \in BOOLEAN
    <3>1. m_loops = 0 /\ MaxLoops \in Nat  BY <1>1
    <3>2. stop \in BOOLEAN /\ interrupted \in BOOLEAN  OBVIOUS
    <3> HIDE DEF Init
    <3> QED  BY <3>1, <3>2
  <2>2. \A T : <<>> \in Seq(T)  OBVIOUS
  <2>3. /\ packets \in [Streams -> Seq(Numbers \union {Marker})]
        /\ frames \in [Streams -> Seq(Numbers)] /\ held \in [Streams -> Seq(Numbers)]
        /\ kept \in [Streams -> Seq(Numbers)] /\ sent \in [Streams -> Seq(Numbers)]
        /\ toPush \in Seq([stream : Streams, item : Numbers \union {Marker}])
    BY <2>2
  <2>4. /\ packetsClosed \in [Streams -> BOOLEAN] /\ framesClosed \in [Streams -> BOOLEAN]
        /\ demux \in DemuxPlaces /\ decoder \in [Streams -> DecoderPlaces]
        /\ flushing \in [Streams -> {"no", "loop", "end", "processor"}]
        /\ presenter \in [Streams -> PresenterPlaces]
    BY DEF DemuxPlaces, DecoderPlaces, PresenterPlaces
  <2>5. /\ read \in [Streams -> Numbers \union {0}] /\ inHand \in [Streams -> Numbers \union {Nobody}]
        /\ dropped \in [Streams -> SUBSET Numbers] /\ skipped \in [Streams -> SUBSET Numbers]
        /\ lost \in [Streams -> SUBSET Numbers] /\ started \subseteq Streams
    OBVIOUS
  <2>6. m_error \in {"none", "demux"} \union Streams /\ exit \in {NotYet, 0, 1, 130}  OBVIOUS
  <2> QED  BY <1>1, <2>1, <2>3, <2>4, <2>5, <2>6 DEF Typed
<1>3. Counted
  <2>1. {x \in Streams : decoder[x] # "gone"} = Streams  OBVIOUS
  <2>2. {x \in Streams : presenter[x] # "gone"} = Streams  OBVIOUS
  <2>3. Cardinality(Streams) \in Nat  BY <1>2, AliveIs, FS_CardinalityType
  <2>4. m_running = 2 * Cardinality(Streams) + 1 /\ demux = "top"  OBVIOUS
  <2> HIDE DEF Init
  <2> QED  BY <2>1, <2>2, <2>3, <2>4 DEF Counted, Alive
<1>4. Demuxing
  <2>1. \A x \in Streams : /\ PassLength[x] * m_loops = 0 /\ read[x] = 0
                           /\ 0 <= PassLength[x] * (m_loops + 1)
    BY <1>1
  <2> QED  BY <2>1 DEF Demuxing
<1>5. Ending  BY DEF Ending, NotYet
<1>6. ASSUME NEW x \in Streams PROVE Stream(x)
  <2>1. /\ packets[x] = <<>> /\ frames[x] = <<>> /\ held[x] = <<>> /\ kept[x] = <<>> /\ sent[x] = <<>>
        /\ InHand(x) = <<>> /\ Popped(x) = <<>> /\ Pushing(x) = <<>>
    BY DEF InHand, Popped, Pushing
  <2>2. OnTheWay(x) = <<>> /\ ToDecode(x) = <<>>
    <3> DEFINE N == <<>>
    <3>1. N \in Seq(Nat)  OBVIOUS
    <3>2. N \o N = N  BY <3>1, EmptyEnd
    <3> HIDE DEF N
    <3>3. OnTheWay(x) = N \o N \o N \o N \o N \o N \o N /\ ToDecode(x) = N \o N \o N \o N
      BY <2>1 DEF OnTheWay, ToDecode, N
    <3> QED  BY <3>2, <3>3 DEF N
  <2>3. Room(x)  BY <1>1, <2>1 DEF Room
  <2>4. Working(x)  BY DEF Working, Nobody
  <2>5. Line(x)
    <3>1. Rising(OnTheWay(x)) /\ Items(OnTheWay(x)) = {}  BY <2>2 DEF Rising, Items
    <3>2. read[x] = 0 /\ dropped[x] = {} /\ skipped[x] = {} /\ lost[x] = {} /\ 1..0 = {}  OBVIOUS
    <3>3. Off(x) = {} /\ lost[x] = {} /\ read[x] \notin dropped[x]  BY <3>2 DEF Off
    <3> HIDE DEF Init
    <3> QED  BY <3>1, <3>2, <3>3 DEF Line
  <2>6. Batches(x)  BY <2>2 DEF Batches, Divided, BehindMarkers, AheadOfMarkers
  <2> QED  BY <2>3, <2>4, <2>5, <2>6 DEF Stream
<1> QED  BY <1>2, <1>3, <1>4, <1>5, <1>6 DEF IInv, Stream

\* The steps together.
LEMMA IInvKept == ASSUME IInv, [Next]_vars PROVE IInv'
<1>1. Typed /\ Counted /\ Demuxing /\ Ending /\ \A x \in Streams : Stream(x)
  BY DEF IInv, Stream
<1>2. SUFFICES /\ Typed' /\ Counted' /\ Demuxing' /\ Ending' /\ Streams' = Streams
               /\ \A x \in Streams : Stream(x)'
  BY DEF IInv, Stream
<1>3. CASE Demux(DemuxWorks) \/ Demux(ReadPacket) \/ Demux(ReadBreaksOff) \/ Demux(ReadThrows)
  <2>1. Typed' /\ Counted' /\ Demuxing' /\ Ending'
    BY <1>1, <1>3, DemuxTyped, DemuxCounted, DemuxingKept, ThreadsEnding
  <2>2. setup' = setup  BY <1>3 DEF Demux, mainVars
  <2>3. \A x \in Streams : Stream(x)'  BY <1>1, <1>3, DemuxKeeps
  <2> QED  BY <2>1, <2>2, <2>3, SetupKept
<1>4. ASSUME NEW x \in Streams, Decode(DecoderWorks(x)) \/ Decode(DecoderThrows(x))
      PROVE  /\ Typed' /\ Counted' /\ Demuxing' /\ Ending' /\ Streams' = Streams
             /\ \A y \in Streams : Stream(y)'
  <2>1. Typed' /\ Counted' /\ Ending'
    <3>1. Room(x)  BY <1>1 DEF Stream
    <3>2. Typed'  BY <1>1, <1>4, <3>1, DecodeTyped
    <3> QED  BY <1>1, <1>4, <3>2, DecodeCounted, ThreadsEnding
  <2>2. UNCHANGED <<setup, packetsClosed, demux, toPush, read, m_loops>> /\ (stop => stop')
    BY <1>1, <1>4, DecodeLeaves
  <2>3. Demuxing'  BY <1>1, <2>2, DemuxerRests
  <2>4. \A y \in Streams : Stream(y)'  BY <1>1, <1>4, DecodeKeeps
  <2> QED  BY <2>1, <2>2, <2>3, <2>4, SetupKept
<1>5. ASSUME NEW x \in Streams, Present(PresenterWorks(x)) \/ Present(PresenterDrops(x))
      PROVE  /\ Typed' /\ Counted' /\ Demuxing' /\ Ending' /\ Streams' = Streams
             /\ \A y \in Streams : Stream(y)'
  <2>1. Typed' /\ Counted' /\ Ending'
    <3>1. Working(x)  BY <1>1 DEF Stream
    <3>2. Typed'  BY <1>1, <1>5, <3>1, PresentTyped
    <3> QED  BY <1>1, <1>5, <3>2, PresentCounted, ThreadsEnding
  <2>2. UNCHANGED <<setup, stop, packetsClosed, demux, toPush, read, m_loops>>
    BY <1>1, <1>5, PresentLeaves
  <2>3. Demuxing'  BY <1>1, <2>2, DemuxerRests
  <2>4. \A y \in Streams : Stream(y)'  BY <1>1, <1>5, PresentKeeps
  <2> QED  BY <2>1, <2>2, <2>3, <2>4, SetupKept
<1>6. CASE (exit = NotYet /\ (Signal \/ ForceExit)) \/ MainStep \/ UNCHANGED vars
  <2>1. Typed' /\ Counted' /\ Ending'  BY <1>1, <1>6, MainTyped, MainCounted, MainEnding
  <2>2. UNCHANGED <<setup, packetsClosed, demux, toPush, read, m_loops>> /\ (stop => stop')
    BY <1>6 DEF Signal, ForceExit, MainStep, SignalStops, MainReturns, pipeVars, vars, mainVars,
                demuxVars
  <2>3. Demuxing'  BY <1>1, <2>2, DemuxerRests
  <2>4. \A x \in Streams : Stream(x)'  BY <1>1, <1>6, MainKeeps
  <2> QED  BY <2>1, <2>2, <2>3, <2>4, SetupKept
<1>7. Exited => UNCHANGED vars  BY DEF Exited
<1> QED  BY <1>3, <1>4, <1>5, <1>6, <1>7 DEF Next

\* The inductive invariant of the threads: of what the queues, the decoder, the processor
\* and the presenter hold, of the markers between passes, and of who may be gone.
THEOREM StateIsConsistent == Spec => []IInv
<1>1. Init => IInv  BY InitHolds
<1>2. IInv /\ [Next]_vars => IInv'  BY IInvKept
<1> QED  BY <1>1, <1>2, PTL DEF Spec, Safety
-----------------------------------------------------------------------------
\* What was to be shown of a state, from the invariant: types,
LEMMA GivesTypes == ASSUME IInv PROVE TypeOK
<1>1. Typed /\ Counted /\ \A x \in Streams : Room(x)  BY DEF IInv
<1>2. {frames, held, kept, sent} \subseteq [Streams -> Seq(Numbers)]  BY <1>1 DEF Typed
<1> QED  BY <1>1, <1>2 DEF TypeOK, Typed, Counted, Room

\* the line of each stream,
LEMMA GivesConveyor == ASSUME IInv PROVE Conveyor
<1>1. ASSUME NEW x \in Streams PROVE Line(x) /\ Off(x) = OffTheWay(x)
  BY DEF IInv, Line, Off, OffTheWay
<1> QED  BY <1>1 DEF Line, Conveyor

\* what a decoder holds, between two of which there is no marker,
LEMMA GivesPasses == ASSUME IInv PROVE PassesDoNotMix
<1>1. ASSUME NEW x \in Streams, NEW m \in DOMAIN held[x], NEW n \in DOMAIN held[x], m < n
      PROVE  (held[x][m] - 1) \div PassLength[x] = (held[x][n] - 1) \div PassLength[x]
  <2> DEFINE h == held[x]
             t == (Popped(x) \o packets[x]) \o Pushing(x)
             p == PassLength[x]
  <2>1. Typed /\ Batches(x)  BY DEF IInv
  <2>2. h \in Seq(Nat) /\ t \in Seq(Nat) /\ ToDecode(x) = h \o t
    <3>1. /\ held[x] \in Seq(Nat) /\ Popped(x) \in Seq(Nat) /\ packets[x] \in Seq(Nat)
          /\ Pushing(x) \in Seq(Nat)
          /\ ToDecode(x) = ((held[x] \o Popped(x)) \o packets[x]) \o Pushing(x)
      BY <2>1, WayParts
    <3>2. Popped(x) \o packets[x] \in Seq(Nat)  BY <3>1, ConcatInSeq
    <3>3. t \in Seq(Nat)  BY <3>1, <3>2, ConcatInSeq
    <3>4. (held[x] \o Popped(x)) \o packets[x] = held[x] \o (Popped(x) \o packets[x])
      BY <3>1, Regroup
    <3>5. (held[x] \o (Popped(x) \o packets[x])) \o Pushing(x) = h \o t  BY <3>1, <3>2, Regroup, ZenonT(40)
    <3> QED  BY <3>1, <3>3, <3>4, <3>5
  <2>3. Divided(h \o t, p)  BY <2>1, <2>2 DEF Batches
  <2>4. \A i \in DOMAIN h : h[i] # Marker
    <3>1. setup \in Setups  BY <2>1 DEF Typed
    <3>2. Numbers \subseteq Nat \ {0}  BY <3>1, NumbersArePositive
    <3>3. h \in Seq(Numbers)  BY <2>1, TypesAt
    <3>4. \A i \in DOMAIN h : h[i] \in Numbers
      <4>1. DOMAIN h = 1..Len(h)  BY <3>3, LenProperties
      <4> QED  BY <3>3, <4>1, ElementOfSeq
    <3> QED  BY <3>2, <3>4 DEF Marker
  <2>5. m \in DOMAIN h /\ n \in DOMAIN h  OBVIOUS
  <2> HIDE DEF h, t, p
  <2>6. /\ Len(h) \in Nat /\ DOMAIN h = 1..Len(h) /\ Len(t) \in Nat
        /\ DOMAIN (h \o t) = 1..Len(h) + Len(t)
        /\ \A i \in 1..Len(h) : (h \o t)[i] = h[i]
    BY <2>2, Concat
  <2> DEFINE u == h \o t
  <2>7. Divided(u, p) /\ m \in DOMAIN u /\ n \in DOMAIN u /\ u[m] = h[m] /\ u[n] = h[n]
        /\ \A k \in m..n : u[k] # Marker
    <3>1. \A k \in m..n : k \in 1..Len(h)  BY <2>5, <2>6
    <3>2. \A k \in m..n : u[k] # Marker  BY <2>4, <2>6, <3>1
    <3> QED  BY <2>3, <2>5, <2>6, <3>2
  <2> HIDE DEF u
  <2>8. h[m] # Marker /\ h[n] # Marker  BY <2>4, <2>5
  <2>9. (h[m] - 1) \div p = (h[n] - 1) \div p  BY <1>1, <2>7, <2>8 DEF Divided
  <2> QED  BY <2>9 DEF h, p
<1>2. ASSUME NEW x \in Streams, NEW m \in DOMAIN held[x], NEW n \in DOMAIN held[x]
      PROVE  m < n \/ n < m \/ m = n
  <2>1. held[x] \in Seq(Nat)  BY WayParts DEF IInv
  <2>2. DOMAIN held[x] = 1..Len(held[x]) /\ Len(held[x]) \in Nat  BY <2>1, LenProperties
  <2> QED  BY <2>2
<1>3. ASSUME NEW x \in Streams, NEW m \in DOMAIN held[x], NEW n \in DOMAIN held[x]
      PROVE  (held[x][m] - 1) \div PassLength[x] = (held[x][n] - 1) \div PassLength[x]
  <2>1. CASE m < n  BY <1>1, <2>1
  <2>2. CASE n < m  BY <1>1, <2>2
  <2>3. CASE m = n  BY <2>3
  <2> QED  BY <1>2, <2>1, <2>2, <2>3
<1> QED  BY <1>3 DEF PassesDoNotMix

\* When a presenter is gone without a stop, everything has been presented.
LEMMA WhenPresented ==
  ASSUME IInv, NEW x \in Streams, presenter[x] = "gone", ~stop
  PROVE  /\ OnTheWay(x) = sent[x] /\ sent[x] \in Seq(Nat)
         /\ Exhausted(x) /\ Line(x)
<1>1. Typed /\ Demuxing /\ Working(x) /\ Line(x)  BY DEF IInv
<1>2. framesClosed[x] /\ frames[x] = <<>> /\ InHand(x) = <<>>
  BY <1>1 DEF Working, InHand
<1>3. decoder[x] \in {"ending", "gone"} /\ flushing[x] = "processor" /\ kept[x] = <<>>
  BY <1>1, <1>2 DEF Working
<1>4. held[x] = <<>> /\ packetsClosed[x] /\ packets[x] = <<>>  BY <1>1, <1>3 DEF Working
<1>5. demux \in {"closeAudio", "ending", "gone"} /\ Exhausted(x)  BY <1>1, <1>4 DEF Demuxing
<1>6. toPush = <<>>  BY <1>1, <1>5 DEF Demuxing
<1>7. Pushing(x) = <<>>  BY <1>6 DEF Pushing
<1>8. sent[x] \in Seq(Nat)  BY <1>1, WayParts
<1>9. sent[x] \o <<>> = sent[x]  BY <1>8, EmptyEnd
<1>10. OnTheWay(x) = sent[x]
  <2>1. OnTheWay(x) = sent[x] \o <<>> \o <<>> \o <<>> \o <<>> \o <<>> \o <<>>
    BY <1>2, <1>3, <1>4, <1>7 DEF OnTheWay
  <2> QED  BY <1>9, <2>1
<1> QED  BY <1>1, <1>5, <1>8, <1>10

\* the last picture, which is the largest number in line and was never dropped,
LEMMA GivesLastPicture == ASSUME IInv PROVE LastPictureShown
<1>1. ASSUME NEW x \in Streams, presenter[x] = "gone", ~stop,
             read[x] \notin skipped[x] \union lost[x] \union {0}
      PROVE  sent[x] # <<>> /\ Last(sent[x]) = read[x]
  <2> DEFINE s == sent[x]
             r == read[x]
  <2>1. s = OnTheWay(x) /\ s \in Seq(Nat) /\ Exhausted(x) /\ Line(x)  BY <1>1, WhenPresented
  <2>2. /\ Rising(s) /\ Items(s) \subseteq 1..r /\ 1..r = Items(s) \union Off(x)
        /\ r \notin dropped[x]
    BY <1>1, <2>1 DEF Line
  <2>3. r \in Nat \ {0}
    <3>1. Typed /\ setup \in Setups  BY DEF IInv, Typed
    <3>2. Numbers \subseteq Nat \ {0}  BY <3>1, NumbersArePositive
    <3>3. r \in Numbers \union {0}  BY <3>1, TypesAt
    <3> QED  BY <1>1, <3>2, <3>3
  <2>4. r \notin Off(x)  BY <1>1, <2>2 DEF Off
  <2>5. Len(s) \in Nat /\ DOMAIN s = 1..Len(s) /\ \A i \in 1..Len(s) : s[i] \in Nat
    BY <2>1, LenProperties, ElementOfSeq
  <2> HIDE DEF s, r
  <2>6. r \in Items(s)
    <3>1. r \in 1..r  BY <2>3
    <3> QED  BY <2>2, <2>4, <3>1
  <2>7. PICK n \in DOMAIN s : s[n] = r  BY <2>6 DEF Items
  <2>8. Len(s) \in DOMAIN s /\ s # <<>>
    <3>1. Len(s) \in DOMAIN s  BY <2>5, <2>7
    <3>2. s # <<>>  BY <2>7
    <3> QED  BY <3>1, <3>2
  <2>9. s[Len(s)] = r
    <3>1. CASE n = Len(s)  BY <2>7, <3>1
    <3>2. CASE n # Len(s)
      <4>1. n < Len(s)  BY <2>5, <3>2
      <4>2. s[Len(s)] # Marker => s[n] < s[Len(s)]  BY <2>2, <2>8, <4>1 DEF Rising
      <4>3. s[Len(s)] # Marker
        <5>1. setup \in Setups /\ Typed  BY DEF IInv, Typed
        <5>2. Numbers \subseteq Nat \ {0}  BY <5>1, NumbersArePositive
        <5>3. s \in Seq(Numbers)  BY <5>1, TypesAt DEF s
        <5>4. s[Len(s)] \in Numbers  BY <2>5, <2>8, <5>3, ElementOfSeq
        <5> QED  BY <5>2, <5>4 DEF Marker
      <4>4. s[Len(s)] \in Items(s)  BY <2>8, <4>3 DEF Items
      <4>5. s[Len(s)] \in 1..r  BY <2>2, <4>4
      <4> QED  BY <2>3, <2>7, <4>2, <4>3, <4>5
    <3> QED  BY <3>1, <3>2
  <2>10. Last(s) = s[Len(s)]  BY DEF Last
  <2> QED  BY <2>8, <2>9, <2>10 DEF s, r
<1> QED  BY <1>1 DEF LastPictureShown

\* When no thread is left, every presenter is gone.
LEMMA NobodyLeft ==
  ASSUME IInv, m_running = 0, NEW x \in Streams
  PROVE  presenter[x] = "gone"
<1> DEFINE P == {y \in Streams : presenter[y] # "gone"}
           D == {y \in Streams : decoder[y] # "gone"}
<1>1. Typed /\ Counted  BY DEF IInv
<1>2. IsFiniteSet(Streams) /\ Cardinality(D) \in Nat /\ Cardinality(P) \in Nat  BY <1>1, AliveIs
<1>3. IsFiniteSet(P)  BY <1>2, FS_Subset
<1>4. 0 = Cardinality(D) + Cardinality(P) + (IF demux # "gone" THEN 1 ELSE 0)
  BY <1>1 DEF Counted, Alive
<1> HIDE DEF D, P
<1>5. Cardinality(P) = 0  BY <1>2, <1>4
<1>6. P = {}  BY <1>3, <1>5, FS_EmptySet
<1> QED  BY <1>6 DEF P

\* and what an exit status of 0 means.
LEMMA GivesCleanExit == ASSUME IInv PROVE CleanExitIsComplete
<1>1. ASSUME exit = 0, ~interrupted, NEW x \in Streams
      PROVE  Exhausted(x) /\ 1..read[x] = Items(sent[x]) \union OffTheWay(x)
  <2>1. m_error = "none" /\ m_running = 0 /\ ~stop  BY <1>1 DEF IInv, Ending
  <2>2. presenter[x] = "gone"  BY <2>1, NobodyLeft
  <2>3. OnTheWay(x) = sent[x] /\ Exhausted(x) /\ Line(x)  BY <2>1, <2>2, WhenPresented
  <2>4. Off(x) = OffTheWay(x)  BY <2>3 DEF Line, Off, OffTheWay
  <2> QED  BY <2>1, <2>3, <2>4 DEF Line
<1> QED  BY <1>1 DEF CleanExitIsComplete

\* Whatever the setup, no queue holds more than its capacity, no decoder or processor more
\* than its delay and one frame, and m_running is the number of threads that are left.
THEOREM TypesHold == Spec => []TypeOK
BY StateIsConsistent, GivesTypes, PTL

\* Between the demuxer and the network no thread overtakes or doubles a frame.  Until a stop,
\* every packet read is in a queue, in a thread's hands, sent, or counted as shed, where the
\* read, the decoder and the filters give none up; where they do, the rest is, and what they
\* gave up is all that is missing.
THEOREM NothingIsLost == Spec => []Conveyor
BY StateIsConsistent, GivesConveyor, PTL

\* DecodeLoop never holds frames of two passes of a looped input at once, because the
\* marker that Restart pushes is popped and drained first.
THEOREM PassesStayApart == Spec => []PassesDoNotMix
BY StateIsConsistent, GivesPasses, PTL

\* Late frames are dropped only when something newer is behind them, so when a presenter
\* has left without a stop, the last frame it sent is the last packet of its stream,
\* unless that was skipped up to a keyframe or given up by the read, the decoder or a filter.
THEOREM LastPictureIsShown == Spec => []LastPictureShown
BY StateIsConsistent, GivesLastPicture, PTL

\* When main returns 0 and no signal came, all of the input was read, and every packet was
\* sent, counted as shed or, on a damaged input only, given up by the read, the decoder or a
\* filter: no thread left early without keeping an error.
THEOREM CleanExitsAreComplete == Spec => []CleanExitIsComplete
BY StateIsConsistent, GivesCleanExit, PTL
-----------------------------------------------------------------------------
\* Who has left its loop without a stop has closed its queues first.  IInv says it the
\* other way round: of a closed queue, where its owner is.
Handover ==
    /\ demux = "closeAudio" => \A x \in Streams \ {"audio"} : packetsClosed[x]
    /\ (demux \in {"ending", "gone"} /\ ~stop) => \A x \in Streams : packetsClosed[x]
    /\ \A x \in Streams : (decoder[x] \in {"ending", "gone"} /\ ~stop) => framesClosed[x]

\* A thread that leaves nothing of this behind does not disturb it.
LEMMA HandoverRests ==
  ASSUME Handover, UNCHANGED <<setup, packetsClosed, framesClosed, demux, decoder>>, stop => stop'
  PROVE  Handover'
BY SetupKept DEF Handover

\* The demuxer closes the video's queue, then the audio's, and skips both only when it stops
\* everybody.
LEMMA DemuxHandsOver ==
  ASSUME Typed, Handover, Demux(DemuxWorks) \/ Demux(ReadPacket) \/ Demux(ReadBreaksOff) \/ Demux(ReadThrows)
  PROVE  Handover'
<1>1. setup' = setup /\ UNCHANGED <<framesClosed, decoder>>  BY DEF Demux, decodeVars, mainVars
<1>2. Streams' = Streams /\ Streams \in SUBSET {"video", "audio"}
  BY <1>1, SetupKept, SetupIs DEF Typed
<1>3. packetsClosed \in [Streams -> BOOLEAN]  BY DEF Typed
<1>4. SUFFICES /\ stop => stop'
               /\ demux' = "closeAudio" => \A x \in Streams \ {"audio"} : packetsClosed'[x]
               /\ (demux' \in {"ending", "gone"} /\ ~stop') => \A x \in Streams : packetsClosed'[x]
  BY <1>1, <1>2 DEF Handover
<1>5. CASE DemuxTop \/ ReadNothing \/ EndOfPass \/ PushPacket \/ ReadPacket \/ ReadBreaksOff
  <2>1. demux' \notin {"closeAudio", "ending", "gone"} /\ stop' = stop
    BY <1>5 DEF DemuxTop, ReadNothing, EndOfPass, PushPacket, ReadPacket, ReadBreaksOff
  <2> QED  BY <2>1
<1>6. CASE ReadThrows  BY <1>6 DEF ReadThrows, Fail
<1>7. CASE DemuxEnds  BY <1>7 DEF DemuxEnds, Handover
<1>8. CASE ClosePackets("video", "closeVideo", "closeAudio")
  BY <1>2, <1>3, <1>8 DEF ClosePackets
<1>9. CASE ClosePackets("audio", "closeAudio", "ending")
  BY <1>2, <1>3, <1>9 DEF ClosePackets, Handover
<1> QED  BY <1>5, <1>6, <1>7, <1>8, <1>9 DEF Demux, DemuxWorks

\* A decoder closes its queue, and skips it only when it stops everybody.
LEMMA DecodeHandsOver ==
  ASSUME Typed, Handover, NEW x \in Streams, Decode(DecoderWorks(x)) \/ Decode(DecoderThrows(x))
  PROVE  Handover'
<1>1. setup' = setup /\ UNCHANGED <<packetsClosed, demux>>  BY DEF Decode, demuxVars, mainVars
<1>2. Streams' = Streams  BY <1>1, SetupKept
<1>3. /\ decoder \in [Streams -> DecoderPlaces] /\ framesClosed \in [Streams -> BOOLEAN]
  BY SMTT(30) DEF Typed
<1>4. SUFFICES /\ stop => stop'
               /\ \A y \in Streams :
                    (decoder'[y] \in {"ending", "gone"} /\ ~stop') => framesClosed'[y]
  BY <1>1, <1>2 DEF Handover
<1>5. CASE DecoderPops(x)
  <2>1. UNCHANGED <<stop, framesClosed>> /\ (decoder' = decoder \/ At(x, "drain"))
    BY <1>5 DEF DecoderPops
  <2> QED  BY <1>3, <2>1 DEF At, Handover
<1>6. CASE DecoderFinds(x) \/ DecoderReceives(x) \/ DecoderGoesOn(x) \/ ProcessorFlushes(x)
           \/ PushFrame(x)
  <2>1. UNCHANGED <<stop, framesClosed>>
    BY <1>6 DEF DecoderFinds, DecoderReceives, DecoderGoesOn, ProcessorFlushes, PushFrame
  <2>2. \E p \in {"pop", "drain", "push", "closing"} : At(x, p)
    BY <1>6 DEF DecoderFinds, DecoderReceives, DecoderGoesOn, ProcessorFlushes, PushFrame, AfterPush
  <2> QED  BY <1>3, <2>1, <2>2 DEF At, Handover
<1>7. CASE DecoderThrows(x)  BY <1>7 DEF DecoderThrows, Fail
<1>8. CASE CloseFrames(x)  BY <1>3, <1>8 DEF CloseFrames, At, Handover
<1>9. CASE DecoderEnds(x)  BY <1>3, <1>9 DEF DecoderEnds, At, Handover
<1>10. CASE DecoderFails(x)
  <2>1. UNCHANGED <<stop, framesClosed, decoder>>  BY <1>10 DEF DecoderFails
  <2> QED  BY <1>1, <1>2, <2>1 DEF Handover
<1> QED  BY <1>5, <1>6, <1>7, <1>8, <1>9, <1>10 DEF Decode, DecoderWorks

\* The steps together.
LEMMA HandoverKept == ASSUME IInv, Handover, [Next]_vars PROVE Handover'
<1>1. Typed /\ \A x \in Streams : Stream(x)  BY DEF IInv, Stream
<1>2. CASE Demux(DemuxWorks) \/ Demux(ReadPacket) \/ Demux(ReadBreaksOff) \/ Demux(ReadThrows)
  BY <1>1, <1>2, DemuxHandsOver
<1>3. ASSUME NEW x \in Streams, Decode(DecoderWorks(x)) \/ Decode(DecoderThrows(x))
      PROVE  Handover'
  BY <1>1, <1>3, DecodeHandsOver
<1>4. ASSUME NEW x \in Streams, Present(PresenterWorks(x)) \/ Present(PresenterDrops(x))
      PROVE  Handover'
  <2>1. UNCHANGED <<setup, stop, packetsClosed, framesClosed, demux, decoder>>
    BY <1>4 DEF Present, demuxVars, decodeVars, mainVars
  <2> QED  BY <2>1, HandoverRests
<1>5. CASE (exit = NotYet /\ (Signal \/ ForceExit)) \/ MainStep \/ UNCHANGED vars
  <2>1. UNCHANGED <<setup, packetsClosed, framesClosed, demux, decoder>> /\ (stop => stop')
    BY <1>5 DEF Signal, ForceExit, MainStep, SignalStops, MainReturns, pipeVars, vars, mainVars,
                demuxVars, decodeVars
  <2> QED  BY <2>1, HandoverRests
<1>6. Exited => UNCHANGED vars  BY DEF Exited
<1> QED  BY <1>2, <1>3, <1>4, <1>5, <1>6 DEF Next

\* Each kind of wait is for a thread that still is in its loop.
LEMMA WaitsAreAnswered ==
  ASSUME IInv, Handover, NEW x \in Streams
  PROVE  /\ DemuxWaits(x) => decoder[x] \notin {"closing", "ending", "gone"}
         /\ WaitsForPacket(x) => demux \notin {"ending", "gone"}
         /\ WaitsForRoom(x) => presenter[x] \notin {"leaving", "gone"}
         /\ PresenterWaits(x) => decoder[x] \notin {"ending", "gone"}
<1>1. Demuxing /\ Working(x)  BY DEF IInv
<1>2. DemuxWaits(x) => decoder[x] \notin {"closing", "ending", "gone"}
  <2> SUFFICES ASSUME demux = "push", ~stop, decoder[x] \in {"closing", "ending", "gone"}
               PROVE  FALSE
    BY DEF DemuxWaits
  <2>1. packetsClosed[x]  BY <1>1 DEF Working
  <2> QED  BY <1>1, <2>1 DEF Demuxing
<1>3. WaitsForPacket(x) => demux \notin {"ending", "gone"}  BY DEF WaitsForPacket, Handover
<1>4. WaitsForRoom(x) => presenter[x] \notin {"leaving", "gone"}
  BY <1>1 DEF WaitsForRoom, Working
<1>5. PresenterWaits(x) => decoder[x] \notin {"ending", "gone"}  BY DEF PresenterWaits, Handover
<1> QED  BY <1>2, <1>3, <1>4, <1>5

\* When a thread is left, it is the demuxer or one of a stream.
LEMMA SomebodyLeft ==
  ASSUME IInv, m_running > 0
  PROVE  demux # "gone" \/ \E x \in Streams : decoder[x] # "gone" \/ presenter[x] # "gone"
<1> SUFFICES ASSUME demux = "gone", \A x \in Streams : decoder[x] = "gone" /\ presenter[x] = "gone"
             PROVE  FALSE
  OBVIOUS
<1>1. /\ {x \in Streams : decoder[x] # "gone"} = {} /\ {x \in Streams : presenter[x] # "gone"} = {}
  OBVIOUS
<1>2. m_running = 0  BY <1>1, FS_EmptySet DEF IInv, Counted, Alive
<1> QED  BY <1>2

\* Follow the waits from the presenters to the demuxer and on to the decoder it waits for:
\* there, frames and packets would have to be both there and not.
LEMMA TheyNeverAllWait == ASSUME IInv, Handover, m_running > 0 PROVE SomebodyWorks
<1> SUFFICES ASSUME ~SomebodyWorks PROVE FALSE
  OBVIOUS
<1>1. /\ Typed /\ Demuxing /\ \A x \in Streams : Working(x) /\ Room(x)
      /\ PacketCapacity \in Nat \ {0} /\ FrameCapacity \in Nat \ {0} /\ Streams # {}
  BY SetupIs DEF IInv, Typed
<1>2. /\ demux = "gone" \/ \E x \in Streams : DemuxWaits(x)
      /\ \A x \in Streams : decoder[x] = "gone" \/ WaitsForPacket(x) \/ WaitsForRoom(x)
      /\ \A x \in Streams : presenter[x] = "gone" \/ PresenterWaits(x)
  BY DEF SomebodyWorks
<1>3. ~stop
  <2> SUFFICES ASSUME stop PROVE FALSE
    OBVIOUS
  <2>1. demux = "gone" /\ \A x \in Streams : decoder[x] = "gone" /\ presenter[x] = "gone"
    BY <1>2 DEF DemuxWaits, WaitsForPacket, WaitsForRoom, PresenterWaits
  <2> QED  BY <2>1, SomebodyLeft
<1>4. \A x \in Streams : decoder[x] = "gone" \/ WaitsForPacket(x)
  <2> SUFFICES ASSUME NEW x \in Streams, WaitsForRoom(x) PROVE FALSE
    BY <1>2
  <2>1. presenter[x] # "gone"  BY WaitsAreAnswered
  <2>2. frames[x] = <<>>  BY <1>2, <2>1 DEF PresenterWaits
  <2>3. Len(frames[x]) # 0  BY <1>1 DEF WaitsForRoom
  <2> QED  BY <2>2, <2>3
<1>5. \A x \in Streams : ~DemuxWaits(x)
  <2> SUFFICES ASSUME NEW x \in Streams, DemuxWaits(x) PROVE FALSE
    OBVIOUS
  <2>1. decoder[x] # "gone"  BY WaitsAreAnswered
  <2>2. packets[x] = <<>>  BY <1>4, <2>1 DEF WaitsForPacket
  <2>3. Len(packets[x]) # 0  BY <1>1 DEF DemuxWaits
  <2> QED  BY <2>2, <2>3
<1>6. demux = "gone"  BY <1>2, <1>5
<1>7. \A x \in Streams : decoder[x] = "gone"  BY <1>4, <1>6, WaitsAreAnswered
<1>8. \A x \in Streams : presenter[x] = "gone"  BY <1>2, <1>7, WaitsAreAnswered
<1> QED  BY <1>6, <1>7, <1>8, SomebodyLeft

\* What there is of the waits in a reachable state.
LEMMA GivesNobodyAbandoned == ASSUME IInv, Handover PROVE NobodyIsAbandoned
BY WaitsAreAnswered, TheyNeverAllWait DEF NobodyIsAbandoned

\* Whatever the capacities, delays and failures, a thread that waits for room or for an item
\* waits for one that has yet to come back to its queue, and never do all that are left wait
\* for each other.
THEOREM NobodyWaitsForTheGone == Spec => []NobodyIsAbandoned
<1>1. Init => Handover  BY DEF Init, Handover
<1>2. IInv /\ Handover /\ [Next]_vars => Handover'  BY HandoverKept
<1>3. IInv /\ Handover => NobodyIsAbandoned  BY GivesNobodyAbandoned
<1> QED  BY <1>1, <1>2, <1>3, StateIsConsistent, PTL DEF Spec, Safety
=============================================================================
