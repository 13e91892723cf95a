----------------------------- MODULE StartupProofs -----------------------------
(***************************************************************************)
(* For every command line and everything the program may find: how the      *)
(* process ends, and in which order it is taken down.                       *)
(***************************************************************************)
EXTENDS Startup, TLAPS

Members == {"runtime", "input", "videoDecoder", "videoProcessor", "audioDecoder",
            "audioProcessor", "sender"}
Places == {"parse", "runtime", "input", "select", "videoDecoder", "videoProcessor",
           "audioDecoder", "sender", "start", "wait", "destroy", "exited"}

In(m, s) == \E i \in DOMAIN s : s[i] = m

\* The order of construction: the runtime comes first, and a processor behind its
\* decoder, so that destroying from the end never takes what is still in use.
Ordered(s) ==
    /\ s \in Seq(Members)
    /\ \A i \in DOMAIN s : s[i] = "runtime" <=> i = 1
    /\ \A i \in DOMAIN s : s[i] = "videoProcessor" =>
          \E j \in DOMAIN s : j < i /\ s[j] = "videoDecoder"

Types ==
    /\ world \in Worlds
    /\ place \in Places
    /\ status \in {-1, 0, 1, 2, 130}
    /\ error \in {"none", "real", "interrupted"} /\ m_error \in {"none", "real"}
    /\ running \in BOOLEAN /\ stop \in BOOLEAN /\ g_interrupted \in BOOLEAN
    /\ signalThread \in {"wait", "flag", "stop"}
    /\ tried \in Nat /\ initialized \in Nat /\ destroyed \in Nat

\* What there is at each place.
Construction ==
    /\ Ordered(built)
    /\ initialized = IF built = <<>> THEN destroyed ELSE destroyed + 1
    /\ place \in {"parse", "runtime"} => built = <<>>
    /\ place = "parse" => tried = 0
    /\ place \in {"input", "select"} => built # <<>>
    /\ place \in {"videoDecoder", "videoProcessor", "audioDecoder", "sender", "start", "wait"} =>
          built # <<>> /\ In("input", built)
    /\ place = "videoProcessor" => In("videoDecoder", built)
    /\ place \in {"start", "wait"} => In("sender", built)
    /\ running => place \in {"wait", "exited"} /\ In("sender", built) /\ In("input", built)
    /\ status \in {0, 1, 2} => built = <<>> /\ place = "exited"

\* Who may have requested a stop, and what an exception may stand for.
Interruption ==
    /\ signalThread = "stop" => g_interrupted
    /\ stop => g_interrupted \/ place \in {"wait", "destroy", "exited"}
    /\ error = "interrupted" => g_interrupted
    /\ place \in {"parse", "runtime", "input"} => error = "none"
    /\ status \in {0, 1, 2} => place = "exited"
    /\ status = 1 => error = "real"
    /\ (status = 0 /\ error # "none") => g_interrupted
    /\ status = 2 => built = <<>> /\ tried = 0

IInv == Types /\ Construction /\ Interruption
-----------------------------------------------------------------------------
LEMMA HasIsIn == \A m : Has(m) <=> In(m, built)
BY DEF Has, In

LEMMA OneMore ==
  ASSUME NEW s, Ordered(s), NEW m \in Members,
         m = "runtime" <=> s = <<>>,
         m = "videoProcessor" => In("videoDecoder", s)
  PROVE  /\ Ordered(Append(s, m)) /\ Append(s, m) # <<>>
         /\ \A x : In(x, Append(s, m)) <=> In(x, s) \/ x = m
<1> DEFINE t == Append(s, m)
<1>1. s \in Seq(Members) /\ Len(s) \in Nat /\ DOMAIN s = 1..Len(s)  BY DEF Ordered
<1>2. /\ t \in Seq(Members) /\ Len(t) = Len(s) + 1 /\ DOMAIN t = 1..(Len(s) + 1)
      /\ t[Len(s) + 1] = m /\ \A i \in 1..Len(s) : t[i] = s[i]
  BY <1>1
<1> HIDE DEF t
<1>3. s = <<>> <=> Len(s) = 0  BY <1>1
<1>4. \A i \in DOMAIN t : t[i] = "runtime" <=> i = 1
  <2> TAKE i \in DOMAIN t
  <2>1. CASE i \in 1..Len(s)  BY <2>1, <1>1, <1>2 DEF Ordered
  <2>2. CASE i = Len(s) + 1  BY <2>2, <1>1, <1>2, <1>3
  <2> QED  BY <2>1, <2>2, <1>1, <1>2
<1>5. \A i \in DOMAIN t : t[i] = "videoProcessor" => \E j \in DOMAIN t : j < i /\ t[j] = "videoDecoder"
  <2> TAKE i \in DOMAIN t
  <2> HAVE t[i] = "videoProcessor"
  <2>1. CASE i \in 1..Len(s)
    <3>1. PICK j \in DOMAIN s : j < i /\ s[j] = "videoDecoder"  BY <2>1, <1>1, <1>2 DEF Ordered
    <3> QED  BY <3>1, <1>1, <1>2
  <2>2. CASE i = Len(s) + 1
    <3>1. PICK j \in DOMAIN s : s[j] = "videoDecoder"  BY <2>2, <1>2 DEF In
    <3> QED  BY <3>1, <2>2, <1>1, <1>2
  <2> QED  BY <2>1, <2>2, <1>1, <1>2
<1>6. \A x : In(x, t) <=> In(x, s) \/ x = m
  <2> TAKE x
  <2>1. In(x, t) => In(x, s) \/ x = m  BY <1>1, <1>2 DEF In
  <2>2. In(x, s) => In(x, t)  BY <1>1, <1>2 DEF In
  <2>3. x = m => In(x, t)  BY <1>1, <1>2 DEF In
  <2> QED  BY <2>1, <2>2, <2>3
<1>7. t # <<>>  BY <1>1, <1>2
<1> QED  BY <1>2, <1>4, <1>5, <1>6, <1>7 DEF Ordered, t

LEMMA OneLess ==
  ASSUME NEW s, Ordered(s), s # <<>>
  PROVE  LET t == SubSeq(s, 1, Len(s) - 1)
         IN  Ordered(t) /\ (In("runtime", s) /\ ~In("runtime", t) <=> t = <<>>)
<1> DEFINE t == SubSeq(s, 1, Len(s) - 1)
<1>1. s \in Seq(Members) /\ Len(s) \in Nat \ {0} /\ DOMAIN s = 1..Len(s)  BY DEF Ordered
<1>2. /\ t \in Seq(Members) /\ Len(t) = Len(s) - 1 /\ DOMAIN t = 1..(Len(s) - 1)
      /\ \A i \in 1..(Len(s) - 1) : t[i] = s[i]
  BY <1>1
<1> HIDE DEF t
<1>3. t = <<>> <=> Len(s) = 1  BY <1>1, <1>2
<1>4. \A i \in DOMAIN t : t[i] = "runtime" <=> i = 1  BY <1>1, <1>2 DEF Ordered
<1>5. \A i \in DOMAIN t : t[i] = "videoProcessor" => \E j \in DOMAIN t : j < i /\ t[j] = "videoDecoder"
  <2> TAKE i \in DOMAIN t
  <2> HAVE t[i] = "videoProcessor"
  <2>1. PICK j \in DOMAIN s : j < i /\ s[j] = "videoDecoder"  BY <1>1, <1>2 DEF Ordered
  <2> QED  BY <2>1, <1>1, <1>2
<1>6. In("runtime", s)  BY <1>1 DEF Ordered, In
<1>7. In("runtime", t) <=> Len(s) > 1  BY <1>1, <1>2, <1>4 DEF In
<1> QED  BY <1>1, <1>2, <1>3, <1>4, <1>5, <1>6, <1>7 DEF Ordered, t
-----------------------------------------------------------------------------
LEMMA InitHolds == Init => IInv
<1> SUFFICES ASSUME Init PROVE IInv  OBVIOUS
<1>1. Types  BY DEF Init, Types, Places
<1>2. Ordered(built)
  <2>1. built = <<>>  BY DEF Init
  <2>2. built \in Seq(Members) /\ DOMAIN built = {}  BY <2>1
  <2> QED  BY <2>2 DEF Ordered
<1>3. Construction  BY <1>2 DEF Init, Construction
<1>4. Interruption  BY DEF Init, Interruption
<1> QED  BY <1>1, <1>3, <1>4 DEF IInv

LEMMA ParsesEffect ==
  ASSUME Parses
  PROVE  \/ status' \in {0, 2} /\ place' = "exited"
         \/ place' = "runtime" /\ UNCHANGED status
<1>1. ParseOutcome \in {"ExitSuccess", "ExitError", "Run"}  BY DEF ParseOutcome
<1>2. CASE ParseOutcome = "ExitSuccess"  BY <1>2 DEF Parses, Exits
<1>3. CASE ParseOutcome = "ExitError"  BY <1>3 DEF Parses, Exits
<1>4. CASE ParseOutcome = "Run"  BY <1>4 DEF Parses
<1> QED  BY <1>1, <1>2, <1>3, <1>4

LEMMA LoadsEffect ==
  ASSUME LoadsRuntime, Types
  PROVE  \/ UNCHANGED <<place, built, error, initialized>>
         \/ Throws("real") /\ UNCHANGED <<built, initialized>>
         \/ /\ initialized' = initialized + 1 /\ Makes("runtime")
            /\ place' = "input" /\ UNCHANGED error
<1>1. Candidates \in Seq(Library)
  BY StartupAssumption DEF Types, World, Candidates
<1>2. tried \in Nat /\ tried < Len(Candidates)  BY DEF LoadsRuntime, Types
<1>3. Candidates[tried + 1] \in Library
  <2> HIDE DEF Candidates, Library
  <2> QED  BY <1>1, <1>2
<1>4. CASE Candidates[tried + 1] \in {"absent", "broken"}  BY <1>4 DEF LoadsRuntime
<1>5. CASE Candidates[tried + 1] \in {"incomplete", "unsupported", "dead"}  BY <1>5 DEF LoadsRuntime
<1>6. CASE Candidates[tried + 1] = "good"  BY <1>6 DEF LoadsRuntime
<1> QED  BY <1>3, <1>4, <1>5, <1>6 DEF Library

LEMMA TypesKept == IInv /\ [Next]_vars => Types'
<1> SUFFICES ASSUME IInv, [Next]_vars PROVE Types'  OBVIOUS
<1> USE DEF IInv, Types
<1>1. CASE Parses
  <2>1. UNCHANGED <<choices, members, running, m_error, error, signals, stop>>  BY <1>1 DEF Parses
  <2> QED  BY <1>1, <2>1, ParsesEffect DEF choices, members, signals, Places
<1>2. CASE LoadsRuntime
  <2>1. tried' = tried + 1 /\ UNCHANGED destroyed /\ Quiet  BY <1>2 DEF LoadsRuntime
  <2> QED  BY <1>2, <2>1, LoadsEffect DEF Throws, Quiet, choices, signals, Places
<1>3. CASE FindsNoRuntime \/ OpensInput \/ FailsToOpen \/ InterruptsOpening
  BY <1>3 DEF FindsNoRuntime, OpensInput, FailsToOpen, InterruptsOpening, Throws, Quiet,
     members, choices, signals, Places
<1>4. CASE SelectsStreams
  BY <1>4 DEF SelectsStreams, Throws, Makes, Quiet, choices, signals, Places
<1>5. CASE MakesVideoDecoder \/ MakesVideoProcessor \/ MakesAudioDecoder \/ MakesSender
  BY <1>5 DEF MakesVideoDecoder, MakesVideoProcessor, MakesAudioDecoder, MakesSender, Throws,
     Makes, Quiet, choices, signals, Places
<1>6. CASE Starts \/ Waits
  BY <1>6 DEF Starts, Waits, members, choices, signals, Places
<1>7. CASE Destroys
  BY <1>7 DEF Destroys, Quiet, choices, signals
<1>8. CASE Returns
  BY <1>8 DEF Returns, Exits, members, choices, signals, Places
<1>9. CASE ThreadsEnd \/ ThreadFails
  BY <1>9 DEF ThreadsEnd, ThreadFails, members, choices, signals
<1>10. CASE Signal \/ TakesSignal \/ HandlesSignal
  BY <1>10 DEF Signal, TakesSignal, HandlesSignal, MarksThenStops, Exits, members, choices, Places
<1>11. CASE Exited \/ UNCHANGED vars
  BY <1>11 DEF Exited, vars, members, choices, signals
<1> QED  BY ONLY [Next]_vars, <1>1, <1>2, <1>3, <1>4, <1>5, <1>6, <1>7, <1>8, <1>9, <1>10, <1>11
         DEF Next, Main

\* A step that makes nothing, destroys nothing and ends nothing.
LEMMA NothingMade ==
  ASSUME Construction, UNCHANGED <<built, initialized, destroyed>>
  PROVE  Ordered(built)' /\ initialized' = (IF built' = <<>> THEN destroyed' ELSE destroyed' + 1)
BY DEF Construction, Ordered

LEMMA ConstructionKept == IInv /\ [Next]_vars => Construction'
<1> SUFFICES ASSUME IInv, [Next]_vars PROVE Construction'  OBVIOUS
<1> USE DEF IInv
<1>1. CASE Parses
  <2>1. UNCHANGED <<members, running>> /\ place = "parse"  BY <1>1 DEF Parses
  <2>2. Ordered(built)' /\ initialized' = (IF built' = <<>> THEN destroyed' ELSE destroyed' + 1)
    BY <2>1, NothingMade DEF members
  <2>3. built = <<>> /\ tried = 0 /\ ~running /\ status \notin {0, 1, 2}
    BY <2>1 DEF Construction
  <2> QED  BY <1>1, <2>1, <2>2, <2>3, ParsesEffect DEF Construction, members
<1>2. CASE LoadsRuntime
  <2>1. built = <<>> /\ ~running /\ status \notin {0, 1, 2} /\ initialized = destroyed
    BY <1>2 DEF Construction, LoadsRuntime
  <2>2. UNCHANGED <<running, status, destroyed>>  BY <1>2 DEF LoadsRuntime, Quiet
  <2>3. CASE UNCHANGED <<built, initialized>>
    <3>1. place' \in {"runtime", "destroy"}
      <4>1. CASE initialized' = initialized + 1  BY <4>1, <2>3 DEF Types
      <4> QED  BY <1>2, <4>1, LoadsEffect DEF LoadsRuntime, Throws
    <3>2. Ordered(built)' /\ initialized' = (IF built' = <<>> THEN destroyed' ELSE destroyed' + 1)
      BY <2>2, <2>3, NothingMade
    <3> QED  BY <2>1, <2>2, <2>3, <3>1, <3>2 DEF Construction
  <2>4. CASE place' = "input" /\ Makes("runtime") /\ initialized' = initialized + 1
    <3>1. Ordered(built') /\ built' # <<>>
      BY <2>1, <2>4, OneMore DEF Makes, Members, Construction
    <3>2. initialized' = destroyed' + 1  BY <2>1, <2>2, <2>4
    <3> QED  BY <2>1, <2>2, <2>4, <3>1, <3>2 DEF Construction
  <2> QED  BY <1>2, <2>3, <2>4, LoadsEffect
<1>3. CASE FindsNoRuntime \/ OpensInput \/ FailsToOpen \/ InterruptsOpening
  <2>1. UNCHANGED <<members, running, status>> /\ ~running
    BY <1>3 DEF FindsNoRuntime, OpensInput, FailsToOpen, InterruptsOpening, Quiet, Construction
  <2>2. place' \in {"select", "destroy"} /\ (place' = "select" => place = "input")
    BY <1>3 DEF FindsNoRuntime, OpensInput, FailsToOpen, InterruptsOpening, Throws
  <2>3. status \notin {0, 1, 2}
    BY <1>3 DEF FindsNoRuntime, OpensInput, FailsToOpen, InterruptsOpening, Construction
  <2>4. Ordered(built)' /\ initialized' = (IF built' = <<>> THEN destroyed' ELSE destroyed' + 1)
    BY <2>1, NothingMade DEF members
  <2> QED  BY <2>1, <2>2, <2>3, <2>4 DEF Construction, members
<1>4. CASE SelectsStreams
  <2>1. /\ built # <<>> /\ ~running /\ status \notin {0, 1, 2} /\ Ordered(built)
        /\ initialized = destroyed + 1
    BY <1>4 DEF Construction, SelectsStreams
  <2>2. UNCHANGED <<running, status, initialized, destroyed>>  BY <1>4 DEF SelectsStreams, Quiet
  <2>3. CASE place' = "destroy" /\ UNCHANGED built
    <3>1. Ordered(built)'  BY <2>1, <2>3 DEF Ordered
    <3> QED  BY <2>1, <2>2, <2>3, <3>1 DEF Construction
  <2>4. CASE place' = "videoDecoder" /\ Makes("input")
    <3>1. Ordered(built') /\ built' # <<>> /\ In("input", built')
      BY <2>1, <2>4, OneMore DEF Makes, Members
    <3> QED  BY <2>1, <2>2, <2>4, <3>1 DEF Construction
  <2> QED  BY <1>4, <2>3, <2>4 DEF SelectsStreams, Throws
<1>5. CASE MakesVideoDecoder \/ MakesVideoProcessor \/ MakesAudioDecoder \/ MakesSender
  <2>1. /\ built # <<>> /\ ~running /\ status \notin {0, 1, 2} /\ Ordered(built)
        /\ initialized = destroyed + 1 /\ In("input", built)
        /\ place = "videoProcessor" => In("videoDecoder", built)
    BY <1>5 DEF Construction, MakesVideoDecoder, MakesVideoProcessor, MakesAudioDecoder, MakesSender
  <2>2. UNCHANGED <<running, status, initialized, destroyed>>
    BY <1>5 DEF MakesVideoDecoder, MakesVideoProcessor, MakesAudioDecoder, MakesSender, Quiet
  <2>3. CASE UNCHANGED built /\ place' \in {"destroy", "audioDecoder", "sender"}
    <3>1. Ordered(built)'  BY <2>1, <2>3 DEF Ordered
    <3> QED  BY <2>1, <2>2, <2>3, <3>1 DEF Construction
  <2>4. CASE Makes("videoDecoder") /\ place' = "videoProcessor"
    <3>1. Ordered(built') /\ built' # <<>> /\ In("input", built') /\ In("videoDecoder", built')
      BY <2>1, <2>4, OneMore DEF Makes, Members
    <3> QED  BY <2>1, <2>2, <2>4, <3>1 DEF Construction
  <2>5. CASE Makes("videoProcessor") /\ place' = "audioDecoder" /\ place = "videoProcessor"
    <3>1. Ordered(built') /\ built' # <<>> /\ In("input", built')
      BY <2>1, <2>5, OneMore DEF Makes, Members
    <3> QED  BY <2>1, <2>2, <2>5, <3>1 DEF Construction
  <2>6. CASE built' = built \o <<"audioDecoder", "audioProcessor">> /\ place' = "sender"
    <3> DEFINE s == Append(built, "audioDecoder")
    <3>1. Ordered(s) /\ s # <<>> /\ In("input", s)  BY <2>1, OneMore DEF Members
    <3>2. built' = Append(s, "audioProcessor")  BY <2>1, <2>6 DEF Ordered
    <3> HIDE DEF s
    <3>3. Ordered(built') /\ built' # <<>> /\ In("input", built')
      BY <3>1, <3>2, OneMore DEF Members
    <3> QED  BY <2>1, <2>2, <2>6, <3>3 DEF Construction
  <2>7. CASE Makes("sender") /\ place' = "start"
    <3>1. Ordered(built') /\ built' # <<>> /\ In("input", built') /\ In("sender", built')
      BY <2>1, <2>7, OneMore DEF Makes, Members
    <3> QED  BY <2>1, <2>2, <2>7, <3>1 DEF Construction
  <2>8. CASE MakesVideoDecoder  BY <2>8, <2>3, <2>4 DEF MakesVideoDecoder, Throws
  <2>9. CASE MakesVideoProcessor  BY <2>9, <2>5 DEF MakesVideoProcessor
  <2>10. CASE MakesAudioDecoder  BY <2>10, <2>3, <2>6 DEF MakesAudioDecoder, Throws
  <2>11. CASE MakesSender  BY <2>11, <2>3, <2>7 DEF MakesSender, Throws
  <2> QED  BY <1>5, <2>8, <2>9, <2>10, <2>11
<1>6. CASE Starts \/ Waits \/ ThreadsEnd \/ ThreadFails \/ Signal \/ HandlesSignal
           \/ Exited \/ UNCHANGED vars
  <2>1. UNCHANGED <<members, status>>
    BY <1>6 DEF Starts, Waits, ThreadsEnd, ThreadFails, Signal, HandlesSignal, Exited, vars
  <2>2. \/ place = "start" /\ place' = "wait"
        \/ place = "wait" /\ place' = "destroy" /\ ~running'
        \/ place' = place /\ (running' => running)
    BY <1>6 DEF Types, Starts, Waits, ThreadsEnd, ThreadFails, Signal, HandlesSignal, Exited, vars
  <2>3. Ordered(built)' /\ initialized' = (IF built' = <<>> THEN destroyed' ELSE destroyed' + 1)
    BY <2>1, NothingMade DEF members
  <2> QED  BY <2>1, <2>2, <2>3 DEF Construction, members
<1>7. CASE Destroys
  <2> DEFINE t == SubSeq(built, 1, Len(built) - 1)
  <2>1. /\ built # <<>> /\ ~running /\ status \notin {0, 1, 2} /\ Ordered(built)
        /\ initialized = destroyed + 1 /\ place = "destroy"
    BY <1>7 DEF Construction, Destroys
  <2>2. UNCHANGED <<running, status, initialized, place>>  BY <1>7 DEF Destroys, Quiet
  <2>3. built' = t  BY <1>7 DEF Destroys, DestroysLast
  <2>4. Ordered(t) /\ (In("runtime", built) /\ ~In("runtime", t) <=> t = <<>>)
    BY <2>1, OneLess
  <2> HIDE DEF t
  <2>5. destroyed' = IF In("runtime", built) /\ ~In("runtime", t) THEN destroyed + 1 ELSE destroyed
    BY <1>7, <2>3 DEF Destroys, Has, In
  <2>6. initialized' = IF built' = <<>> THEN destroyed' ELSE destroyed' + 1
    BY <2>1, <2>2, <2>3, <2>4, <2>5
  <2> QED  BY <2>1, <2>2, <2>3, <2>4, <2>6 DEF Construction
<1>8. CASE Returns
  <2>1. Ordered(built)' /\ initialized' = (IF built' = <<>> THEN destroyed' ELSE destroyed' + 1)
    BY <1>8, NothingMade DEF Returns, members
  <2> QED  BY <1>8, <2>1 DEF Construction, Returns, Exits, members
<1>9. CASE TakesSignal
  <2>1. Ordered(built)' /\ initialized' = (IF built' = <<>> THEN destroyed' ELSE destroyed' + 1)
    BY <1>9, NothingMade DEF TakesSignal, members
  <2>2. UNCHANGED <<members, running>>  BY <1>9 DEF TakesSignal
  <2>3. CASE UNCHANGED <<place, status>>  BY <2>1, <2>2, <2>3 DEF Construction, members
  <2>4. CASE place' = "exited" /\ status' = 130  BY <2>1, <2>2, <2>4 DEF Construction, members
  <2> QED  BY <1>9, <2>3, <2>4 DEF TakesSignal, Exits
<1> QED  BY ONLY [Next]_vars, <1>1, <1>2, <1>3, <1>4, <1>5, <1>6, <1>7, <1>8, <1>9
         DEF Next, Main

LEMMA InterruptionKept == IInv /\ [Next]_vars => Interruption'
<1> SUFFICES ASSUME IInv, [Next]_vars PROVE Interruption'  OBVIOUS
<1> USE DEF IInv, Interruption
<1>1. CASE Parses
  <2>1. UNCHANGED <<members, error, signals, stop>> /\ place = "parse"  BY <1>1 DEF Parses
  <2>2. built = <<>> /\ tried = 0 /\ error = "none"  BY <2>1 DEF Construction
  <2> QED  BY <1>1, <2>1, <2>2, ParsesEffect DEF members, signals
<1>2. CASE LoadsRuntime
  <2>1. Quiet /\ place = "runtime"  BY <1>2 DEF LoadsRuntime
  <2> QED  BY <1>2, <2>1, LoadsEffect DEF Throws, Quiet, signals
<1>12. CASE FindsNoRuntime
  BY <1>12 DEF FindsNoRuntime, Throws, Quiet, members, signals
<1>3. CASE OpensInput \/ FailsToOpen \/ InterruptsOpening
  BY <1>3 DEF OpensInput, FailsToOpen, InterruptsOpening, Throws, Quiet, members, signals
<1>4. CASE SelectsStreams
  BY <1>4 DEF SelectsStreams, Throws, Makes, Quiet, signals
<1>5. CASE MakesVideoDecoder \/ MakesVideoProcessor \/ MakesAudioDecoder \/ MakesSender
  BY <1>5 DEF MakesVideoDecoder, MakesVideoProcessor, MakesAudioDecoder, MakesSender, Throws,
     Makes, Quiet, signals
<1>6. CASE Starts \/ Waits
  BY <1>6 DEF Types, Starts, Waits, members, signals
<1>7. CASE Destroys
  BY <1>7 DEF Destroys, Quiet, signals
<1>8. CASE Returns
  BY <1>8 DEF Types, Construction, Returns, Exits, members, signals
<1>9. CASE ThreadsEnd \/ ThreadFails
  BY <1>9 DEF Construction, ThreadsEnd, ThreadFails, members, signals
<1>10. CASE Signal \/ TakesSignal \/ HandlesSignal
  BY <1>10 DEF Types, Signal, TakesSignal, HandlesSignal, MarksThenStops, Exits, members
<1>11. CASE Exited \/ UNCHANGED vars
  BY <1>11 DEF Exited, vars, members, signals
<1> QED  BY ONLY [Next]_vars, <1>1, <1>2, <1>3, <1>4, <1>5, <1>6, <1>7, <1>8, <1>9, <1>10, <1>11,
         <1>12
         DEF Next, Main

\* The invariant the two theorems rest on.
LEMMA Invariance == Spec => []IInv
<1>1. IInv /\ [Next]_vars => IInv'
  BY TypesKept, ConstructionKept, InterruptionKept DEF IInv
<1> QED  BY InitHolds, <1>1, PTL DEF Spec
-----------------------------------------------------------------------------
\* main.cpp: a stop by the user is never reported as a failure, nothing else is
\* excused, and a bad command line acquires nothing.
THEOREM InterruptionIsNoFailure == Spec => []InterruptIsNoFailure
<1>1. IInv => InterruptIsNoFailure  BY DEF IInv, Interruption, InterruptIsNoFailure
<1> QED  BY Invariance, <1>1, PTL

\* streamer.hpp: whatever throws, and wherever, members are destroyed after what
\* uses them, and NDI once for each time it was initialised.
THEOREM TeardownIsInOrder == Spec => []TeardownInOrder
<1>1. IInv => TeardownInOrder
  <2> SUFFICES ASSUME IInv PROVE TeardownInOrder  OBVIOUS
  <2>1. Ordered(built) /\ initialized \in Nat /\ destroyed \in Nat
    BY DEF IInv, Types, Construction
  <2>2. built # <<>> => Has("runtime") /\ initialized > destroyed
    <3> SUFFICES ASSUME built # <<>> PROVE Has("runtime") /\ initialized > destroyed  OBVIOUS
    <3>1. 1 \in DOMAIN built  BY <2>1 DEF Ordered
    <3>2. Has("runtime")  BY <2>1, <3>1 DEF Ordered, Has
    <3> QED  BY <2>1, <3>2 DEF IInv, Construction
  <2>3. Has("sender") => built # <<>>  BY DEF Has
  <2>4. Has("videoProcessor") => Has("videoDecoder")
    BY <2>1, HasIsIn DEF Ordered, In
  <2>5. running => Has("sender") /\ Has("input")
    BY HasIsIn DEF IInv, Construction
  <2>6. status \in {0, 1, 2} => built = <<>> /\ initialized = destroyed
    BY DEF IInv, Construction
  <2> QED  BY <2>2, <2>3, <2>4, <2>5, <2>6 DEF TeardownInOrder
<1> QED  BY Invariance, <1>1, PTL
=============================================================================
