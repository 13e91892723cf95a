--------------------------- MODULE DecodeLoopProofs ---------------------------
(***************************************************************************)
(* When a decoder is given up, that a packet whose reference was discarded  *)
(* never reaches it, that no picture is lost when a pass or the input ends, *)
(* and the types, for inputs and decoders of any kind.                      *)
(***************************************************************************)
EXTENDS DecodeLoop, TLAPS

\* An unbroken run of errors began after the last frame, and both are past.
Accounts ==
    /\ now \in Nat /\ m_consecutive_errors \in Nat /\ m_frames_decoded \in Nat
    /\ m_errors_since \in Int /\ last_frame \in Int
    /\ m_errors_since <= now /\ last_frame <= now
    /\ m_consecutive_errors > 0 => last_frame <= m_errors_since

\* A drain knows where the loop goes on.
DrainIsFor == pc \in {"receive", "judge", "emit"} => drain \in {"pass", "end", "after", "full"}

IInv == Accounts /\ DrainIsFor /\ GivesUpOnlyWhenLost

\* No error and no frame at the start.
LEMMA InitHolds == Init => IInv
BY DEF Init, IInv, Accounts, DrainIsFor, GivesUpOnlyWhenLost, NotYet

\* Errors are counted from the first one after a frame.
LEMMA ErrorKept ==
  ASSUME Accounts, UNCHANGED world, NEW next, next # "thrown", NoteError(next)
  PROVE  Accounts' /\ GivesUpOnlyWhenLost'
<1>1. Accounts'  BY DEF Accounts, NoteError, world
<1>2. GivesUpOnlyWhenLost'
  <2> SUFFICES ASSUME pc' = "thrown"
               PROVE  m_frames_decoded > 0 /\ now - last_frame >= GiveUpAfter
    BY DEF GivesUpOnlyWhenLost, NoteError, world
  <2>1. m_frames_decoded > 0 /\ now - m_errors_since' >= GiveUpAfter
    BY DEF NoteError
  <2>2. last_frame <= m_errors_since'  BY DEF Accounts, NoteError
  <2>3. m_errors_since' \in Int /\ last_frame \in Int /\ now \in Int /\ GiveUpAfter \in Int
    BY DecodeAssumption DEF Accounts, NoteError
  <2>4. \A a, b, c, d \in Int : b <= c /\ a - c >= d => a - b >= d  OBVIOUS
  <2>5. now - last_frame >= GiveUpAfter  BY ONLY <2>1, <2>2, <2>3, <2>4
  <2> QED  BY <2>1, <2>5
<1> QED  BY <1>1, <1>2

\* Only an error gives the decoder up.
LEMMA IInvKept == IInv /\ [Next]_vars => IInv'
<1> SUFFICES ASSUME IInv, [Next]_vars PROVE IInv'  OBVIOUS
<1> USE DEF IInv
<1>a. pc = "receive" => Continues # "thrown"
  <2> SUFFICES ASSUME drain \in {"pass", "end", "after", "full"} PROVE Continues # "thrown"
    BY DEF DrainIsFor
  <2>1. CASE drain = "pass"  BY <2>1 DEF Continues
  <2>2. CASE drain = "end"  BY <2>2 DEF Continues
  <2>3. CASE drain = "after"  BY <2>3 DEF Continues
  <2>4. CASE drain = "full"  BY <2>4 DEF Continues
  <2> QED  BY <2>1, <2>2, <2>3, <2>4
<1>q. ASSUME UNCHANGED accounts, UNCHANGED world, pc' # "thrown", DrainIsFor'
      PROVE  IInv'
  BY <1>q DEF Accounts, GivesUpOnlyWhenLost, accounts, world
<1>1. ASSUME Decode  PROVE IInv'
  <2>1. CASE Pops  BY <1>q, <2>1 DEF Pops, decoder, DrainIsFor
  <2>2. CASE PopsNothing  BY <1>q, <2>2 DEF PopsNothing, decoder, DrainIsFor
  <2>3. CASE SendsNull  BY <1>q, <2>3 DEF SendsNull, DrainIsFor
  <2>4. CASE Resets  BY <1>q, <2>4 DEF Resets, DrainIsFor
  <2>5. CASE Sheds  BY <1>q, <2>5 DEF Sheds, decoder, DrainIsFor
  <2>6. CASE Sends
    <3>1. CASE UNCHANGED accounts /\ pc' = "receive"
      BY <1>q, <2>6, <3>1 DEF Sends, DrainIsFor
    <3>2. CASE NoteError("receive") /\ drain' = "after"
      <4>0. UNCHANGED world  BY <2>6 DEF Sends
      <4>1. Accounts' /\ GivesUpOnlyWhenLost'  BY <3>2, <4>0, ErrorKept
      <4> QED  BY <3>2, <4>1 DEF DrainIsFor
    <3> QED  BY <2>6, <3>1, <3>2 DEF Sends
  <2>7. CASE Retries  BY <1>q, <2>7 DEF Retries, decoder, DrainIsFor
  <2>8. CASE ReceivesFrame
    <3>1. Accounts'  BY <2>8 DEF ReceivesFrame, EndsErrors, Accounts, world
    <3>2. pc' = "judge" /\ drain' = drain  BY <2>8 DEF ReceivesFrame
    <3> QED  BY <2>8, <3>1, <3>2 DEF ReceivesFrame, DrainIsFor, GivesUpOnlyWhenLost
  <2>9. CASE ReceivesNothing
    <3>1. pc = "receive" /\ pc' = Continues /\ drain' = drain  BY <2>9 DEF ReceivesNothing
    <3>2. DrainIsFor'  BY <3>1 DEF DrainIsFor
    <3> QED  BY <1>a, <1>q, <2>9, <3>1, <3>2 DEF ReceivesNothing, decoder
  <2>10. CASE ReceivesError
    <3>0. UNCHANGED world /\ NoteError(Continues) /\ pc = "receive"
      BY <2>10 DEF ReceivesError
    <3>1. Accounts' /\ GivesUpOnlyWhenLost'
      BY <1>a, <3>0, ErrorKept
    <3>2. pc = "receive" /\ drain' = drain  BY <2>10 DEF ReceivesError
    <3> QED  BY <3>1, <3>2 DEF DrainIsFor
  <2>11. CASE Judges
    <3>1. pc = "judge" /\ drain' = drain /\ pc' \in {"emit", "receive", "leave"}
      BY <2>11 DEF Judges, AfterFrame
    <3> QED  BY <1>q, <2>11, <3>1 DEF Judges, decoder, DrainIsFor
  <2>12. CASE Emits
    <3>1. pc = "emit" /\ drain' = drain /\ pc' \in {"receive", "leave"}
      BY <2>12 DEF Emits, AfterFrame
    <3> QED  BY <1>q, <2>12, <3>1 DEF Emits, decoder, DrainIsFor
  <2>13. CASE Leaves  BY <1>q, <2>13 DEF Leaves, decoder, DrainIsFor
  <2> QED
    BY <1>1, <2>1, <2>2, <2>3, <2>4, <2>5, <2>6, <2>7, <2>8, <2>9, <2>10, <2>11, <2>12, <2>13
       DEF Decode
<1>2. CASE Arrives
  BY <1>2 DEF Arrives, decoder, accounts, Accounts, DrainIsFor, GivesUpOnlyWhenLost
<1>3. CASE RequestStop
  BY <1>3 DEF RequestStop, decoder, accounts, Accounts, DrainIsFor, GivesUpOnlyWhenLost
<1>4. CASE Tick
  <2>1. UNCHANGED <<pc, drain, accounts>> /\ now' = now + 1  BY <1>4 DEF Tick, decoder
  <2>2. Accounts' /\ DrainIsFor'  BY <2>1 DEF accounts, Accounts, DrainIsFor
  <2>3. GivesUpOnlyWhenLost'
    BY <2>1, DecodeAssumption DEF accounts, Accounts, GivesUpOnlyWhenLost
  <2> QED  BY <2>2, <2>3
<1>5. CASE UNCHANGED vars
  BY <1>5 DEF vars, world, decoder, accounts, Accounts, DrainIsFor, GivesUpOnlyWhenLost
<1>6. CASE Ended  BY <1>5, <1>6 DEF Ended
<1> QED  BY ONLY [Next]_vars, <1>1, <1>2, <1>3, <1>4, <1>5, <1>6 DEF Next

\* Decoder throws only when it has handed out frames before and none for kGiveUpAfter,
\* whatever the input, the delays and the refusals of FFmpeg are.
THEOREM GivesUpRightly == Spec => []GivesUpOnlyWhenLost
BY InitHolds, IInvKept, PTL DEF Spec, IInv
-----------------------------------------------------------------------------
\* The packet popped last is neither sent nor given up.
InHand == pc \in {"send", "retry"} \/ (pc \in {"receive", "judge", "emit"} /\ drain = "full")

\* What the decoder was given and still holds, or has handed out just now.
Fed == Held \union (IF pc \in {"judge", "emit"} THEN {frame} ELSE {})

\* Packets of which it has been decided whether to skip them.
Judged == IF pc = "shed" THEN taken - 1 ELSE taken

\* A keyframe has come since each packet that was skipped.
Recovered(t) ==
    \A j \in DOMAIN Items : j <= t /\ fate[j] = "skipped" => \E k \in j + 1..t : Items[k] = "key"

\* What is still to come is queued; what is in hand or was fed has not been skipped.
Known ==
    /\ taken \in Nat /\ arrived \in Nat /\ taken <= arrived /\ arrived <= Len(Items)
    /\ inside \in Seq(Nat) /\ skipping \in BOOLEAN
    /\ fate \in [DOMAIN Items -> Fates]
    /\ \A i \in DOMAIN Items : i > taken => fate[i] = "queued"
    /\ pc = "shed" => taken >= 1 /\ fate[taken] = "queued"
    /\ InHand => taken >= 1 /\ ~skipping /\ fate[taken] # "skipped"
    /\ \A i \in Fed : i \in DOMAIN Items /\ i <= taken /\ fate[i] \notin {"queued", "skipped"}

\* Recovered fails only between a discarded packet and the next keyframe, while skipping.
Refs == Known /\ (~skipping => Recovered(Judged)) /\ ReferencesAreThere /\ DrainIsFor

\* Items are a finite sequence.
LEMMA ItemsAre == Items \in Seq({"key", "delta", "marker"}) /\ DOMAIN Items = 1..Len(Items) /\ Len(Items) \in Nat
BY DecodeAssumption

\* Packets that may be decoded may have any fate but to be skipped.
LEMMA FateChanges ==
  ASSUME Known, ReferencesAreThere, NEW S \in SUBSET DOMAIN Items, NEW what \in Fates \ {"queued", "skipped"},
         Become(S, what),
         \A i \in S : /\ fate[i] # "skipped"
                      /\ fate[i] # "queued" \/ (i = taken /\ Recovered(taken))
  PROVE  /\ fate' \in [DOMAIN Items -> Fates]
         /\ \A i \in DOMAIN Items : (fate'[i] = "skipped") <=> (fate[i] = "skipped")
         /\ \A i \in DOMAIN Items \ S : fate'[i] = fate[i]
         /\ \A i \in S : fate'[i] = what
         /\ ReferencesAreThere'
<1>1. /\ fate' \in [DOMAIN Items -> Fates]
      /\ \A i \in DOMAIN Items \ S : fate'[i] = fate[i]
      /\ \A i \in S : fate'[i] = what
  BY DEF Become, Known
<1>2. \A i \in DOMAIN Items : (fate'[i] = "skipped") <=> (fate[i] = "skipped")
  BY <1>1
<1>3. ReferencesAreThere'
  <2> SUFFICES ASSUME NEW i \in DOMAIN Items, NEW j \in DOMAIN Items, j < i, fate'[j] = "skipped",
                      \A k \in j + 1..i : Items[k] # "key"
               PROVE  fate'[i] \in {"queued", "skipped"}
    BY DEF ReferencesAreThere
  <2>1. fate[j] = "skipped"  BY <1>2
  <2>2. fate[i] \in {"queued", "skipped"}  BY <2>1 DEF ReferencesAreThere
  <2>3. CASE i \in S
    <3>1. i = taken /\ Recovered(taken)  BY <2>2, <2>3
    <3>2. PICK k \in j + 1..taken : Items[k] = "key"
      BY <2>1, <3>1, ItemsAre DEF Recovered
    <3> QED  BY <3>1, <3>2
  <2>4. CASE i \notin S  BY <1>1, <2>2, <2>4
  <2> QED  BY <2>3, <2>4
<1> QED  BY <1>1, <1>2, <1>3

\* A step that moves nothing but the place in the loop.
LEMMA RefsMove ==
  ASSUME Refs, UNCHANGED <<taken, skipping, inside, fate>>, arrived' \in Nat, arrived <= arrived',
         arrived' <= Len(Items),
         (pc' = "shed") <=> (pc = "shed"), InHand' => InHand, Fed' \subseteq Fed, DrainIsFor'
  PROVE  Refs'
<1>1. Known'  BY DEF Refs, Known, Held
<1>2. Judged' = Judged  BY DEF Judged
<1>3. \A t : Recovered(t)' <=> Recovered(t)  BY DEF Recovered
<1>4. ReferencesAreThere'  BY DEF Refs, ReferencesAreThere
<1> QED  BY <1>1, <1>2, <1>4 DEF Refs, Recovered

\* A step that gives packets the decoder was fed, or the one in hand, a fate.
LEMMA RefsFate ==
  ASSUME Refs, NEW S, NEW what \in Fates \ {"queued", "skipped"}, Become(S, what),
         S \subseteq Fed \/ (S = {taken} /\ InHand),
         UNCHANGED <<arrived, taken, skipping>>, inside' \in Seq(Nat),
         pc # "shed", pc' # "shed", InHand' => InHand, Fed' \subseteq Fed \union S, DrainIsFor'
  PROVE  Refs'
<1>1. /\ Known /\ ReferencesAreThere
      /\ InHand => Recovered(taken) /\ taken \in DOMAIN Items
  BY ItemsAre DEF Refs, Judged, Known
<1>2. ASSUME NEW i \in S
      PROVE  /\ i \in DOMAIN Items /\ i <= taken /\ fate[i] # "skipped"
             /\ fate[i] # "queued" \/ (i = taken /\ Recovered(taken))
  <2>1. CASE S \subseteq Fed  BY <1>1, <2>1 DEF Known
  <2>2. CASE S = {taken} /\ InHand  BY <1>1, <2>2 DEF Known
  <2> QED  BY <2>1, <2>2
<1>3. /\ fate' \in [DOMAIN Items -> Fates]
      /\ \A i \in DOMAIN Items : (fate'[i] = "skipped") <=> (fate[i] = "skipped")
      /\ \A i \in DOMAIN Items \ S : fate'[i] = fate[i]
      /\ \A i \in S : fate'[i] = what
      /\ ReferencesAreThere'
  <2>1. S \in SUBSET DOMAIN Items  BY <1>2
  <2> QED  BY <1>1, <1>2, <2>1, FateChanges
<1>4. \A i \in Fed' : i \in DOMAIN Items /\ i <= taken' /\ fate'[i] \notin {"queued", "skipped"}
  BY <1>1, <1>2, <1>3 DEF Known
<1>5. InHand' => taken' >= 1 /\ ~skipping' /\ fate'[taken'] # "skipped"
  BY <1>1, <1>3 DEF Known
<1>6. \A i \in DOMAIN Items : i > taken' => fate'[i] = "queued"
  BY <1>1, <1>2, <1>3 DEF Known
<1>7. Known'  BY <1>1, <1>3, <1>4, <1>5, <1>6 DEF Known
<1>8. ~skipping' => Recovered(Judged)'
  BY <1>3 DEF Refs, Judged, Recovered
<1> QED  BY <1>3, <1>7, <1>8 DEF Refs

\* The packet that is popped is new.
LEMMA PopsRefs == ASSUME Refs, Pops PROVE Refs'
<1>1. /\ pc = "pop" /\ taken' = taken + 1 /\ pc' \in {"pass", "shed"}
      /\ UNCHANGED <<arrived, skipping, inside, fate, drain, frame>>
      /\ taken < arrived
  <2>1. arrived - taken > 0 /\ arrived \in Nat /\ taken \in Nat  BY DEF Pops, Size, Refs, Known
  <2>2. pc' \in {"pass", "shed"}  BY DEF Pops
  <2> QED  BY <2>1, <2>2 DEF Pops, world, decoder
<1>2. /\ taken \in Nat /\ arrived <= Len(Items) /\ Len(Items) \in Nat
      /\ \A i \in Fed : i \in DOMAIN Items /\ i <= taken /\ fate[i] \notin {"queued", "skipped"}
  BY ItemsAre DEF Refs, Known
<1>3. Fed' = Held /\ Fed = Held  BY <1>1 DEF Fed, Held
<1>4. Known'
  <2>1. fate[taken + 1] = "queued"  BY <1>1, <1>2, ItemsAre DEF Refs, Known
  <2>2. ~InHand'  BY <1>1 DEF InHand
  <2>3. \A i \in Fed' : i \in DOMAIN Items /\ i <= taken' /\ fate'[i] \notin {"queued", "skipped"}
    BY <1>1, <1>2, <1>3, ItemsAre
  <2>4. \A i \in DOMAIN Items : i > taken' => fate'[i] = "queued"
    BY <1>1, <1>2, ItemsAre DEF Refs, Known
  <2> QED  BY <1>1, <1>2, <2>1, <2>2, <2>3, <2>4 DEF Refs, Known
<1>5. ~skipping' => Recovered(Judged)'
  <2> SUFFICES ASSUME ~skipping, NEW j \in DOMAIN Items, j <= Judged', fate[j] = "skipped"
               PROVE  \E k \in j + 1..Judged' : Items[k] = "key"
    BY <1>1 DEF Recovered
  <2>1. Judged = taken /\ Judged' \in {taken, taken + 1}  BY <1>1, <1>2 DEF Judged
  <2>2. j <= taken
    BY <1>2, <2>1, ItemsAre DEF Refs, Known
  <2>3. PICK k \in j + 1..taken : Items[k] = "key"  BY <2>1, <2>2 DEF Refs, Recovered
  <2> QED  BY <1>2, <2>1, <2>3, ItemsAre
<1>6. ReferencesAreThere' /\ DrainIsFor'  BY <1>1 DEF Refs, ReferencesAreThere, DrainIsFor
<1> QED  BY <1>4, <1>5, <1>6 DEF Refs

\* Discarding begins or goes on here, and ends at a keyframe.
LEMMA ShedsRefs == ASSUME Refs, Sheds PROVE Refs'
<1>1. /\ pc = "shed" /\ UNCHANGED <<arrived, taken, inside, drain, frame>>
  BY DEF Sheds, world, decoder
<1>2. /\ taken \in DOMAIN Items /\ fate[taken] = "queued" /\ Judged = taken - 1
      /\ fate \in [DOMAIN Items -> Fates]
  BY <1>1, ItemsAre DEF Refs, Known, Judged
<1>3. CASE /\ Skips /\ Items[taken] # "key" /\ skipping' = TRUE
           /\ Become({taken}, "skipped") /\ pc' = "pop"
  <2>1. /\ fate' \in [DOMAIN Items -> Fates] /\ fate'[taken] = "skipped"
        /\ \A i \in DOMAIN Items : i # taken => fate'[i] = fate[i]
    BY <1>2, <1>3 DEF Become, Fates
  <2>2. Fed' = Held /\ Fed = Held  BY <1>1, <1>3 DEF Fed, Held
  <2>3. Known'  BY <1>1, <1>2, <1>3, <2>1, <2>2, ItemsAre DEF Refs, Known, InHand
  <2>4. ReferencesAreThere'
    <3> SUFFICES ASSUME NEW i \in DOMAIN Items, NEW j \in DOMAIN Items, j < i, fate'[j] = "skipped",
                        \A k \in j + 1..i : Items[k] # "key"
                 PROVE  fate'[i] \in {"queued", "skipped"}
      BY DEF ReferencesAreThere
    <3>1. CASE i = taken  BY <2>1, <3>1
    <3>2. CASE j = taken
      BY <1>2, <2>1, <3>2, ItemsAre DEF Refs, Known
    <3>3. CASE i # taken /\ j # taken  BY <2>1, <3>3 DEF Refs, ReferencesAreThere
    <3> QED  BY <3>1, <3>2, <3>3
  <2>5. DrainIsFor'  BY <1>3 DEF DrainIsFor
  <2> QED  BY <1>3, <2>3, <2>4, <2>5 DEF Refs
<1>4. CASE /\ ~Skips \/ Items[taken] = "key"
           /\ skipping' = FALSE /\ pc' = "send" /\ UNCHANGED fate
  <2>1. Fed' = Held /\ Fed = Held  BY <1>1, <1>4 DEF Fed, Held
  <2>2. Known'  BY <1>1, <1>2, <1>4, <2>1, ItemsAre DEF Refs, Known, InHand
  <2>3. Recovered(Judged)'
    <3> SUFFICES ASSUME NEW j \in DOMAIN Items, j <= taken, fate[j] = "skipped"
                 PROVE  \E k \in j + 1..taken : Items[k] = "key"
      BY <1>1, <1>4 DEF Recovered, Judged
    <3>1. j < taken  BY <1>2, ItemsAre
    <3>2. CASE Items[taken] = "key"  BY <1>2, <3>1, <3>2, ItemsAre
    <3>3. CASE ~Skips
      <4>1. ~skipping  BY <3>3 DEF Skips
      <4>2. j <= taken - 1  BY <1>2, <3>1, ItemsAre
      <4>3. PICK k \in j + 1..taken - 1 : Items[k] = "key"
        BY <1>2, <4>1, <4>2 DEF Refs, Recovered
      <4> QED  BY <1>2, <4>3, ItemsAre
    <3> QED  BY <1>4, <3>2, <3>3
  <2>4. ReferencesAreThere' /\ DrainIsFor'  BY <1>1, <1>4 DEF Refs, ReferencesAreThere, DrainIsFor
  <2> QED  BY <2>2, <2>3, <2>4 DEF Refs
<1> QED  BY <1>3, <1>4 DEF Sheds

\* Only the packet in hand gets a fate.
LEMMA SendsRefs == ASSUME Refs, Sends PROVE Refs'
<1>1. /\ pc = "send" /\ InHand /\ UNCHANGED <<arrived, taken, skipping, frame>>
      /\ taken \in DOMAIN Items /\ taken \in Nat /\ inside \in Seq(Nat)
  BY ItemsAre DEF Sends, world, InHand, Refs, Known
<1>2. CASE inside' = Append(inside, taken) /\ Become({taken}, "inside") /\ drain' = "after" /\ pc' = "receive"
  <2>1. inside' \in Seq(Nat)  BY <1>1, <1>2
  <2>2. Held' = Held \union {taken}
    <3>1. /\ DOMAIN inside' = DOMAIN inside \union {Len(inside) + 1}
          /\ \A n \in DOMAIN inside : inside'[n] = inside[n]
          /\ inside'[Len(inside) + 1] = taken
      BY <1>1, <1>2
    <3> QED  BY <3>1 DEF Held
  <2>3. Fed' \subseteq Fed \union {taken} /\ ~InHand' /\ DrainIsFor'
    BY <1>2, <2>2 DEF Fed, InHand, DrainIsFor
  <2>4. "inside" \in Fates \ {"queued", "skipped"}  BY DEF Fates
  <2> QED  BY <1>1, <1>2, <2>1, <2>3, <2>4, RefsFate
<1>3. CASE drain' = "full" /\ pc' = "receive" /\ UNCHANGED <<inside, fate>>
  BY <1>1, <1>3, RefsMove DEF Refs, Known, Fed, Held, InHand, DrainIsFor
<1>4. CASE Become({taken}, "failed") /\ NoteError("receive") /\ drain' = "after" /\ UNCHANGED inside
  <2>1. pc' \in {"thrown", "receive"}  BY <1>4 DEF NoteError
  <2>2. Fed' \subseteq Fed /\ ~InHand' /\ DrainIsFor'
    BY <1>4, <2>1 DEF Fed, Held, InHand, DrainIsFor
  <2>3. "failed" \in Fates \ {"queued", "skipped"}  BY DEF Fates
  <2> QED  BY <1>1, <1>4, <2>1, <2>2, <2>3, RefsFate
<1> QED  BY <1>2, <1>3, <1>4 DEF Sends

\* Only the packet in hand gets a fate.
LEMMA RetriesRefs == ASSUME Refs, Retries PROVE Refs'
<1>1. /\ pc = "retry" /\ InHand /\ UNCHANGED <<arrived, taken, skipping, frame, inside>>
      /\ inside \in Seq(Nat) /\ Fed = Held
  BY DEF Retries, world, decoder, InHand, Refs, Known, Fed
<1>2. CASE Become({taken}, "refused") /\ drain' = "after" /\ pc' = "receive"
  <2>1. Fed' \subseteq Fed /\ ~InHand' /\ DrainIsFor'
    BY <1>1, <1>2 DEF Fed, Held, InHand, DrainIsFor
  <2>2. "refused" \in Fates \ {"queued", "skipped"}  BY DEF Fates
  <2> QED  BY <1>1, <1>2, <2>1, <2>2, RefsFate
<1>3. CASE pc' = "send" /\ UNCHANGED <<fate, drain>>
  BY <1>1, <1>3, RefsMove DEF Refs, Known, Fed, Held, InHand, DrainIsFor
<1> QED  BY <1>2, <1>3 DEF Retries

\* Where the loop goes on after a drain, and whether a packet is in hand there.
LEMMA ContinuesAt ==
  ASSUME DrainIsFor, pc = "receive"
  PROVE  /\ Continues \in {"reset", "leave", "pop", "retry"}
         /\ Continues = "retry" => drain = "full"
         /\ Continues = "reset" => drain = "pass"
         /\ Continues = "pop" => drain = "after"
         /\ Continues = "leave" => drain = "end"
<1> SUFFICES ASSUME drain \in {"pass", "end", "after", "full"}
             PROVE  /\ Continues \in {"reset", "leave", "pop", "retry"}
                    /\ Continues = "retry" => drain = "full"
                    /\ Continues = "reset" => drain = "pass"
                    /\ Continues = "pop" => drain = "after"
                    /\ Continues = "leave" => drain = "end"
  BY DEF DrainIsFor
<1>1. CASE drain = "pass"  BY <1>1 DEF Continues
<1>2. CASE drain = "end"  BY <1>2 DEF Continues
<1>3. CASE drain = "after"  BY <1>3 DEF Continues
<1>4. CASE drain = "full"  BY <1>4 DEF Continues
<1> QED  BY <1>1, <1>2, <1>3, <1>4

\* The first packet inside is one of those held.
LEMMA HeadIsHeld ==
  ASSUME NEW s \in Seq(Nat), s # <<>>
  PROVE  /\ Tail(s) \in Seq(Nat)
         /\ {Tail(s)[n] : n \in DOMAIN Tail(s)} \union {Head(s)} \subseteq {s[n] : n \in DOMAIN s}
<1>1. Head(s) \in {s[n] : n \in DOMAIN s}  OBVIOUS
<1>2. ASSUME NEW n \in DOMAIN Tail(s) PROVE n + 1 \in DOMAIN s /\ Tail(s)[n] = s[n + 1]
  OBVIOUS
<1> QED  BY <1>1, <1>2

\* Only the first packet inside gets a fate.
LEMMA ReceivesRefs == ASSUME Refs, ReceivesFrame \/ ReceivesNothing \/ ReceivesError PROVE Refs'
<1>1. /\ pc = "receive" /\ Fed = Held /\ UNCHANGED <<arrived, taken, skipping, drain>>
      /\ inside \in Seq(Nat) /\ DrainIsFor
      /\ arrived \in Nat /\ arrived <= Len(Items)
      /\ InHand <=> drain = "full"
  BY DEF ReceivesFrame, ReceivesNothing, ReceivesError, world, Refs, Known, Fed, InHand
<1>2. CASE ReceivesFrame
  <2>1. /\ pc' = "judge" /\ frame' = Head(inside) /\ inside' = Tail(inside) /\ fate' = fate
        /\ inside # <<>>
    BY <1>2 DEF ReceivesFrame, HasFrame
  <2>2. Fed' \subseteq Fed /\ inside' \in Seq(Nat)  BY <1>1, <2>1, HeadIsHeld DEF Fed, Held
  <2>3. DrainIsFor' /\ (InHand' => InHand)  BY <1>1, <2>1 DEF DrainIsFor, InHand
  <2>4. Known'  BY <1>1, <2>1, <2>2, <2>3 DEF Refs, Known
  <2>5. (~skipping' => Recovered(Judged)') /\ ReferencesAreThere'
    BY <1>1, <2>1 DEF Refs, Judged, Recovered, ReferencesAreThere
  <2> QED  BY <2>3, <2>4, <2>5 DEF Refs
<1>3. CASE ReceivesNothing
  <2>1. pc' = Continues /\ UNCHANGED <<inside, fate, frame>>  BY <1>3 DEF ReceivesNothing, decoder
  <2>2. Continues \in {"reset", "leave", "pop", "retry"} /\ (Continues = "retry" => drain = "full")
    BY <1>1, ContinuesAt
  <2>3. /\ Fed' \subseteq Fed /\ DrainIsFor' /\ (InHand' => InHand)
        /\ (pc' = "shed" <=> pc = "shed")
    BY <1>1, <2>1, <2>2 DEF Fed, Held, DrainIsFor, InHand
  <2> QED  BY <1>1, <2>1, <2>3, RefsMove
<1>4. CASE ReceivesError
  <2>1. /\ pc' \in {"thrown", Continues} /\ inside' = Tail(inside) /\ frame' = frame
        /\ Become({Head(inside)}, "failed") /\ inside # <<>>
    BY <1>4 DEF ReceivesError, NoteError, HasFrame
  <2>2. Continues \in {"reset", "leave", "pop", "retry"} /\ (Continues = "retry" => drain = "full")
    BY <1>1, ContinuesAt
  <2>3. /\ Fed' \subseteq Fed /\ DrainIsFor' /\ (InHand' => InHand) /\ pc' # "shed"
        /\ {Head(inside)} \subseteq Fed /\ inside' \in Seq(Nat)
    BY <1>1, <2>1, <2>2, HeadIsHeld DEF Fed, Held, DrainIsFor, InHand
  <2>4. "failed" \in Fates \ {"queued", "skipped"}  BY DEF Fates
  <2> QED  BY <1>1, <2>1, <2>3, <2>4, RefsFate
<1> QED  BY <1>2, <1>3, <1>4

\* Only the frame in hand gets a fate.
LEMMA HandsOnRefs == ASSUME Refs, Judges \/ Emits PROVE Refs'
<1>1. /\ pc \in {"judge", "emit"} /\ UNCHANGED <<arrived, taken, skipping, drain, inside, frame>>
      /\ inside \in Seq(Nat) /\ DrainIsFor /\ frame \in Fed
      /\ arrived \in Nat /\ arrived <= Len(Items)
  BY DEF Judges, Emits, world, decoder, Refs, Known, Fed
<1>2. pc' \in {"emit", "receive", "leave"}  BY DEF Judges, Emits, AfterFrame
<1>3. /\ Fed' \subseteq Fed /\ DrainIsFor' /\ (InHand' => InHand) /\ pc' # "shed" /\ pc # "shed"
  BY <1>1, <1>2 DEF Fed, Held, DrainIsFor, InHand
<1>4. CASE UNCHANGED fate  BY <1>1, <1>3, <1>4, RefsMove
<1>5. ASSUME NEW what \in {"dropped", "shown"}, Become({frame}, what) PROVE Refs'
  <2>1. what \in Fates \ {"queued", "skipped"}  BY DEF Fates
  <2>2. {frame} \subseteq Fed  BY <1>1
  <2> QED  BY <1>1, <1>3, <1>5, <2>1, <2>2, RefsFate
<1>6. \/ UNCHANGED fate
      \/ Become({frame}, "dropped")
      \/ Become({frame}, "shown")
  BY DEF Judges, Emits
<1>7. CASE Become({frame}, "dropped")  BY <1>5, <1>7
<1>8. CASE Become({frame}, "shown")  BY <1>5, <1>8
<1> QED  BY <1>4, <1>6, <1>7, <1>8

\* Only packets inside get a fate.
LEMMA CutsRefs == ASSUME Refs, Resets \/ Leaves PROVE Refs'
<1>1. /\ pc \in {"reset", "leave"} /\ pc' \in {"pop", "gone"}
      /\ UNCHANGED <<arrived, taken, skipping>>
      /\ inside' \in {<<>>, inside} /\ inside \in Seq(Nat) /\ Become(Held, "cut")
  BY DEF Resets, Leaves, world, decoder, Refs, Known
<1>2. DrainIsFor' /\ ~InHand'  BY <1>1 DEF DrainIsFor, InHand
<1>3. <<>> \in Seq(Nat)  OBVIOUS
<1>4. inside' \in Seq(Nat)  BY <1>1, <1>3
<1>5. Held' \subseteq Held  BY <1>1 DEF Held
<1>6. Held \subseteq Fed /\ Fed' \subseteq Fed  BY <1>1, <1>5 DEF Fed
<1>7. "cut" \in Fates \ {"queued", "skipped"}  BY DEF Fates
<1> QED  BY <1>1, <1>2, <1>4, <1>6, <1>7, RefsFate

\* No step of any actor breaks the references.
LEMMA RefsKept == Refs /\ [Next]_vars => Refs'
<1> SUFFICES ASSUME Refs, [Next]_vars PROVE Refs'  OBVIOUS
<1>1. arrived \in Nat /\ arrived <= Len(Items) /\ Len(Items) \in Nat  BY ItemsAre DEF Refs, Known
<1>2. CASE Decode
  <2>1. CASE PopsNothing \/ SendsNull
    <3>1. /\ pc \in {"pop", "pass", "end"} /\ UNCHANGED <<arrived, taken, skipping, inside, fate, frame>>
          /\ \/ pc' \in {"leave", "end"} /\ drain' = drain
             \/ pc' = "receive" /\ drain' = pc /\ pc # "pop"
      BY <2>1 DEF PopsNothing, SendsNull, world, decoder
    <3>2. Fed' \subseteq Fed /\ DrainIsFor' /\ ~InHand'
      BY <3>1 DEF Fed, Held, DrainIsFor, InHand
    <3> QED  BY <1>1, <3>1, <3>2, RefsMove
  <2> QED
    BY <1>2, <2>1, PopsRefs, ShedsRefs, SendsRefs, RetriesRefs, ReceivesRefs, HandsOnRefs, CutsRefs
       DEF Decode
<1>3. ASSUME UNCHANGED <<taken, pc, drain, frame, skipping, inside, fate>>,
             arrived' \in {arrived, arrived + 1}, arrived' <= Len(Items)
      PROVE  Refs'
  <2>1. Fed' \subseteq Fed /\ DrainIsFor' /\ (InHand' => InHand)
    BY <1>3 DEF Refs, Fed, Held, DrainIsFor, InHand
  <2> QED  BY <1>1, <1>3, <2>1, RefsMove
<1>4. CASE Arrives  BY <1>1, <1>3, <1>4 DEF Arrives, decoder
<1>5. CASE RequestStop  BY <1>1, <1>3, <1>5 DEF RequestStop, decoder
<1>6. CASE Tick  BY <1>1, <1>3, <1>6 DEF Tick, decoder
<1>7. CASE UNCHANGED vars  BY <1>1, <1>3, <1>7 DEF vars, world, decoder
<1>8. CASE Ended  BY <1>7, <1>8 DEF Ended
<1> QED  BY ONLY [Next]_vars, <1>2, <1>4, <1>5, <1>6, <1>7, <1>8 DEF Next

\* Nothing has been skipped at the start.
LEMMA RefsInit == Init => Refs
<1> SUFFICES ASSUME Init PROVE Refs  OBVIOUS
<1>1. Fed = {}  BY DEF Init, Fed, Held
<1>2. fate \in [DOMAIN Items -> Fates] /\ \A i \in DOMAIN Items : fate[i] = "queued"
  BY DEF Init, Fates
<1>3. Len(Items) \in Nat /\ <<>> \in Seq(Nat)  BY ItemsAre
<1>4. /\ taken = 0 /\ arrived = 0 /\ pc = "pop" /\ inside \in Seq(Nat)
      /\ skipping \in BOOLEAN /\ ~InHand
  BY <1>3 DEF Init, InHand
<1>5. Known  BY <1>1, <1>2, <1>3, <1>4 DEF Known
<1> QED  BY <1>2, <1>5 DEF Init, Refs, Recovered, ReferencesAreThere, DrainIsFor

\* Whatever packets Decode discards, none is sent to the decoder before the next
\* keyframe (streamer.cpp:210), over drains, refusals, errors and the end of a pass.
THEOREM SkippingRespectsReferences == Spec => []ReferencesAreThere
<1>1. Refs => ReferencesAreThere  BY DEF Refs
<1> QED  BY RefsInit, RefsKept, <1>1, PTL DEF Spec
-----------------------------------------------------------------------------
\* The packet in hand has still to be judged or sent.
Pending == pc = "shed" \/ InHand

\* A drain is under way.
Receiving == pc \in {"receive", "judge", "emit"}

\* The marker that ends the pass may have been popped.
PassEnds == pc \in {"pass", "reset", "leave", "gone", "thrown"} \/ (Receiving /\ drain = "pass")

\* The decoder holds packets of one pass, in order, behind the frame it has handed out
\* and before the packet in hand.
Chain ==
    /\ \A m, n \in DOMAIN inside : m < n => inside[m] < inside[n]
    /\ pc \in {"judge", "emit"} => \A i \in Held : frame < i
    /\ Pending => Items[taken] # "marker" /\ \A i \in Held : i < taken
    /\ \A i \in Held : Items[i] # "marker"
    /\ \A i \in Held, k \in DOMAIN Items :
          i <= k /\ k <= taken /\ Items[k] = "marker" => k = taken /\ PassEnds

\* A stop or an error leaves the packet in hand to itself.
Abandoned == pc = "thrown" \/ (pc \in {"leave", "gone"} /\ stop)

\* Whose fate is open: what is inside, and the packet in hand.
Open ==
    /\ pc # "gone" => \A i \in Fed : fate[i] = "inside"
    /\ Pending => fate[taken] = "queued"
    /\ \A i \in DOMAIN Items : fate[i] = "inside" => i \in Fed /\ pc # "gone"
    /\ \A i \in DOMAIN Items :
          i <= taken /\ Items[i] # "marker" /\ fate[i] = "queued" =>
              i = taken /\ (Pending \/ Abandoned)

\* The end is drained when all has been popped, and only a stop ends the loop before.
Draining ==
    /\ Receiving /\ drain \in {"pass", "end"} /\ ~spurned => draining
    /\ pc = "end" \/ drain = "end" => taken = Len(Items)
    /\ pc \in {"leave", "gone"} /\ ~stop => drain = "end"

\* An earlier packet of the same pass was an error.
Excused(i) ==
    \E j \in 1..i - 1 : fate[j] = "failed" /\ \A k \in j..i : Items[k] # "marker"

\* What was cut, and what is about to be, has its excuse.
Excuses ==
    ~stop /\ ~spurned =>
        /\ \A i \in DOMAIN Items : fate[i] = "cut" => Excused(i)
        /\ pc \in {"reset", "leave"} => \A i \in Held : Excused(i)

\* Every packet is where its fate says, and in the order of the input.
Whole == Refs /\ Chain /\ Open /\ Draining /\ Excuses

\* The types that the steps below need.
LEMMA KnownFacts ==
  ASSUME Refs
  PROVE  /\ taken \in Nat /\ arrived \in Nat /\ taken <= arrived /\ arrived <= Len(Items)
         /\ Len(Items) \in Nat /\ DOMAIN Items = 1..Len(Items)
         /\ inside \in Seq(Nat) /\ Len(inside) \in Nat /\ fate \in [DOMAIN Items -> Fates]
         /\ \A i \in Fed : i \in DOMAIN Items /\ i <= taken
         /\ Held \subseteq Fed
         /\ \A i \in DOMAIN Items : i > taken => fate[i] = "queued"
         /\ Pending => taken \in DOMAIN Items
<1>1. Len(Items) \in Nat /\ DOMAIN Items = 1..Len(Items)  BY ItemsAre
<1>2. Known  BY DEF Refs
<1>3. inside \in Seq(Nat) /\ Len(inside) \in Nat  BY <1>2 DEF Known
<1>4. Pending => taken >= 1  BY <1>2 DEF Known, Pending
<1> QED  BY <1>1, <1>2, <1>3, <1>4 DEF Known, Fed

\* What becomes of each item.
LEMMA Becomes ==
  ASSUME fate \in [DOMAIN Items -> Fates], NEW S, NEW what, Become(S, what)
  PROVE  \A i \in DOMAIN Items : fate'[i] = IF i \in S THEN what ELSE fate[i]
BY DEF Become

\* An excuse lasts, because nothing else becomes of a packet that has failed.
LEMMA ExcuseKept ==
  ASSUME NEW i \in DOMAIN Items, Excused(i),
         \A j \in DOMAIN Items : fate[j] = "failed" => fate'[j] = "failed"
  PROVE  Excused(i)'
<1>1. DOMAIN Items = 1..Len(Items) /\ Len(Items) \in Nat  BY ItemsAre
<1>2. PICK j \in 1..i - 1 : fate[j] = "failed" /\ \A k \in j..i : Items[k] # "marker"
  BY DEF Excused
<1>3. j \in DOMAIN Items  BY <1>1, <1>2
<1> QED  BY <1>2, <1>3 DEF Excused

\* The first packet leaves the decoder.
LEMMA FirstLeaves ==
  ASSUME inside \in Seq(Nat), inside # <<>>, inside' = Tail(inside),
         \A m, n \in DOMAIN inside : m < n => inside[m] < inside[n]
  PROVE  /\ \A m, n \in DOMAIN inside' : m < n => inside'[m] < inside'[n]
         /\ Held = Held' \union {Head(inside)} /\ \A i \in Held' : Head(inside) < i
         /\ Len(inside') = Len(inside) - 1 /\ Len(inside) \in Nat /\ inside' \in Seq(Nat)
<1>1. /\ Len(inside) \in Nat \ {0} /\ DOMAIN inside = 1..Len(inside) /\ Head(inside) = inside[1]
      /\ Len(inside') = Len(inside) - 1 /\ inside' \in Seq(Nat) /\ DOMAIN inside' = 1..Len(inside) - 1
      /\ \A n \in 1..Len(inside) - 1 : inside'[n] = inside[n + 1]
  OBVIOUS
<1>2. \A m, n \in DOMAIN inside' : m < n => inside'[m] < inside'[n]  BY <1>1, SMTT(30)
<1>3. ASSUME NEW i \in Held' PROVE i \in Held /\ Head(inside) < i
  <2>1. PICK n \in DOMAIN inside' : i = inside'[n]  BY DEF Held
  <2>2. n + 1 \in DOMAIN inside /\ 1 \in DOMAIN inside /\ 1 < n + 1 /\ i = inside[n + 1]  BY <1>1, <2>1
  <2> QED  BY <1>1, <2>2 DEF Held
<1>4. ASSUME NEW i \in Held PROVE i \in Held' \union {Head(inside)}
  <2>1. PICK n \in DOMAIN inside : i = inside[n]  BY DEF Held
  <2>2. CASE n = 1  BY <1>1, <2>1, <2>2
  <2>3. CASE n # 1
    <3>1. n - 1 \in DOMAIN inside' /\ inside'[n - 1] = inside[n]  BY <1>1, <2>1, <2>3
    <3> QED  BY <2>1, <3>1 DEF Held
  <2> QED  BY <2>2, <2>3
<1>5. Head(inside) \in Held  BY <1>1 DEF Held
<1> QED  BY <1>1, <1>2, <1>3, <1>4, <1>5

\* A step that decides nothing about a packet.
LEMMA WholeMoves ==
  ASSUME Whole, Refs', UNCHANGED <<taken, inside, fate>>, stop => stop', spurned => spurned',
         pc # "gone" => pc' # "gone",
         Fed' = Fed, Pending' <=> Pending, PassEnds => PassEnds',
         pc \in {"thrown", "leave", "gone"} => pc' = pc,
         pc' \in {"judge", "emit"} => pc \in {"judge", "emit"} /\ frame' = frame,
         pc' \in {"reset", "leave"} /\ ~stop' /\ ~spurned' => pc = pc' \/ Held = {},
         Draining'
  PROVE  Whole'
<1>1. Held' = Held  BY DEF Held
<1>2. Chain'  BY <1>1 DEF Whole, Chain
<1>3. Open'  BY DEF Whole, Open, Abandoned
<1>4. \A i : Excused(i)' <=> Excused(i)  BY DEF Excused
<1>5. Excuses'  BY <1>1, <1>4 DEF Whole, Excuses
<1> QED  BY <1>2, <1>3, <1>5 DEF Whole

\* A packet that is popped comes after those inside; a marker ends their pass.
LEMMA PopsWhole == ASSUME Whole, Pops PROVE Whole'
<1>1. Refs'  BY PopsRefs DEF Whole
<1>2. /\ pc = "pop" /\ taken' = taken + 1
      /\ \/ pc' = "pass" /\ Items[taken'] = "marker"
         \/ pc' = "shed" /\ Items[taken'] # "marker"
      /\ UNCHANGED <<drain, frame, inside, draining, fate, stop, spurned>> /\ taken < arrived
  <2>1. arrived - taken > 0 /\ arrived \in Nat /\ taken \in Nat  BY KnownFacts DEF Pops, Size, Whole
  <2> QED  BY <2>1 DEF Pops, world, decoder
<1>3. Refs /\ Chain /\ Open /\ Draining /\ Excuses  BY DEF Whole
<1>4. /\ taken \in Nat /\ arrived \in Nat /\ arrived <= Len(Items)
      /\ Len(Items) \in Nat /\ DOMAIN Items = 1..Len(Items)
      /\ \A i \in Held : i \in DOMAIN Items /\ i <= taken
      /\ \A i \in DOMAIN Items : i > taken => fate[i] = "queued"
  BY <1>3, KnownFacts
<1>5. Held' = Held /\ Fed = Held /\ Fed' = Held /\ ~Pending /\ ~PassEnds /\ (Pending' <=> pc' = "shed")
      /\ (PassEnds' <=> pc' = "pass")
  BY <1>2 DEF Held, Fed, Pending, InHand, PassEnds, Receiving
<1>6. Chain'
  <2>1. \A i \in Held, k \in DOMAIN Items :
          i <= k /\ k <= taken' /\ Items[k] = "marker" => k = taken' /\ PassEnds'
    <3> SUFFICES ASSUME NEW i \in Held, NEW k \in DOMAIN Items, i <= k, k <= taken', Items[k] = "marker"
                 PROVE  k = taken' /\ PassEnds'
      OBVIOUS
    <3>1. ~(k <= taken)  BY <1>3, <1>5 DEF Chain
    <3>2. k = taken'  BY <1>2, <1>4, <3>1
    <3> QED  BY <1>2, <1>5, <3>2
  <2>2. Pending' => Items[taken'] # "marker" /\ \A i \in Held' : i < taken'  BY <1>2, <1>4, <1>5
  <2> QED  BY <1>2, <1>3, <1>5, <2>1, <2>2 DEF Chain
<1>7. Open'
  <2>1. taken' \in DOMAIN Items /\ fate'[taken'] = "queued"  BY <1>2, <1>4
  <2>2. ASSUME NEW i \in DOMAIN Items, i <= taken', Items[i] # "marker", fate'[i] = "queued"
        PROVE  i = taken' /\ (Pending' \/ Abandoned')
    <3>1. ~(i <= taken)  BY <1>2, <1>3, <1>5, <2>2 DEF Open, Abandoned
    <3>2. i = taken'  BY <1>2, <1>4, <2>2, <3>1
    <3> QED  BY <1>2, <1>5, <2>2, <3>2
  <2> QED  BY <1>2, <1>3, <1>5, <2>1, <2>2 DEF Open
<1>8. Draining'
  <2>1. taken # Len(Items)
    <3> DEFINE L == Len(Items)
    <3>1. taken < arrived /\ arrived <= L /\ taken \in Nat /\ arrived \in Nat /\ L \in Nat
      BY <1>2, <1>4
    <3> HIDE DEF L
    <3>2. taken < L  BY <3>1
    <3>3. taken # L  BY <3>1, <3>2
    <3> QED  BY <3>3 DEF L
  <2>2. drain # "end"  BY <1>3, <2>1 DEF Draining
  <2> QED  BY <1>2, <2>2 DEF Draining, Receiving
<1>9. Excuses'  BY <1>2, <1>3 DEF Excuses, Excused
<1> QED  BY <1>1, <1>6, <1>7, <1>8, <1>9 DEF Whole

\* The last item has been popped when the queue is empty and nothing more will come.
LEMMA EndsWhole == ASSUME Whole, PopsNothing \/ SendsNull, Refs' PROVE Whole'
<1>1. Refs /\ Draining  BY DEF Whole
<1>2. CASE PopsNothing
  <2>1. /\ pc = "pop" /\ UNCHANGED <<taken, drain, inside, draining, fate, stop, spurned, arrived>>
        /\ pc' \in {"leave", "end"} /\ (pc' = "leave" <=> stop)
        /\ ~stop => arrived = Len(Items)
        /\ arrived - taken <= 0
    <3>1. arrived \in Nat /\ taken \in Nat  BY <1>1, KnownFacts
    <3>2. ~(arrived - taken > 0) => arrived - taken <= 0  BY <3>1
    <3>3. Size = 0 => arrived - taken <= 0  BY <3>1 DEF Size
    <3> QED  BY <1>2, <3>3 DEF PopsNothing, world, decoder
  <2>2. Held' = Held /\ Fed = Held /\ Fed' = Held /\ ~Pending /\ ~Pending' /\ ~PassEnds
    BY <2>1 DEF Held, Fed, Pending, InHand, PassEnds, Receiving
  <2>3. ~stop => taken = Len(Items)
    <3>1. taken \in Nat /\ arrived \in Nat /\ taken <= arrived  BY <1>1, KnownFacts
    <3>2. taken = arrived  BY <2>1, <3>1
    <3> QED  BY <2>1, <3>2
  <2>4. Draining'  BY <1>1, <2>1, <2>3 DEF Draining, Receiving
  <2> QED  BY <2>1, <2>2, <2>4, WholeMoves
<1>3. CASE SendsNull
  <2>1. /\ pc \in {"pass", "end"} /\ pc' = "receive" /\ drain' = pc
        /\ UNCHANGED <<taken, inside, fate, stop>>
        /\ \/ draining' = TRUE /\ spurned' = spurned
           \/ spurned' = TRUE /\ draining' = draining
    BY <1>3 DEF SendsNull, world
  <2>2. Held' = Held /\ Fed = Held /\ Fed' = Held /\ ~Pending /\ ~Pending' /\ (PassEnds => PassEnds')
    BY <2>1 DEF Held, Fed, Pending, InHand, PassEnds, Receiving
  <2>3. Draining'  BY <1>1, <2>1 DEF Draining, Receiving
  <2>4. spurned => spurned'  BY <2>1
  <2> QED  BY <2>1, <2>2, <2>3, <2>4, WholeMoves
<1> QED  BY <1>2, <1>3

\* A step that decides about the packet in hand, and is done with it: skipped, given up or failed.
LEMMA WholeDecides ==
  ASSUME Whole, Refs', Pending, ~Pending', NEW what \in {"skipped", "refused", "failed"},
         Become({taken}, what), UNCHANGED <<taken, inside, stop, spurned, draining>>,
         Fed' = Fed, pc \in {"shed", "send", "retry"},
         (pc' \in {"pop", "thrown"} /\ drain' = drain) \/ (pc' \in {"receive", "thrown"} /\ drain' = "after")
  PROVE  Whole'
<1>1. Refs /\ Chain /\ Open /\ Draining /\ Excuses  BY DEF Whole
<1>2. /\ taken \in DOMAIN Items /\ DOMAIN Items = 1..Len(Items) /\ Len(Items) \in Nat
      /\ fate \in [DOMAIN Items -> Fates]
      /\ Held \subseteq DOMAIN Items /\ taken \notin Held /\ Fed = Held /\ Held' = Held
  <2>1. Fed = Held /\ Held' = Held  BY DEF Fed, Held
  <2>2. \A i \in Held : i \in DOMAIN Items /\ i < taken
    BY <1>1, <2>1, KnownFacts DEF Chain
  <2> QED  BY <1>1, <2>1, <2>2, KnownFacts
<1>3. \A i \in DOMAIN Items : fate'[i] = IF i = taken THEN what ELSE fate[i]
  <2>1. \A i \in DOMAIN Items : fate'[i] = IF i \in {taken} THEN what ELSE fate[i]
    BY <1>2, Becomes
  <2> QED  BY <2>1
<1>4. fate[taken] = "queued"  BY <1>1 DEF Open
<1>5. ~PassEnds  BY DEF PassEnds, Receiving
<1>6. Chain'
  <2>1. \A i \in Held, k \in DOMAIN Items : ~(i <= k /\ k <= taken /\ Items[k] = "marker")
    BY <1>1, <1>5 DEF Chain
  <2>2. pc' \notin {"judge", "emit"}  OBVIOUS
  <2> QED  BY <1>1, <1>2, <2>1, <2>2 DEF Chain
<1>7. Open'
  <2>1. \A i \in Fed' : fate'[i] = "inside"  BY <1>1, <1>2, <1>3 DEF Open
  <2>2. \A i \in DOMAIN Items : fate'[i] = "inside" => i \in Fed'  BY <1>1, <1>2, <1>3 DEF Open
  <2>3. ASSUME NEW i \in DOMAIN Items, i <= taken', Items[i] # "marker", fate'[i] = "queued" PROVE FALSE
    BY <1>1, <1>3, <2>3 DEF Open
  <2> QED  BY <2>1, <2>2, <2>3 DEF Open
<1>8. Draining'
  <2>1. pc' \notin {"end", "leave", "gone", "judge", "emit"} /\ (pc' = "receive" => drain' = "after")
        /\ (drain' = drain \/ drain' = "after")
    OBVIOUS
  <2> QED  BY <1>1, <2>1 DEF Draining, Receiving
<1>9. Excuses'
  <2>1. \A j \in DOMAIN Items : fate[j] = "failed" => fate'[j] = "failed"  BY <1>3, <1>4
  <2>2. \A i \in DOMAIN Items : fate'[i] = "cut" => fate[i] = "cut"  BY <1>3
  <2>3. pc' \notin {"reset", "leave"}  OBVIOUS
  <2> QED  BY <1>1, <2>1, <2>2, <2>3, ExcuseKept DEF Excuses
<1> QED  BY <1>6, <1>7, <1>8, <1>9 DEF Whole

\* A packet is skipped, or stays in hand.
LEMMA ShedsWhole == ASSUME Whole, Sheds PROVE Whole'
<1>1. Refs'  BY ShedsRefs DEF Whole
<1>2. pc = "shed" /\ UNCHANGED <<taken, inside, stop, spurned, draining, drain, frame>>
  BY DEF Sheds, world, decoder
<1>3. Fed' \subseteq Held' \union {frame} /\ Held' = Held /\ Fed = Held /\ Pending
  BY <1>2 DEF Fed, Held, Pending
<1>4. CASE Become({taken}, "skipped") /\ pc' = "pop"
  <2>1. Fed' = Fed /\ ~Pending'  BY <1>3, <1>4 DEF Fed, Pending, InHand
  <2>2. "skipped" \in {"skipped", "refused", "failed"}  OBVIOUS
  <2>3. (pc' \in {"pop", "thrown"} /\ drain' = drain) \/ (pc' \in {"receive", "thrown"} /\ drain' = "after")
    BY <1>2, <1>4
  <2>4. pc \in {"shed", "send", "retry"}  BY <1>2
  <2> QED  BY <1>1, <1>2, <1>3, <1>4, <2>1, <2>2, <2>3, <2>4, WholeDecides
<1>5. CASE pc' = "send" /\ UNCHANGED fate
  <2>1. Fed' = Fed /\ Pending' /\ ~PassEnds  BY <1>2, <1>3, <1>5 DEF Fed, Pending, InHand, PassEnds, Receiving
  <2>2. Draining'  BY <1>2, <1>5 DEF Whole, Draining, Receiving
  <2> QED  BY <1>1, <1>2, <1>3, <1>5, <2>1, <2>2, WholeMoves
<1> QED  BY <1>4, <1>5 DEF Sheds

\* A packet is given up, or stays in hand.
LEMMA RetriesWhole == ASSUME Whole, Retries PROVE Whole'
<1>1. Refs'  BY RetriesRefs DEF Whole
<1>2. pc = "retry" /\ UNCHANGED <<taken, inside, stop, spurned, draining, frame>>
  BY DEF Retries, world, decoder
<1>3. Held' = Held /\ Fed = Held /\ Pending  BY <1>2 DEF Fed, Held, Pending, InHand
<1>4. CASE Become({taken}, "refused") /\ drain' = "after" /\ pc' = "receive"
  <2>1. Fed' = Fed /\ ~Pending'  BY <1>3, <1>4 DEF Fed, Pending, InHand
  <2> QED  BY <1>1, <1>2, <1>3, <1>4, <2>1, WholeDecides
<1>5. CASE pc' = "send" /\ UNCHANGED <<fate, drain>>
  <2>1. Fed' = Fed /\ Pending' /\ ~PassEnds  BY <1>2, <1>3, <1>5 DEF Fed, Pending, InHand, PassEnds, Receiving
  <2>2. Draining'  BY <1>2, <1>5 DEF Whole, Draining, Receiving
  <2> QED  BY <1>1, <1>2, <1>3, <1>5, <2>1, <2>2, WholeMoves
<1> QED  BY <1>4, <1>5 DEF Retries

\* An accepted packet comes last, and belongs to the pass of those before it.
LEMMA AcceptWhole ==
  ASSUME Whole, Refs', pc = "send", inside' = Append(inside, taken), Become({taken}, "inside"),
         drain' = "after", pc' = "receive", UNCHANGED <<taken, stop, spurned, draining>>
  PROVE  Whole'
<1>1. Refs /\ Chain /\ Open /\ Draining /\ Excuses  BY DEF Whole
<1>2. Pending /\ ~Pending' /\ ~PassEnds /\ ~PassEnds' /\ Fed = Held /\ Fed' = Held'
  BY DEF Pending, InHand, PassEnds, Receiving, Fed
<1>3. /\ taken \in DOMAIN Items /\ DOMAIN Items = 1..Len(Items) /\ Len(Items) \in Nat
      /\ fate \in [DOMAIN Items -> Fates] /\ inside \in Seq(Nat)
      /\ \A i \in Held : i \in DOMAIN Items /\ i < taken
  BY <1>1, <1>2, KnownFacts DEF Chain
<1>4. /\ DOMAIN inside' = DOMAIN inside \union {Len(inside) + 1} /\ DOMAIN inside = 1..Len(inside)
      /\ Len(inside) \in Nat
      /\ \A n \in DOMAIN inside : inside'[n] = inside[n]
      /\ inside'[Len(inside) + 1] = taken
  BY <1>3
<1>5. Held' = Held \union {taken}  BY <1>4 DEF Held
<1>6. \A i \in DOMAIN Items : fate'[i] = IF i = taken THEN "inside" ELSE fate[i]
  <2>1. \A i \in DOMAIN Items : fate'[i] = IF i \in {taken} THEN "inside" ELSE fate[i]
    BY <1>3, Becomes
  <2> QED  BY <2>1
<1>7. Chain'
  <2>1. ASSUME NEW m \in DOMAIN inside', NEW n \in DOMAIN inside', m < n PROVE inside'[m] < inside'[n]
    <3>1. m \in DOMAIN inside  BY <1>4, <2>1
    <3>2. CASE n \in DOMAIN inside  BY <1>1, <1>4, <2>1, <3>1, <3>2 DEF Chain
    <3>3. CASE n = Len(inside) + 1
      <4>1. inside[m] \in Held  BY <3>1 DEF Held
      <4> QED  BY <1>3, <1>4, <3>1, <3>3, <4>1
    <3> QED  BY <1>4, <3>2, <3>3
  <2>2. Items[taken] # "marker"  BY <1>1, <1>2 DEF Chain
  <2>3. ASSUME NEW i \in Held', NEW k \in DOMAIN Items, i <= k, k <= taken PROVE Items[k] # "marker"
    <3>1. CASE i \in Held  BY <1>1, <1>2, <2>3, <3>1 DEF Chain
    <3>2. CASE i = taken
      <4>1. k = taken  BY <1>3, <2>3, <3>2
      <4> QED  BY <2>2, <4>1
    <3> QED  BY <1>5, <3>1, <3>2
  <2>4. \A i \in Held' : Items[i] # "marker"  BY <1>1, <1>5, <2>2 DEF Chain
  <2> QED  BY <1>2, <2>1, <2>3, <2>4 DEF Chain
<1>8. Open'
  <2>1. \A i \in Fed' : fate'[i] = "inside"  BY <1>1, <1>2, <1>3, <1>5, <1>6 DEF Open
  <2>2. \A i \in DOMAIN Items : fate'[i] = "inside" => i \in Fed'  BY <1>1, <1>2, <1>5, <1>6 DEF Open
  <2>3. ASSUME NEW i \in DOMAIN Items, i <= taken', Items[i] # "marker", fate'[i] = "queued" PROVE FALSE
    BY <1>1, <1>6, <2>3 DEF Open
  <2> QED  BY <1>2, <2>1, <2>2, <2>3 DEF Open
<1>9. Draining'  BY <1>1 DEF Draining, Receiving
<1>10. Excuses'
  <2>1. fate[taken] = "queued"  BY <1>1, <1>2 DEF Open
  <2>2. \A j \in DOMAIN Items : fate[j] = "failed" => fate'[j] = "failed"  BY <1>6, <2>1
  <2>3. \A i \in DOMAIN Items : fate'[i] = "cut" => fate[i] = "cut"  BY <1>6
  <2> QED  BY <1>1, <2>2, <2>3, ExcuseKept DEF Excuses
<1> QED  BY <1>7, <1>8, <1>9, <1>10 DEF Whole

\* A packet is accepted, stays in hand, or is an error.
LEMMA SendsWhole == ASSUME Whole, Sends PROVE Whole'
<1>1. Refs'  BY SendsRefs DEF Whole
<1>2. pc = "send" /\ UNCHANGED <<taken, stop, spurned, draining, frame>>  BY DEF Sends, world
<1>3. Fed = Held /\ Pending /\ ~PassEnds  BY <1>2 DEF Fed, Pending, InHand, PassEnds, Receiving
<1>4. CASE inside' = Append(inside, taken) /\ Become({taken}, "inside") /\ drain' = "after" /\ pc' = "receive"
  BY <1>1, <1>2, <1>4, AcceptWhole
<1>5. CASE drain' = "full" /\ pc' = "receive" /\ UNCHANGED <<inside, fate>>
  <2>1. Fed' = Fed /\ Pending'  BY <1>3, <1>5 DEF Fed, Held, Pending, InHand
  <2>2. Draining'  BY <1>2, <1>5 DEF Whole, Draining, Receiving
  <2> QED  BY <1>1, <1>2, <1>3, <1>5, <2>1, <2>2, WholeMoves
<1>6. CASE Become({taken}, "failed") /\ NoteError("receive") /\ drain' = "after" /\ UNCHANGED inside
  <2>1. pc' \in {"thrown", "receive"}  BY <1>6 DEF NoteError
  <2>2. Fed' = Fed /\ ~Pending'  BY <1>3, <1>6, <2>1 DEF Fed, Held, Pending, InHand
  <2> QED  BY <1>1, <1>2, <1>3, <1>6, <2>1, <2>2, WholeDecides
<1> QED  BY <1>4, <1>5, <1>6 DEF Sends

\* While a drain lasts, its end is at hand, and what it decides about the next place.
LEMMA AfterDrain ==
  ASSUME Whole, pc = "receive", pc' = Continues \/ pc' = "thrown", UNCHANGED <<taken, drain, stop, spurned>>
  PROVE  /\ pc' \in {"reset", "leave", "pop", "retry", "thrown"}
         /\ Pending <=> drain = "full"
         /\ Pending' <=> drain = "full" /\ pc' # "thrown"
         /\ PassEnds => PassEnds'
         /\ pc' \in {"reset", "leave"} => drain \in {"pass", "end"}
         /\ Draining'
<1>1. Refs /\ Draining  BY DEF Whole
<1>2. /\ Continues \in {"reset", "leave", "pop", "retry"} /\ drain \in {"pass", "end", "after", "full"}
      /\ Continues = "retry" => drain = "full"
      /\ Continues = "reset" => drain = "pass"
      /\ Continues = "pop" => drain = "after"
      /\ Continues = "leave" => drain = "end"
  BY <1>1, ContinuesAt DEF Refs, DrainIsFor
<1> DEFINE c == Continues
<1> HIDE DEF c
<1>3. /\ c \in {"reset", "leave", "pop", "retry"} /\ (pc' = c \/ pc' = "thrown")
      /\ c = "retry" => drain = "full"
      /\ c = "reset" => drain = "pass"
      /\ c = "pop" => drain = "after"
      /\ c = "leave" => drain = "end"
  BY <1>2 DEF c
<1>4. Draining'  BY <1>1, <1>3 DEF Draining, Receiving
<1>5. (Pending <=> drain = "full") /\ (Pending' <=> drain = "full" /\ pc' # "thrown")
  BY <1>2, <1>3 DEF Pending, InHand
<1>6. PassEnds => PassEnds'  BY <1>2, <1>3 DEF PassEnds, Receiving
<1> QED  BY <1>3, <1>4, <1>5, <1>6

\* The first packet inside becomes the frame in hand, or the drain is over.
LEMMA ReceivesWhole == ASSUME Whole, ReceivesFrame \/ ReceivesNothing PROVE Whole'
<1>1. Refs'  BY ReceivesRefs DEF Whole
<1>2. Refs /\ Chain /\ Open /\ Draining /\ Excuses  BY DEF Whole
<1>3. pc = "receive" /\ UNCHANGED <<taken, drain, stop, spurned, draining, fate>> /\ Fed = Held
  BY DEF ReceivesFrame, ReceivesNothing, world, decoder, Fed
<1>4. CASE ReceivesFrame
  <2>1. pc' = "judge" /\ inside # <<>> /\ frame' = Head(inside) /\ inside' = Tail(inside)
    BY <1>4 DEF ReceivesFrame, HasFrame
  <2>2. inside \in Seq(Nat)  BY <1>2, KnownFacts
  <2>3. /\ \A m, n \in DOMAIN inside' : m < n => inside'[m] < inside'[n]
        /\ Held = Held' \union {frame'} /\ \A i \in Held' : frame' < i
    BY <1>2, <2>1, <2>2, FirstLeaves DEF Chain
  <2>4. Fed' = Fed /\ (Pending' <=> Pending) /\ (PassEnds' <=> PassEnds)
    BY <1>3, <2>1, <2>3 DEF Fed, Pending, InHand, PassEnds, Receiving
  <2>5. Chain'  BY <1>2, <1>3, <2>1, <2>3, <2>4 DEF Chain
  <2>6. Open'
    BY <1>2, <1>3, <2>1, <2>4 DEF Open, Abandoned
  <2>7. Draining'  BY <1>2, <1>3, <2>1 DEF Draining, Receiving
  <2>8. Excuses'  BY <1>2, <1>3, <2>1 DEF Excuses, Excused
  <2> QED  BY <1>1, <2>5, <2>6, <2>7, <2>8 DEF Whole
<1>5. CASE ReceivesNothing
  <2>1. ~HasFrame /\ pc' = Continues /\ UNCHANGED <<inside, frame>>  BY <1>5 DEF ReceivesNothing, decoder
  <2>2. /\ pc' \in {"reset", "leave", "pop", "retry", "thrown"}
        /\ (Pending' <=> Pending) \/ pc' = "thrown"
        /\ PassEnds => PassEnds'
        /\ pc' \in {"reset", "leave"} => drain \in {"pass", "end"}
        /\ Draining'
    BY <1>3, <2>1, AfterDrain
  <2>3. pc' # "thrown"
    <3>1. Continues # "thrown"  BY <1>2, <1>3, ContinuesAt DEF Refs
    <3> QED  BY <2>1, <3>1
  <2>4. Fed' = Fed  BY <1>3, <2>1, <2>2 DEF Fed, Held
  <2>5. pc' \in {"reset", "leave"} /\ ~spurned' => Held = {}
    <3>1. pc' \in {"reset", "leave"} /\ ~spurned' => draining
      BY <1>2, <1>3, <2>2 DEF Draining, Receiving
    <3>2. draining => inside = <<>>  BY <2>1 DEF HasFrame
    <3>3. inside = <<>> => Held = {}  BY DEF Held
    <3> QED  BY <3>1, <3>2, <3>3
  <2> QED  BY <1>1, <1>3, <2>1, <2>2, <2>3, <2>4, <2>5, WholeMoves
<1> QED  BY <1>4, <1>5

\* The packet that fails is the excuse of those that are cut behind it.
LEMMA ErrorWhole == ASSUME Whole, ReceivesError PROVE Whole'
<1> DEFINE h == Head(inside)
<1>1. Refs'  BY ReceivesRefs DEF Whole
<1>2. Refs /\ Chain /\ Open /\ Draining /\ Excuses  BY DEF Whole
<1>3. /\ pc = "receive" /\ UNCHANGED <<taken, drain, stop, spurned, draining>>
      /\ pc' \in {"thrown", Continues} /\ inside' = Tail(inside) /\ inside # <<>>
      /\ Become({h}, "failed")
  BY DEF ReceivesError, NoteError, HasFrame, world
<1>4. /\ inside \in Seq(Nat) /\ fate \in [DOMAIN Items -> Fates] /\ taken \in Nat
      /\ DOMAIN Items = 1..Len(Items) /\ Len(Items) \in Nat
      /\ \A i \in Held : i \in DOMAIN Items /\ i <= taken
  BY <1>2, KnownFacts
<1>5. /\ \A m, n \in DOMAIN inside' : m < n => inside'[m] < inside'[n]
      /\ Held = Held' \union {h} /\ \A i \in Held' : h < i
  BY <1>2, <1>3, <1>4, FirstLeaves DEF Chain
<1>6. /\ pc' \in {"reset", "leave", "pop", "retry", "thrown"}
      /\ Pending <=> drain = "full"
      /\ Pending' <=> drain = "full" /\ pc' # "thrown"
      /\ PassEnds => PassEnds'
      /\ pc' \in {"reset", "leave"} => drain \in {"pass", "end"}
      /\ Draining'
  BY <1>3, AfterDrain
<1>7. Fed = Held /\ Fed' = Held'  BY <1>3, <1>6 DEF Fed
<1>8. \A i \in DOMAIN Items : fate'[i] = IF i = h THEN "failed" ELSE fate[i]
  <2>1. \A i \in DOMAIN Items : fate'[i] = IF i \in {h} THEN "failed" ELSE fate[i]
    BY <1>3, <1>4, Becomes
  <2> QED  BY <2>1
<1>9. h \in DOMAIN Items /\ fate[h] = "inside" /\ h \notin Held'
  <2>1. h \in DOMAIN Items /\ fate[h] = "inside"  BY <1>2, <1>3, <1>4, <1>5, <1>7 DEF Open
  <2>2. \A i \in Held' : i # h  BY <1>4, <1>5, <2>1
  <2> QED  BY <2>1, <2>2
<1> HIDE DEF h
<1>10. Chain'  BY <1>2, <1>3, <1>5, <1>6 DEF Chain
<1>11. Open'
  <2>1. \A i \in Fed' : fate'[i] = "inside"  BY <1>2, <1>3, <1>4, <1>5, <1>7, <1>8, <1>9 DEF Open
  <2>2. Pending' => fate'[taken] = "queued"
    <3>1. Pending' => Pending /\ taken \in DOMAIN Items  BY <1>2, <1>6, KnownFacts
    <3>2. Pending' => fate[taken] = "queued"  BY <1>2, <3>1 DEF Open
    <3> QED  BY <1>8, <1>9, <3>1, <3>2
  <2>3. \A i \in DOMAIN Items : fate'[i] = "inside" => i \in Fed' /\ pc' # "gone"
    BY <1>2, <1>5, <1>6, <1>7, <1>8, <1>9 DEF Open
  <2>4. ASSUME NEW i \in DOMAIN Items, i <= taken', Items[i] # "marker", fate'[i] = "queued"
        PROVE  i = taken' /\ (Pending' \/ Abandoned')
    <3>1. fate[i] = "queued"  BY <1>8, <2>4
    <3>2. i = taken /\ (Pending \/ Abandoned)  BY <1>2, <1>3, <2>4, <3>1 DEF Open
    <3>3. ~Abandoned  BY <1>3 DEF Abandoned
    <3> QED  BY <1>3, <1>6, <3>2, <3>3 DEF Abandoned
  <2> QED  BY <1>3, <2>1, <2>2, <2>3, <2>4 DEF Open
<1>12. Excuses'
  <2> SUFFICES ASSUME ~stop, ~spurned
               PROVE  /\ \A i \in DOMAIN Items : fate'[i] = "cut" => Excused(i)'
                      /\ pc' \in {"reset", "leave"} => \A i \in Held' : Excused(i)'
    BY <1>3 DEF Excuses
  <2>1. \A j \in DOMAIN Items : fate[j] = "failed" => fate'[j] = "failed"  BY <1>8, <1>9
  <2>2. \A i \in DOMAIN Items : fate'[i] = "cut" => fate[i] = "cut"  BY <1>8
  <2>3. \A i \in DOMAIN Items : fate'[i] = "cut" => Excused(i)'
    BY <1>2, <2>1, <2>2, ExcuseKept DEF Excuses
  <2>4. ASSUME NEW i \in Held' PROVE Excused(i)'
    <3>1. h \in 1..i - 1 /\ fate'[h] = "failed" /\ i \in DOMAIN Items /\ i <= taken
      BY <1>4, <1>5, <1>8, <1>9
    <3>2. ASSUME NEW k \in h..i PROVE Items[k] # "marker"
      <4>1. k \in DOMAIN Items /\ h <= k /\ k <= taken  BY <1>4, <1>9, <3>1
      <4>2. h \in Held  BY <1>5
      <4>3. Items[k] = "marker" => k = taken  BY <1>2, <4>1, <4>2 DEF Chain
      <4>4. k = taken => k = i  BY <1>4, <3>1
      <4>5. Items[i] # "marker"  BY <1>2, <1>5 DEF Chain
      <4> QED  BY <4>3, <4>4, <4>5
    <3> QED  BY <3>1, <3>2 DEF Excused
  <2> QED  BY <2>3, <2>4
<1> QED  BY <1>1, <1>6, <1>10, <1>11, <1>12 DEF Whole

\* The frame in hand is shown or dropped; only a stop ends the drain here.
LEMMA HandsOnWhole == ASSUME Whole, Judges \/ Emits PROVE Whole'
<1>1. Refs'  BY HandsOnRefs DEF Whole
<1>2. Refs /\ Chain /\ Open /\ Draining /\ Excuses  BY DEF Whole
<1>3. /\ pc \in {"judge", "emit"} /\ UNCHANGED <<taken, drain, stop, spurned, draining, inside, frame>>
      /\ \/ pc' = "emit" /\ fate' = fate
         \/ pc' \in {"receive", "leave"} /\ (pc' = "leave" <=> stop)
            /\ \E what \in {"dropped", "shown"} : Become({frame}, what)
  BY DEF Judges, Emits, AfterFrame, world, decoder
<1>4. Held' = Held /\ Fed = Held \union {frame}  BY <1>3 DEF Held, Fed
<1>5. CASE pc' = "emit" /\ fate' = fate
  <2>1. Fed' = Fed /\ (Pending' <=> Pending) /\ (PassEnds' <=> PassEnds)
    BY <1>3, <1>4, <1>5 DEF Fed, Held, Pending, InHand, PassEnds, Receiving
  <2>2. Draining'  BY <1>2, <1>3, <1>5 DEF Draining, Receiving
  <2> QED  BY <1>1, <1>3, <1>5, <2>1, <2>2, WholeMoves
<1>6. ASSUME pc' \in {"receive", "leave"}, pc' = "leave" <=> stop,
             NEW what \in {"dropped", "shown"}, Become({frame}, what)
      PROVE  Whole'
  <2>1. /\ fate \in [DOMAIN Items -> Fates] /\ DOMAIN Items = 1..Len(Items) /\ Len(Items) \in Nat
        /\ \A i \in Fed : i \in DOMAIN Items /\ i <= taken
    BY <1>2, KnownFacts
  <2>2. \A i \in DOMAIN Items : fate'[i] = IF i = frame THEN what ELSE fate[i]
    <3>1. \A i \in DOMAIN Items : fate'[i] = IF i \in {frame} THEN what ELSE fate[i]
      BY <1>6, <2>1, Becomes
    <3> QED  BY <3>1
  <2>3. frame \in DOMAIN Items /\ fate[frame] = "inside" /\ frame \notin Held
    <3>1. frame \in DOMAIN Items /\ fate[frame] = "inside"  BY <1>2, <1>3, <1>4, <2>1 DEF Open
    <3>2. \A i \in Held : frame < i /\ i \in DOMAIN Items  BY <1>2, <1>3, <1>4, <2>1 DEF Chain
    <3> QED  BY <2>1, <3>1, <3>2
  <2>4. /\ Fed' = Held /\ (PassEnds => PassEnds')
        /\ (Pending <=> drain = "full") /\ (Pending' <=> drain = "full" /\ pc' = "receive")
    BY <1>3, <1>4, <1>6 DEF Fed, PassEnds, Receiving, Pending, InHand
  <2>5. Chain'  BY <1>2, <1>3, <1>4, <1>6, <2>4 DEF Chain
  <2>6. Open'
    <3>1. \A i \in Fed' : fate'[i] = "inside"  BY <1>2, <1>3, <1>4, <2>1, <2>2, <2>3, <2>4 DEF Open
    <3>2. Pending' => fate'[taken'] = "queued"
      <4>1. Pending' => Pending /\ taken \in DOMAIN Items  BY <1>2, <2>4, KnownFacts
      <4>2. Pending' => fate[taken] = "queued"  BY <1>2, <4>1 DEF Open
      <4> QED  BY <1>3, <2>2, <2>3, <4>1, <4>2
    <3>3. \A i \in DOMAIN Items : fate'[i] = "inside" => i \in Fed' /\ pc' # "gone"
      <4>1. \A i \in DOMAIN Items : fate[i] = "inside" => i \in Held \/ i = frame
        BY <1>2, <1>4 DEF Open
      <4> QED  BY <1>6, <2>2, <2>4, <4>1
    <3>4. ASSUME NEW i \in DOMAIN Items, i <= taken', Items[i] # "marker", fate'[i] = "queued"
          PROVE  i = taken' /\ (Pending' \/ Abandoned')
      <4>1. fate[i] = "queued"  BY <2>2, <3>4
      <4>2. i = taken /\ (Pending \/ Abandoned)  BY <1>2, <1>3, <3>4, <4>1 DEF Open
      <4>3. ~Abandoned  BY <1>3 DEF Abandoned
      <4> QED  BY <1>3, <1>6, <2>4, <4>2, <4>3 DEF Abandoned
    <3> QED  BY <3>1, <3>2, <3>3, <3>4 DEF Open
  <2>7. Draining'  BY <1>2, <1>3, <1>6 DEF Draining, Receiving
  <2>8. Excuses'
    <3>1. \A j \in DOMAIN Items : fate[j] = "failed" => fate'[j] = "failed"  BY <2>2, <2>3
    <3>2. \A i \in DOMAIN Items : fate'[i] = "cut" => fate[i] = "cut"  BY <2>2
    <3>3. ~stop' /\ ~spurned' => ~stop /\ ~spurned /\ pc' = "receive"  BY <1>3, <1>6
    <3> QED  BY <1>2, <3>1, <3>2, <3>3, ExcuseKept DEF Excuses
  <2> QED  BY <1>1, <2>5, <2>6, <2>7, <2>8 DEF Whole
<1> QED  BY <1>3, <1>5, <1>6

\* A reset empties the decoder, the end of the loop leaves it as it is.
LEMMA CutsWhole == ASSUME Whole, Resets \/ Leaves PROVE Whole'
<1>1. Refs'  BY CutsRefs DEF Whole
<1>2. Refs /\ Chain /\ Open /\ Draining /\ Excuses  BY DEF Whole
<1>3. /\ UNCHANGED <<taken, drain, stop, spurned>> /\ Become(Held, "cut")
      /\ \/ pc = "reset" /\ pc' = "pop" /\ inside' = <<>>
         \/ pc = "leave" /\ pc' = "gone" /\ inside' = inside
  BY DEF Resets, Leaves, world, decoder
<1>4. Fed = Held /\ Fed' = Held' /\ ~Pending /\ ~Pending' /\ (pc' = "gone" => PassEnds')
      /\ (pc' = "pop" => Held' = {}) /\ (pc' = "gone" => Held' = Held)
  BY <1>3 DEF Fed, Held, Pending, InHand, PassEnds
<1>5. fate \in [DOMAIN Items -> Fates] /\ \A i \in Held : i \in DOMAIN Items
  BY <1>2, KnownFacts
<1>6. \A i \in DOMAIN Items : fate'[i] = IF i \in Held THEN "cut" ELSE fate[i]
  BY <1>3, <1>5, Becomes
<1>7. Chain'
  <2>1. CASE pc' = "pop"
    <3>1. inside' = <<>> /\ Held' = {} /\ ~Pending'  BY <1>3, <1>4, <2>1
    <3> QED  BY <2>1, <3>1 DEF Chain
  <2>2. CASE pc' = "gone"
    <3>1. /\ pc \notin {"judge", "emit"} /\ inside' = inside /\ Held' = Held /\ ~Pending' /\ PassEnds'
          /\ taken' = taken
      BY <1>3, <1>4, <2>2
    <3> QED  BY <1>2, <2>2, <3>1 DEF Chain
  <2> QED  BY <1>3, <2>1, <2>2
<1>8. Open'
  <2>1. pc' # "gone" => \A i \in Fed' : fate'[i] = "inside"  BY <1>3, <1>4
  <2>2. \A i \in DOMAIN Items : fate'[i] # "inside"  BY <1>2, <1>4, <1>6 DEF Open
  <2>3. ASSUME NEW i \in DOMAIN Items, i <= taken', Items[i] # "marker", fate'[i] = "queued"
        PROVE  i = taken' /\ (Pending' \/ Abandoned')
    <3>1. fate[i] = "queued"  BY <1>6, <2>3
    <3>2. i = taken /\ Abandoned  BY <1>2, <1>3, <1>4, <2>3, <3>1 DEF Open
    <3> QED  BY <1>3, <3>2 DEF Abandoned
  <2> QED  BY <1>4, <2>1, <2>2, <2>3 DEF Open
<1>9. Draining'  BY <1>2, <1>3 DEF Draining, Receiving
<1>10. Excuses'
  <2>1. ASSUME ~stop, ~spurned, NEW i \in DOMAIN Items, fate'[i] = "cut" PROVE Excused(i)'
    <3>1. Excused(i)
      <4>1. CASE i \in Held  BY <1>2, <1>3, <2>1, <4>1 DEF Excuses
      <4>2. CASE i \notin Held  BY <1>2, <1>6, <2>1, <4>2 DEF Excuses
      <4> QED  BY <4>1, <4>2
    <3>2. \A j \in DOMAIN Items : fate[j] = "failed" => fate'[j] = "failed"
      <4>1. \A j \in Held : fate[j] = "inside"  BY <1>2, <1>3, <1>4 DEF Open
      <4> QED  BY <1>6, <4>1
    <3> QED  BY <3>1, <3>2, ExcuseKept
  <2>2. pc' \notin {"reset", "leave"} /\ stop' = stop /\ spurned' = spurned  BY <1>3
  <2> QED  BY <2>1, <2>2 DEF Excuses
<1> QED  BY <1>1, <1>7, <1>8, <1>9, <1>10 DEF Whole

\* No step of any actor breaks the bookkeeping of packets.
LEMMA WholeKept == Whole /\ [Next]_vars => Whole'
<1> SUFFICES ASSUME Whole, [Next]_vars PROVE Whole'  OBVIOUS
<1>1. Refs'  BY RefsKept DEF Whole
<1>2. CASE Decode
  BY <1>1, <1>2, PopsWhole, EndsWhole, CutsWhole, ShedsWhole, SendsWhole, RetriesWhole, ReceivesWhole,
     ErrorWhole, HandsOnWhole
     DEF Decode
<1>3. ASSUME UNCHANGED <<taken, pc, drain, frame, inside, draining, fate, spurned>>, stop => stop'
      PROVE  Whole'
  <2>1. Fed' = Fed /\ (Pending' <=> Pending) /\ (PassEnds' <=> PassEnds)
    BY <1>3 DEF Fed, Held, Pending, InHand, PassEnds, Receiving
  <2>2. Draining'  BY <1>3 DEF Whole, Draining, Receiving
  <2> QED  BY <1>1, <1>3, <2>1, <2>2, WholeMoves
<1>4. CASE Arrives  BY <1>3, <1>4 DEF Arrives, decoder
<1>5. CASE RequestStop  BY <1>3, <1>5 DEF RequestStop, decoder
<1>6. CASE Tick  BY <1>3, <1>6 DEF Tick, decoder
<1>7. CASE UNCHANGED vars  BY <1>3, <1>7 DEF vars, world, decoder
<1>8. CASE Ended  BY <1>7, <1>8 DEF Ended
<1> QED  BY ONLY [Next]_vars, <1>2, <1>4, <1>5, <1>6, <1>7, <1>8 DEF Next

\* Before the first packet there is nothing to keep.
LEMMA WholeInit == Init => Whole
<1> SUFFICES ASSUME Init PROVE Whole  OBVIOUS
<1>1. Refs  BY RefsInit
<1>2. /\ pc = "pop" /\ drain = "none" /\ inside = <<>> /\ taken = 0 /\ stop = FALSE
      /\ \A i \in DOMAIN Items : fate[i] = "queued" /\ ~(i <= 0)
  BY ItemsAre DEF Init
<1>3. Held = {} /\ Fed = {} /\ ~Pending
  BY <1>2 DEF Held, Fed, Pending, InHand
<1>4. Chain  BY <1>2, <1>3 DEF Chain
<1>5. Open  BY <1>2, <1>3 DEF Open
<1>6. Draining  BY <1>2 DEF Draining, Receiving
<1>7. Excuses  BY <1>2 DEF Excuses
<1> QED  BY <1>1, <1>4, <1>5, <1>6, <1>7 DEF Whole

\* A loop that ends by itself has popped all, and nothing is left in hand.
LEMMA GivesNothingCut == Whole => NothingIsCut
<1> SUFFICES ASSUME Whole, ~stop, ~spurned
             PROVE  /\ \A i \in DOMAIN Items : fate[i] = "cut" =>
                         \E j \in 1..i - 1 : /\ fate[j] = "failed"
                                             /\ \A k \in j..i : Items[k] # "marker"
                    /\ pc = "gone" =>
                         \A i \in DOMAIN Items : Items[i] = "marker" \/ fate[i] \notin {"queued", "inside"}
  BY DEF NothingIsCut
<1>1. Refs /\ Open /\ Draining /\ Excuses  BY DEF Whole
<1>2. \A i \in DOMAIN Items : fate[i] = "cut" => Excused(i)  BY <1>1 DEF Excuses
<1>3. ASSUME pc = "gone", NEW i \in DOMAIN Items, Items[i] # "marker"
      PROVE  fate[i] \notin {"queued", "inside"}
  <2>1. taken = Len(Items)  BY <1>1, <1>3 DEF Draining
  <2>2. i <= taken  BY <2>1, ItemsAre
  <2>3. ~Pending /\ ~Abandoned  BY <1>3 DEF Pending, InHand, Abandoned
  <2> QED  BY <1>1, <1>3, <2>2, <2>3 DEF Open
<1> QED  BY <1>2, <1>3 DEF Excused

\* Streamer::Decode drains the decoder at the end of a pass before it resets it, and at the
\* end of the input before it leaves (streamer.cpp:204): whatever the decoder holds back
\* and refuses, a picture is cut only behind an error of its own pass or after a drain
\* that was refused, and a loop that ends by itself has decided about every packet.
THEOREM DrainsAreComplete == Spec => []NothingIsCut
BY WholeInit, WholeKept, GivesNothingCut, PTL DEF Spec
-----------------------------------------------------------------------------
\* Packets that have still to be decoded.
InDecoder == Len(inside) + (IF Pending THEN 1 ELSE 0)

\* No time that is kept is later than now.
Times ==
    /\ now \in 0..MaxTime
    /\ behind_since \in 0..now \union {NotYet} /\ last_emitted \in 0..now \union {LongAgo}
    /\ m_errors_since \in 0..now \union {NotYet} /\ last_frame \in 0..now \union {NotYet}

\* The places of the loop; and a packet in hand may be offered once more.
Control ==
    /\ pc \in {"pop", "pass", "end", "shed", "send", "retry", "receive", "judge", "emit",
               "reset", "leave", "gone", "thrown"}
    /\ drain \in {"none", "pass", "end", "after", "full"}
    /\ frame \in 0..Len(Items)
    /\ attempts \in 0..MaxAttempts + 1 /\ (InHand => attempts <= MaxAttempts)
    /\ stop \in BOOLEAN /\ draining \in BOOLEAN /\ idle \in BOOLEAN /\ spurned \in BOOLEAN

\* Each packet is counted as a frame or as an error, and at most once.
Counts ==
    /\ m_consecutive_errors \in Nat /\ m_frames_decoded \in Nat
    /\ m_consecutive_errors + InDecoder <= taken
    /\ m_frames_decoded + InDecoder <= taken

\* The decoder hands out what exceeds its delay before it is asked for more.
Delays ==
    /\ pc \in {"pop", "shed", "send", "retry", "pass", "end"} \/ (Receiving /\ drain = "full") =>
         Len(inside) <= Delay /\ ~draining
    /\ Receiving /\ drain = "after" => Len(inside) <= Delay + 1 /\ ~draining

Bounded == Whole /\ Times /\ Control /\ Counts /\ Delays

\* Where a drain that is over and a frame that is handed on lead to.
LEMMA NextPlaces ==
  ASSUME Whole
  PROVE  /\ pc = "receive" => /\ Continues \in {"reset", "leave", "pop", "retry"}
                              /\ Continues = "retry" => drain = "full"
                              /\ Continues = "pop" => drain = "after"
         /\ AfterFrame \in {"receive", "leave"}
BY ContinuesAt DEF Whole, Refs, AfterFrame

\* A time is set to now, forgotten, or kept while the clock goes on.
LEMMA TimesKept == ASSUME Times, [Next]_vars PROVE Times'
<1>1. MaxTime \in Nat /\ MaxDecodeFreeze \in Nat  BY DecodeAssumption
<1>2. ASSUME now' \in now..MaxTime,
             behind_since' \in {behind_since, NotYet, now}, last_emitted' \in {last_emitted, now},
             m_errors_since' \in {m_errors_since, now}, last_frame' \in {last_frame, now}
      PROVE  Times'
  <2>1. now \in Int /\ now' \in 0..MaxTime /\ now <= now'  BY <1>1, <1>2 DEF Times
  <2>2. \A x : x \in 0..now => x \in 0..now'  BY <2>1
  <2>3. now \in 0..now'  BY <2>1 DEF Times
  <2> QED  BY <1>2, <2>1, <2>2, <2>3 DEF Times
<1>3. now \in now..MaxTime  BY <1>1 DEF Times
<1>4. ASSUME Decode  PROVE /\ UNCHANGED now /\ behind_since' \in {behind_since, NotYet, now}
                           /\ last_emitted' \in {last_emitted, now}
                           /\ m_errors_since' \in {m_errors_since, now} /\ last_frame' \in {last_frame, now}
  <2>1. CASE Pops \/ PopsNothing \/ SendsNull \/ Resets \/ Leaves
    BY <2>1 DEF Pops, PopsNothing, SendsNull, Resets, Leaves, world, overload, decoder, accounts
  <2>2. CASE Sheds \/ Retries \/ ReceivesNothing
    BY <2>2 DEF Sheds, Retries, ReceivesNothing, world, overload, decoder, accounts
  <2>3. CASE Sends  BY <2>3 DEF Sends, NoteError, world, overload, accounts
  <2>4. CASE ReceivesFrame \/ ReceivesError
    BY <2>4 DEF ReceivesFrame, ReceivesError, NoteError, EndsErrors, world, overload
  <2>5. CASE Judges  BY <2>5 DEF Judges, world, decoder, accounts
  <2>6. CASE Emits  BY <2>6 DEF Emits, world, decoder, accounts
  <2> QED  BY <1>4, <2>1, <2>2, <2>3, <2>4, <2>5, <2>6 DEF Decode
<1>5. CASE Decode  BY <1>2, <1>3, <1>4, <1>5
<1>6. CASE Arrives \/ RequestStop \/ UNCHANGED vars
  <2>1. UNCHANGED <<now, overload, accounts>>
    BY <1>6 DEF Arrives, RequestStop, vars, world, decoder
  <2> QED  BY <2>1 DEF Times, overload, accounts
<1>7. CASE Tick
  <2>1. now' \in now..MaxTime  BY <1>1, <1>7 DEF Tick, Times
  <2> QED  BY <1>2, <1>7, <2>1 DEF Tick, decoder, accounts
<1>8. CASE Ended  BY <1>6, <1>8 DEF Ended
<1> QED  BY ONLY [Next]_vars, <1>5, <1>6, <1>7, <1>8 DEF Next

\* A packet is given up when it has been refused more than MaxAttempts times.
LEMMA ControlKept == ASSUME Bounded, [Next]_vars PROVE Control'
<1>1. /\ Whole /\ Control /\ MaxAttempts \in Nat /\ MayRefuse \in BOOLEAN
      /\ \A i \in Held : i \in 0..Len(Items)
  <2>1. \A i \in Held : i \in DOMAIN Items  BY KnownFacts DEF Bounded, Whole
  <2> QED  BY <2>1, ItemsAre, DecodeAssumption DEF Bounded
<1>2. /\ pc = "receive" => /\ Continues \in {"reset", "leave", "pop", "retry"}
                           /\ Continues = "retry" => drain = "full"
                           /\ Continues = "pop" => drain = "after"
      /\ AfterFrame \in {"receive", "leave"}
  BY <1>1, NextPlaces
<1>3. ASSUME Decode  PROVE Control'
  <2>1. CASE Pops \/ PopsNothing
    BY <1>1, <2>1 DEF Control, InHand, Pops, PopsNothing, world, overload, decoder
  <2>2. CASE SendsNull \/ Resets \/ Leaves
    BY <1>1, <2>2 DEF Control, InHand, SendsNull, Resets, Leaves, world, overload, decoder
  <2>3. CASE Sheds
    BY <1>1, <2>3 DEF Control, InHand, Sheds, world, overload, decoder
  <2>4. CASE Sends
    <3>1. /\ pc = "send" /\ pc' \in {"receive", "thrown"} /\ drain' \in {"after", "full"}
          /\ UNCHANGED <<stop, frame, attempts, draining, idle, spurned>>
      BY <2>4 DEF Sends, NoteError, world, overload
    <3> QED  BY <1>1, <3>1 DEF Control, InHand
  <2>5. CASE Retries
    <3>1. /\ pc = "retry" /\ attempts' = attempts + 1
          /\ \/ attempts' > MaxAttempts /\ drain' = "after" /\ pc' = "receive"
             \/ attempts' <= MaxAttempts /\ pc' = "send" /\ drain' = drain
          /\ UNCHANGED <<stop, frame, draining, idle, spurned>>
      BY <2>5 DEF Retries, world, overload, decoder
    <3>2. attempts \in 0..MaxAttempts  BY <1>1, <3>1 DEF Control, InHand
    <3>3. attempts' \in 0..MaxAttempts + 1  BY <1>1, <3>1, <3>2
    <3> QED  BY <1>1, <3>1, <3>3 DEF Control, InHand
  <2>6. CASE ReceivesFrame
    <3>1. /\ pc = "receive" /\ pc' = "judge" /\ frame' = Head(inside) /\ inside # <<>>
          /\ UNCHANGED <<stop, drain, attempts, draining, idle, spurned>>
      BY <2>6 DEF ReceivesFrame, HasFrame, world, overload
    <3>2. Head(inside) \in Held
      <4>1. inside \in Seq(Nat)  BY <1>1, KnownFacts DEF Whole
      <4> QED  BY <3>1, <4>1 DEF Held
    <3> QED  BY <1>1, <3>1, <3>2 DEF Control, InHand
  <2>7. CASE ReceivesNothing \/ ReceivesError
    <3>1. /\ pc = "receive" /\ pc' \in {Continues, "thrown"}
          /\ UNCHANGED <<stop, frame, drain, attempts, draining, idle, spurned>>
      BY <2>7 DEF ReceivesNothing, ReceivesError, NoteError, world, overload, decoder
    <3> QED  BY <1>1, <1>2, <3>1 DEF Control, InHand
  <2>8. CASE Judges \/ Emits
    <3>1. /\ pc \in {"judge", "emit"} /\ pc' \in {"emit", AfterFrame} /\ idle' \in {idle, TRUE, FALSE}
          /\ UNCHANGED <<stop, frame, drain, attempts, draining, spurned>>
      BY <2>8 DEF Judges, Emits, world, decoder
    <3> QED  BY <1>1, <1>2, <3>1 DEF Control, InHand
  <2> QED  BY <1>3, <2>1, <2>2, <2>3, <2>4, <2>5, <2>6, <2>7, <2>8 DEF Decode
<1>4. CASE Decode  BY <1>3, <1>4
<1>5. CASE Arrives \/ RequestStop \/ Tick \/ UNCHANGED vars
  <2>1. /\ UNCHANGED <<pc, drain, frame, attempts, draining, spurned>>
        /\ stop' \in {stop, TRUE} /\ idle' \in {idle, TRUE, FALSE}
    BY <1>5 DEF Arrives, RequestStop, Tick, vars, world, overload, decoder
  <2>2. stop' \in BOOLEAN /\ idle' \in BOOLEAN  BY <1>1, <2>1 DEF Control
  <2>3. InHand' <=> InHand  BY <2>1 DEF InHand
  <2> QED  BY <1>1, <2>1, <2>2, <2>3, SMTT(30) DEF Control
<1>6. CASE Ended  BY <1>5, <1>6 DEF Ended
<1> QED  BY ONLY [Next]_vars, <1>4, <1>5, <1>6 DEF Next

\* A packet goes from hand into the decoder, and from there to the counters.
LEMMA CountsKept == ASSUME Bounded, Whole', [Next]_vars PROVE Counts' /\ Delays'
<1>1. /\ Whole /\ Control /\ Counts /\ Delays /\ Delay \in Nat /\ MayRefuse \in BOOLEAN
      /\ taken \in Nat /\ inside \in Seq(Nat) /\ Len(inside) \in Nat
  BY KnownFacts, DecodeAssumption DEF Bounded, Whole
<1>2. /\ pc = "receive" => /\ Continues \in {"reset", "leave", "pop", "retry"}
                           /\ Continues = "retry" => drain = "full"
                           /\ Continues = "pop" => drain = "after"
      /\ AfterFrame \in {"receive", "leave"}
  BY <1>1, NextPlaces
<1>3. ASSUME UNCHANGED <<taken, inside, draining, m_consecutive_errors, m_frames_decoded>>,
             Pending' => Pending, Delays'
      PROVE  Counts' /\ Delays'
  <2>1. PICK x \in Nat, y \in Nat : InDecoder = x /\ InDecoder' = y /\ y <= x
    BY <1>1, <1>3 DEF InDecoder
  <2>2. /\ m_consecutive_errors \in Nat /\ m_frames_decoded \in Nat /\ taken \in Nat
        /\ m_consecutive_errors + InDecoder <= taken /\ m_frames_decoded + InDecoder <= taken
    BY <1>1 DEF Counts
  <2>3. UNCHANGED <<taken, m_consecutive_errors, m_frames_decoded>>  BY <1>3
  <2>4. Counts'  BY <2>1, <2>2, <2>3 DEF Counts
  <2> QED  BY <1>3, <2>4
<1>4. ASSUME Decode  PROVE Counts' /\ Delays'
  <2>1. CASE Pops
    <3>1. /\ pc = "pop" /\ pc' \in {"pass", "shed"} /\ taken' = taken + 1
          /\ UNCHANGED <<inside, draining, m_consecutive_errors, m_frames_decoded, drain>>
      BY <2>1 DEF Pops, decoder, accounts
    <3>2. ~Pending  BY <3>1 DEF Pending, InHand
    <3>3. Delays'  BY <1>1, <3>1 DEF Delays, Receiving
    <3>4. InDecoder = Len(inside) /\ InDecoder' \in {Len(inside), Len(inside) + 1}
      BY <1>1, <3>1, <3>2 DEF InDecoder
    <3>5. Counts'  BY <1>1, <3>1, <3>4 DEF Counts
    <3> QED  BY <3>3, <3>5
  <2>2. CASE PopsNothing
    <3>1. pc = "pop" /\ pc' \in {"leave", "end"}  BY <2>2 DEF PopsNothing
    <3>2. Pending' => Pending  BY <3>1 DEF Pending, InHand
    <3>3. Delays'  BY <1>1, <2>2, <3>1 DEF Delays, Receiving, PopsNothing, decoder
    <3> QED  BY <1>3, <2>2, <3>2, <3>3 DEF PopsNothing, decoder, accounts
  <2>3. CASE SendsNull
    <3>1. /\ pc \in {"pass", "end"} /\ pc' = "receive" /\ drain' = pc
          /\ UNCHANGED <<taken, inside, m_consecutive_errors, m_frames_decoded>>
      BY <2>3 DEF SendsNull, accounts
    <3>2. ~Pending /\ ~Pending'  BY <3>1 DEF Pending, InHand
    <3>3. Delays'  BY <3>1 DEF Delays, Receiving
    <3>4. InDecoder' = InDecoder  BY <3>1, <3>2 DEF InDecoder
    <3> QED  BY <1>1, <3>1, <3>3, <3>4 DEF Counts
  <2>4. CASE Resets
    <3>1. /\ pc = "reset" /\ pc' = "pop" /\ inside' = <<>> /\ draining' = FALSE
          /\ UNCHANGED <<taken, m_consecutive_errors, m_frames_decoded>>
      BY <2>4 DEF Resets, accounts
    <3>2. ~Pending' /\ Len(inside') = 0  BY <3>1 DEF Pending, InHand
    <3>3. Delays'  BY <1>1, <3>1, <3>2 DEF Delays, Receiving
    <3>4. InDecoder' = 0 /\ InDecoder \in Nat  BY <1>1, <3>1, <3>2 DEF InDecoder
    <3> QED  BY <1>1, <3>1, <3>3, <3>4 DEF Counts
  <2>5. CASE Leaves
    <3>1. pc = "leave" /\ pc' = "gone"  BY <2>5 DEF Leaves
    <3>2. ~Pending'  BY <3>1 DEF Pending, InHand
    <3>3. Delays'  BY <3>1 DEF Delays, Receiving
    <3> QED  BY <1>3, <2>5, <3>2, <3>3 DEF Leaves, decoder, accounts
  <2>6. CASE Sheds
    <3>1. /\ pc = "shed" /\ pc' \in {"pop", "send"}
          /\ UNCHANGED <<taken, inside, draining, m_consecutive_errors, m_frames_decoded, drain>>
      BY <2>6 DEF Sheds, decoder, accounts
    <3>2. Pending  BY <3>1 DEF Pending
    <3>3. Delays'  BY <1>1, <3>1 DEF Delays, Receiving
    <3> QED  BY <1>3, <3>1, <3>2, <3>3
  <2>7. CASE Sends
    <3>0. /\ pc = "send" /\ UNCHANGED <<taken, draining>> /\ Pending /\ m_frames_decoded' = m_frames_decoded
          /\ Len(inside) <= Delay /\ ~draining
      BY <1>1, <2>7 DEF Sends, NoteError, accounts, Pending, InHand, Delays
    <3>1. CASE /\ inside' = Append(inside, taken) /\ drain' = "after" /\ pc' = "receive"
               /\ UNCHANGED accounts
      <4>1. Len(inside') = Len(inside) + 1  BY <1>1, <3>1
      <4>2. ~Pending'  BY <3>1 DEF Pending, InHand
      <4>3. Delays'  BY <1>1, <3>0, <3>1, <4>1 DEF Delays, Receiving
      <4>4. InDecoder' = InDecoder  BY <1>1, <3>0, <4>1, <4>2 DEF InDecoder
      <4> QED  BY <1>1, <3>0, <3>1, <4>3, <4>4 DEF Counts, accounts
    <3>2. CASE drain' = "full" /\ pc' = "receive" /\ UNCHANGED <<inside, accounts>>
      <4>1. Delays'  BY <3>0, <3>2 DEF Delays, Receiving
      <4> QED  BY <1>3, <3>0, <3>2, <4>1 DEF accounts
    <3>3. CASE NoteError("receive") /\ drain' = "after" /\ inside' = inside
      <4>1. pc' \in {"receive", "thrown"} /\ m_consecutive_errors' = m_consecutive_errors + 1
        BY <3>3 DEF NoteError
      <4>2. ~Pending'  BY <3>3, <4>1 DEF Pending, InHand
      <4>3. Delays'  BY <1>1, <3>0, <3>3, <4>1 DEF Delays, Receiving
      <4>4. InDecoder = Len(inside) + 1 /\ InDecoder' = Len(inside)
        BY <1>1, <3>0, <3>3, <4>2 DEF InDecoder
      <4>5. Counts'  BY <1>1, <3>0, <4>1, <4>4 DEF Counts
      <4> QED  BY <4>3, <4>5
    <3> QED  BY <2>7, <3>1, <3>2, <3>3 DEF Sends
  <2>8. CASE Retries
    <3>1. /\ pc = "retry" /\ (pc' = "send" \/ (pc' = "receive" /\ drain' = "after"))
          /\ UNCHANGED <<taken, inside, draining, m_consecutive_errors, m_frames_decoded>>
      BY <2>8 DEF Retries, decoder, accounts
    <3>2. Pending  BY <3>1 DEF Pending, InHand
    <3>3. Delays'  BY <1>1, <3>1 DEF Delays, Receiving
    <3> QED  BY <1>3, <3>1, <3>2, <3>3
  <2>9. CASE ReceivesFrame \/ ReceivesError
    <3>1. /\ pc = "receive" /\ HasFrame /\ inside' = Tail(inside) /\ UNCHANGED <<taken, drain, draining>>
          /\ m_consecutive_errors' \in {0, m_consecutive_errors + 1}
          /\ m_frames_decoded' \in {m_frames_decoded, m_frames_decoded + 1}
          /\ pc' \in {"judge", Continues, "thrown"}
      BY <2>9 DEF ReceivesFrame, ReceivesError, EndsErrors, NoteError
    <3>2. Len(inside) > 0 /\ Len(inside') = Len(inside) - 1 /\ (draining \/ Len(inside) > Delay)
      BY <1>1, <3>1 DEF HasFrame
    <3>3. Pending' => Pending  BY <1>2, <3>1 DEF Pending, InHand
    <3>4. Delays'  BY <1>1, <1>2, <3>1, <3>2 DEF Delays, Receiving
    <3>5. PICK x \in Nat, y \in Nat : InDecoder = x /\ InDecoder' = y /\ y + 1 <= x
      BY <1>1, <3>2, <3>3 DEF InDecoder
    <3>6. /\ m_consecutive_errors' \in Nat /\ m_consecutive_errors' <= m_consecutive_errors + 1
          /\ m_frames_decoded' \in Nat /\ m_frames_decoded' <= m_frames_decoded + 1
      BY <1>1, <3>1 DEF Counts
    <3>7. /\ m_consecutive_errors \in Nat /\ m_frames_decoded \in Nat /\ taken \in Nat /\ taken' = taken
          /\ m_consecutive_errors + x <= taken /\ m_frames_decoded + x <= taken
      BY <1>1, <3>1, <3>5 DEF Counts
    <3>8. m_consecutive_errors' + y <= taken /\ m_frames_decoded' + y <= taken
      <4>1. \A t, c, d \in Nat : d <= c + 1 /\ c + x <= t /\ y + 1 <= x => d + y <= t  OBVIOUS
      <4> QED  BY <3>5, <3>6, <3>7, <4>1
    <3>9. Counts'  BY <3>5, <3>6, <3>7, <3>8 DEF Counts
    <3> QED  BY <3>4, <3>9
  <2>10. CASE ReceivesNothing
    <3>1. /\ pc = "receive" /\ pc' = Continues /\ ~HasFrame
          /\ UNCHANGED <<taken, inside, draining, m_consecutive_errors, m_frames_decoded, drain>>
      BY <2>10 DEF ReceivesNothing, decoder, accounts
    <3>2. Pending' => Pending  BY <1>2, <3>1 DEF Pending, InHand
    <3>3. ~draining => Len(inside) <= Delay
      <4>1. inside = <<>> => Len(inside) = 0  OBVIOUS
      <4> QED  BY <1>1, <3>1, <4>1 DEF HasFrame
    <3>4. Delays'  BY <1>1, <1>2, <3>1, <3>3 DEF Delays, Receiving
    <3> QED  BY <1>3, <3>1, <3>2, <3>4
  <2>11. CASE Judges \/ Emits
    <3>1. /\ pc \in {"judge", "emit"} /\ pc' \in {"emit", AfterFrame}
          /\ UNCHANGED <<taken, inside, draining, m_consecutive_errors, m_frames_decoded, drain>>
      BY <2>11 DEF Judges, Emits, decoder, accounts
    <3>2. Pending' => Pending  BY <1>2, <3>1 DEF Pending, InHand
    <3>3. Delays'  BY <1>1, <1>2, <3>1 DEF Delays, Receiving
    <3> QED  BY <1>3, <3>1, <3>2, <3>3
  <2> QED  BY <1>4, <2>1, <2>2, <2>3, <2>4, <2>5, <2>6, <2>7, <2>8, <2>9, <2>10, <2>11 DEF Decode
<1>5. CASE Decode  BY <1>4, <1>5
<1>6. CASE Arrives \/ RequestStop \/ Tick \/ UNCHANGED vars
  <2>1. UNCHANGED <<taken, pc, drain, inside, draining, m_consecutive_errors, m_frames_decoded>>
    BY <1>6 DEF Arrives, RequestStop, Tick, vars, decoder, accounts
  <2>2. (Pending' <=> Pending) /\ Delays'  BY <1>1, <2>1 DEF Pending, InHand, Delays, Receiving
  <2> QED  BY <1>3, <2>1, <2>2
<1>7. CASE Ended  BY <1>6, <1>7 DEF Ended
<1> QED  BY ONLY [Next]_vars, <1>5, <1>6, <1>7 DEF Next

\* At the start there is nothing to bound.
LEMMA BoundedInit == Init => Bounded
<1> SUFFICES ASSUME Init PROVE Bounded  OBVIOUS
<1>1. Whole  BY WholeInit
<1>2. /\ MaxTime \in Nat /\ MaxAttempts \in Nat /\ Delay \in Nat /\ Len(Items) \in Nat
      /\ Len(<<>>) = 0
  BY DecodeAssumption, ItemsAre
<1>3. Times /\ Control /\ Delays
  <2>1. Times  BY <1>2 DEF Init, Times
  <2>2. Control
    <3>1. 0 \in 0..Len(Items) /\ 0 \in 0..MaxAttempts + 1  BY <1>2
    <3> QED  BY <3>1, Zenon DEF Init, Control, InHand
  <2>3. Delays  BY <1>2 DEF Init, Delays, Receiving
  <2> QED  BY <2>1, <2>2, <2>3
<1>4. ~Pending  BY DEF Init, Pending, InHand
<1>5. Counts  BY <1>2, <1>4 DEF Init, Counts, InDecoder
<1> QED  BY <1>1, <1>3, <1>5 DEF Bounded

\* The types follow, because a count of packets is a natural number.
LEMMA TypesFollow == Bounded => TypeOK
<1> SUFFICES ASSUME Bounded PROVE TypeOK  OBVIOUS
<1>1. /\ taken \in Nat /\ arrived \in Nat /\ taken <= arrived /\ arrived <= Len(Items)
      /\ Len(Items) \in Nat /\ DOMAIN Items = 1..Len(Items) /\ Len(inside) \in Nat
      /\ fate \in [DOMAIN Items -> Fates] /\ \A i \in Held : i \in DOMAIN Items /\ i <= taken
  BY KnownFacts DEF Bounded, Whole
<1>2. skipping \in BOOLEAN  BY DEF Bounded, Whole, Refs, Known
<1>3. arrived \in 0..Len(Items) /\ taken \in 0..arrived /\ Held \subseteq 1..taken  BY <1>1
<1>4. m_consecutive_errors \in 0..taken /\ m_frames_decoded \in 0..taken
  <2>1. InDecoder \in Nat  BY <1>1 DEF InDecoder
  <2> QED  BY <1>1, <2>1 DEF Bounded, Counts
<1>5. pc = "pop" => Len(inside) <= Delay /\ ~draining  BY DEF Bounded, Delays
<1>6. Times /\ Control  BY DEF Bounded
<1> QED  BY <1>1, <1>2, <1>3, <1>4, <1>5, <1>6 DEF TypeOK, Times, Control

\* The state of Streamer::Decode and of Decoder has its types: a packet is in one place and
\* counted once, and whenever Decode asks for another packet the decoder keeps back no more
\* than its delay and is not drained (streamer.cpp:204).
THEOREM TypesHold == Spec => []TypeOK
<1>1. Bounded /\ [Next]_vars => Bounded'
  <2> SUFFICES ASSUME Bounded, [Next]_vars PROVE Bounded'  OBVIOUS
  <2>1. Whole' /\ Times'  BY WholeKept, TimesKept DEF Bounded
  <2>2. Control'  BY ControlKept
  <2>3. Counts' /\ Delays'  BY <2>1, CountsKept
  <2> QED  BY <2>1, <2>2, <2>3 DEF Bounded
<1> QED  BY <1>1, BoundedInit, TypesFollow, PTL DEF Spec
=============================================================================
