------------------------------ MODULE DecodeLoop ------------------------------
(***************************************************************************)
(* Streamer::Decode with the callbacks of VideoDecodeLoop (src/streamer.cpp) *)
(* over Decoder (src/av/decoder.cpp): drains at the end of a pass and of the *)
(* input, decoders that refuse input, errors and when they are too many,     *)
(* late frames that are dropped and packets that are skipped up to the next  *)
(* keyframe.  Audio is the same loop with MayBeLate = FALSE.                 *)
(*                                                                         *)
(* A packet is its place in Items, and so is its frame.  FFmpeg's decoder is *)
(* a FIFO that keeps Delay packets back until it is drained.                *)
(***************************************************************************)
EXTENDS Integers, Sequences

CONSTANTS
    Items,           \* what the demuxer queues: "key" and "delta" packets, "marker"s
    Delay,
    MaxAttempts,     \* 8 in the code
    GiveUpAfter, VideoBehindGrace, MaxDecodeFreeze,
    MayBeLate,       \* bound: whether frames may be behind the clock
    MayRefuse,       \* bound: whether FFmpeg may answer EAGAIN with nothing to hand out
    MayStop,         \* bound: whether a stop is requested
    MaxTime          \* bound: of the steady clock

ASSUME DecodeAssumption ==
    /\ Items \in Seq({"key", "delta", "marker"})
    /\ {Delay, MaxAttempts, GiveUpAfter, VideoBehindGrace, MaxDecodeFreeze, MaxTime} \subseteq Nat
    /\ {MayBeLate, MayRefuse, MayStop} \subseteq BOOLEAN

NotYet == -1                        \* a time_point nobody has set
LongAgo == -1 - MaxDecodeFreeze     \* last_emitted before the first frame

VARIABLES
    now, stop,
    arrived,              \* items the demuxer has pushed
    taken,                \* items popped; the last one is in hand
    pc,
    drain,                \* what the drain under way is for
    frame,                \* the frame in hand
    skipping, attempts, behind_since, last_emitted,
    inside, draining,     \* FFmpeg's decoder
    m_consecutive_errors, m_errors_since, m_frames_decoded,
    fate,                 \* history: what became of each item
    last_frame,           \* history: when the decoder last handed out a frame
    idle,                 \* history: time has passed without a packet since behind_since
    spurned               \* history: a request to drain was refused

world == <<now, stop, arrived>>
accounts == <<m_consecutive_errors, m_errors_since, m_frames_decoded, last_frame>>
decoder == <<inside, draining, accounts>>
overload == <<behind_since, last_emitted, idle>>
vars == <<world, taken, pc, drain, frame, skipping, attempts, overload, decoder, fate, spurned>>

Init ==
    /\ now = 0 /\ stop = FALSE
    /\ arrived = 0 /\ taken = 0
    /\ pc = "pop" /\ drain = "none" /\ frame = 0
    /\ skipping = FALSE /\ attempts = 0
    /\ behind_since = NotYet /\ last_emitted = LongAgo
    /\ inside = <<>> /\ draining = FALSE
    /\ m_consecutive_errors = 0 /\ m_errors_since = NotYet /\ m_frames_decoded = 0
    /\ fate = [i \in DOMAIN Items |-> "queued"]
    /\ last_frame = NotYet /\ idle = FALSE /\ spurned = FALSE

Size == arrived - taken
Held == {inside[n] : n \in DOMAIN inside}
Become(items, what) == fate' = [i \in DOMAIN Items |-> IF i \in items THEN what ELSE fate[i]]
-----------------------------------------------------------------------------
\* Decoder

HasFrame == inside # <<>> /\ (draining \/ Len(inside) > Delay)

\* NoteError: a decoder that has worked and then produced only errors for long throws.
NoteError(next) ==
    /\ m_consecutive_errors' = m_consecutive_errors + 1
    /\ m_errors_since' = IF m_consecutive_errors = 0 THEN now ELSE m_errors_since
    /\ pc' = IF m_frames_decoded > 0 /\ now - m_errors_since' >= GiveUpAfter
             THEN "thrown" ELSE next
    /\ UNCHANGED <<m_frames_decoded, last_frame>>

\* Fault: a frame does not end a run of errors.
CountsFrame ==
    /\ m_frames_decoded' = m_frames_decoded + 1
    /\ last_frame' = now
    /\ UNCHANGED <<m_consecutive_errors, m_errors_since>>

EndsErrors ==
    /\ m_consecutive_errors' = 0
    /\ m_frames_decoded' = m_frames_decoded + 1
    /\ last_frame' = now
    /\ UNCHANGED m_errors_since
-----------------------------------------------------------------------------
\* Decode

\* Pop, which also after a stop prefers an item to nothing.
Pops ==
    /\ pc = "pop" /\ Size > 0
    /\ taken' = taken + 1
    /\ pc' = IF Items[taken'] = "marker" THEN "pass" ELSE "shed"
    /\ UNCHANGED <<world, drain, frame, skipping, attempts, overload, decoder, fate, spurned>>

PopsNothing ==
    /\ pc = "pop" /\ Size = 0
    /\ stop \/ arrived = Len(Items)
    /\ pc' = IF stop THEN "leave" ELSE "end"
    /\ UNCHANGED <<world, taken, drain, frame, skipping, attempts, overload, decoder, fate, spurned>>

\* Fault: what is inside is received, but nobody asks the decoder for the rest.
ReceivesOnly ==
    /\ pc \in {"pass", "end"}
    /\ drain' = pc /\ pc' = "receive"
    /\ UNCHANGED <<world, taken, frame, skipping, attempts, overload, decoder, fate, spurned>>

\* Send(nullptr); nobody looks whether it was refused.
SendsNull ==
    /\ pc \in {"pass", "end"}
    /\ \/ draining' = TRUE /\ UNCHANGED spurned
       \/ MayRefuse /\ spurned' = TRUE /\ UNCHANGED draining
    /\ drain' = pc /\ pc' = "receive"
    /\ UNCHANGED <<world, taken, frame, skipping, attempts, overload, inside, accounts, fate>>

\* Reset, which loses what is still inside.
Resets ==
    /\ pc = "reset"
    /\ inside' = <<>> /\ draining' = FALSE
    /\ Become(Held, "cut")
    /\ pc' = "pop"
    /\ UNCHANGED <<world, taken, drain, frame, skipping, attempts, overload, accounts, spurned>>

ShouldSkip == behind_since # NotYet /\ now - behind_since >= VideoBehindGrace

\* Fault: each packet is judged on its own, whatever was discarded before it.
SkipsNow == ShouldSkip
Skips == skipping \/ ShouldSkip

\* Once skipping, every packet is discarded up to the next keyframe.
Sheds ==
    /\ pc = "shed"
    /\ \/ /\ Skips /\ Items[taken] # "key"
          /\ skipping' = TRUE
          /\ Become({taken}, "skipped")
          /\ pc' = "pop"
          /\ UNCHANGED attempts
       \/ /\ ~Skips \/ Items[taken] = "key"
          /\ skipping' = FALSE
          /\ attempts' = 0
          /\ pc' = "send"
          /\ UNCHANGED fate
    /\ UNCHANGED <<world, taken, drain, frame, overload, decoder, spurned>>

\* Send: the packet is accepted, or refused, or an error, which counts as sent.
Sends ==
    /\ pc = "send"
    /\ \/ /\ inside' = Append(inside, taken)
          /\ Become({taken}, "inside")
          /\ drain' = "after" /\ pc' = "receive"
          /\ UNCHANGED accounts
       \/ /\ MayRefuse
          /\ drain' = "full" /\ pc' = "receive"
          /\ UNCHANGED <<inside, fate, accounts>>
       \/ /\ Become({taken}, "failed")
          /\ NoteError("receive")
          /\ drain' = "after"
          /\ UNCHANGED inside
    /\ UNCHANGED <<world, taken, frame, skipping, attempts, overload, draining, spurned>>

\* Fault: a packet that is refused is offered again without end.
RetriesForEver ==
    /\ pc = "retry"
    /\ pc' = "send"
    /\ UNCHANGED <<world, taken, frame, skipping, overload, decoder, spurned, attempts, fate, drain>>

\* The decoder was full; after so many attempts the packet is given up.
Retries ==
    /\ pc = "retry"
    /\ attempts' = attempts + 1
    /\ \/ /\ attempts' > MaxAttempts
          /\ Become({taken}, "refused")
          /\ drain' = "after" /\ pc' = "receive"
       \/ /\ attempts' <= MaxAttempts
          /\ pc' = "send"
          /\ UNCHANGED <<fate, drain>>
    /\ UNCHANGED <<world, taken, frame, skipping, overload, decoder, spurned>>
-----------------------------------------------------------------------------
\* drain and on_frame

\* Fault: a decoder that was drained is not reset.
ContinuesDrained == [pass |-> "pop", end |-> "leave", after |-> "pop", full |-> "retry"][drain]

\* Where the loop goes on after each drain.
Continues == [pass |-> "reset", end |-> "leave", after |-> "pop", full |-> "retry"][drain]

ReceivesFrame ==
    /\ pc = "receive" /\ HasFrame
    /\ frame' = Head(inside)
    /\ inside' = Tail(inside)
    /\ EndsErrors
    /\ pc' = "judge"
    /\ UNCHANGED <<world, taken, drain, skipping, attempts, overload, draining, fate, spurned>>

\* The decoder wants input or is drained.
ReceivesNothing ==
    /\ pc = "receive" /\ ~HasFrame
    /\ pc' = Continues
    /\ UNCHANGED <<world, taken, drain, frame, skipping, attempts, overload, decoder, fate, spurned>>

\* An error is taken for nothing: the drain is over.
ReceivesError ==
    /\ pc = "receive" /\ HasFrame
    /\ Become({Head(inside)}, "failed")
    /\ inside' = Tail(inside)
    /\ NoteError(Continues)
    /\ UNCHANGED <<world, taken, drain, frame, skipping, attempts, overload, draining, spurned>>

AfterFrame == IF stop THEN "leave" ELSE "receive"

\* A frame whose lateness is known is dropped if it is late, packets are waiting, and the
\* picture does not freeze; before the start of the clock no lateness is known.
Judges ==
    /\ pc = "judge"
    /\ \/ pc' = "emit" /\ UNCHANGED <<fate, behind_since, idle>>
       \/ \E late \in {FALSE, MayBeLate} :
            LET behind == late /\ Size > 0
                dropped == behind /\ now - last_emitted < MaxDecodeFreeze
            IN  /\ behind_since' = IF ~behind THEN NotYet
                                   ELSE IF behind_since = NotYet THEN now ELSE behind_since
                /\ idle' = (behind_since' = behind_since /\ idle)
                /\ IF dropped THEN Become({frame}, "dropped") /\ pc' = AfterFrame
                              ELSE pc' = "emit" /\ UNCHANGED fate
    /\ UNCHANGED <<world, taken, drain, frame, skipping, attempts, last_emitted, decoder, spurned>>

\* Process has handed the frame on.
Emits ==
    /\ pc = "emit"
    /\ last_emitted' = now
    /\ Become({frame}, "shown")
    /\ pc' = AfterFrame
    /\ UNCHANGED <<world, taken, drain, frame, skipping, attempts, behind_since, idle, decoder,
                   spurned>>

\* The loop is over; the decoder keeps what is inside for ever.
Leaves ==
    /\ pc = "leave"
    /\ Become(Held, "cut")
    /\ pc' = "gone"
    /\ UNCHANGED <<world, taken, drain, frame, skipping, attempts, overload, decoder, spurned>>

Decode ==
    \/ Pops \/ PopsNothing \/ SendsNull \/ Resets
    \/ Sheds \/ Sends \/ Retries
    \/ ReceivesFrame \/ ReceivesNothing \/ ReceivesError
    \/ Judges \/ Emits \/ Leaves
-----------------------------------------------------------------------------
\* The demuxer pushes the next item.
Arrives ==
    /\ arrived < Len(Items)
    /\ arrived' = arrived + 1
    /\ UNCHANGED <<now, stop, taken, pc, drain, frame, skipping, attempts, overload, decoder,
                   fate, spurned>>

RequestStop ==
    /\ MayStop /\ ~stop
    /\ stop' = TRUE
    /\ UNCHANGED <<now, arrived, taken, pc, drain, frame, skipping, attempts, overload, decoder,
                   fate, spurned>>

\* A loop that spends its time waiting for a packet is not behind.
Tick ==
    /\ now < MaxTime
    /\ now' = now + 1
    /\ idle' = (idle \/ (behind_since # NotYet /\ pc = "pop" /\ Size = 0))
    /\ UNCHANGED <<stop, arrived, taken, pc, drain, frame, skipping, attempts, behind_since,
                   last_emitted, decoder, fate, spurned>>

Ended == pc \in {"gone", "thrown"} /\ UNCHANGED vars

Next == Decode \/ Arrives \/ RequestStop \/ Tick \/ Ended

Spec == Init /\ [][Next]_vars /\ WF_vars(Decode) /\ WF_vars(Arrives)
-----------------------------------------------------------------------------
Fates == {"queued", "inside", "shown", "dropped", "skipped", "refused", "failed", "cut"}

\* Types; and the decoder holds no more than its delay once a drain is over.
TypeOK ==
    /\ now \in 0..MaxTime /\ stop \in BOOLEAN
    /\ arrived \in 0..Len(Items) /\ taken \in 0..arrived
    /\ pc \in {"pop", "pass", "end", "shed", "send", "retry", "receive", "judge", "emit",
               "reset", "leave", "gone", "thrown"}
    /\ drain \in {"none", "pass", "end", "after", "full"}
    /\ frame \in 0..Len(Items)
    /\ skipping \in BOOLEAN /\ attempts \in 0..MaxAttempts + 1
    /\ behind_since \in 0..now \union {NotYet} /\ last_emitted \in 0..now \union {LongAgo}
    /\ Held \subseteq 1..taken /\ draining \in BOOLEAN
    /\ pc = "pop" => Len(inside) <= Delay /\ ~draining
    /\ m_consecutive_errors \in 0..taken /\ m_frames_decoded \in 0..taken
    /\ m_errors_since \in 0..now \union {NotYet} /\ last_frame \in 0..now \union {NotYet}
    /\ fate \in [DOMAIN Items -> Fates]
    /\ idle \in BOOLEAN /\ spurned \in BOOLEAN

\* No picture is lost at the end of a pass or of the input (streamer.cpp:204, "flush out
\* the end of the previous pass"), unless an earlier frame of the same pass was an error
\* or the decoder refused to drain; and a loop that ends by itself leaves nothing behind.
NothingIsCut ==
    ~stop /\ ~spurned =>
        /\ \A i \in DOMAIN Items : fate[i] = "cut" =>
             \E j \in 1..i - 1 : /\ fate[j] = "failed"
                                 /\ \A k \in j..i : Items[k] # "marker"
        /\ pc = "gone" =>
             \A i \in DOMAIN Items : Items[i] = "marker" \/ fate[i] \notin {"queued", "inside"}

\* No packet reaches the decoder after a discarded one without a keyframe in between: it
\* would be decoded from a reference that is missing.
ReferencesAreThere ==
    \A i, j \in DOMAIN Items :
        (j < i /\ fate[j] = "skipped" /\ \A k \in j + 1..i : Items[k] # "key") =>
            fate[i] \in {"queued", "skipped"}

\* decoder.hpp:32: only a decoder that has worked and produced nothing for the whole time
\* gives up.
GivesUpOnlyWhenLost ==
    pc = "thrown" => m_frames_decoded > 0 /\ now - last_frame >= GiveUpAfter

\* The loop ends once its input has, however the decoder refuses or fails.
LoopEnds == <>(pc \in {"gone", "thrown"})

\* streamer.cpp:247: packets are skipped "if decoding itself stays behind", and "without
\* a backlog the source itself is late": a loop that has spent time waiting for packets did not stay behind.
SkipsOnlyWhenBehind ==
    [][(~skipping /\ skipping') => ~idle]_vars
=============================================================================
