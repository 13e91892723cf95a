----------------------------- MODULE VideoOutProofs -----------------------------
(***************************************************************************)
(* The memory of pictures, for inputs and queues of any length, pictures of *)
(* any size and any amount of memory: what NDI reads is what was sent.      *)
(* And their order, through filter graphs that hold back any number.        *)
(* First the layout of a buffer: each line of a picture of any size fits,   *)
(* odd widths included, no two planes overlap, and NDI finds them.          *)
(***************************************************************************)
EXTENDS VideoOut, SequenceTheorems, TLAPS

-----------------------------------------------------------------------------
\* The buffers of AllocateContiguous: what is aligned is no smaller.
LEMMA AlignBounds ==
  \A x \in Nat : /\ Align(x, 64) \in Nat /\ x <= Align(x, 64) /\ Align(x, 64) % 64 = 0
                 /\ Align(x, 128) \in Nat /\ x <= Align(x, 128) /\ Align(x, 128) % 128 = 0
BY DEF Align

\* A stride is even, so it holds the second pixel of a pair an odd width splits.
LEMMA PairsFit ==
  \A w \in Nat : /\ 4 * Half(w) <= Align(w * 2, 64)
                 /\ 2 * Half(w) <= Align(w, 64)
                 /\ Half(w) <= Align(w, 128) \div 2
                 /\ Align(w, 128) \div 2 \in Nat
                 /\ Align(w, 128) % 2 = 0
BY DEF Align, Half

LEMMA HalfNat == \A x \in Nat : Half(x) \in Nat
BY DEF Half

\* AllocateContiguous gives every plane room for its lines, and no more than the
\* buffer holds, whatever the size of the picture.
THEOREM LayoutHoldsPicture ==
  ASSUME NEW format \in NdiFormats, NEW w \in Nat, NEW h \in Nat
  PROVE  PlanesFit(format, w, h)
<1>1. w * 2 \in Nat /\ w * 4 \in Nat /\ Half(h) \in Nat  BY HalfNat
<1>2. CASE format = "uyvy"
  <2>1. ContiguousLayout(format, w, h) = Packed(Align(w * 2, 64), h)
    BY <1>2 DEF ContiguousLayout, IsRgb, RgbFormats
  <2>2. Lines(format, h) = <<h>> /\ LineBytes(format, w) = <<4 * Half(w)>>
    BY <1>2 DEF Lines, LineBytes, IsRgb, RgbFormats
  <2>3. Align(w * 2, 64) \in Nat /\ 4 * Half(w) <= Align(w * 2, 64)
    BY <1>1, AlignBounds, PairsFit
  <2> QED  BY <2>1, <2>2, <2>3 DEF PlanesFit, Packed
<1>3. CASE IsRgb(format)
  <2>1. ContiguousLayout(format, w, h) = Packed(Align(w * 4, 64), h)
    BY <1>3 DEF ContiguousLayout, IsRgb, RgbFormats
  <2>2. Lines(format, h) = <<h>> /\ LineBytes(format, w) = <<4 * w>>
    BY <1>3 DEF Lines, LineBytes, IsRgb, RgbFormats
  <2>3. Align(w * 4, 64) \in Nat /\ 4 * w <= Align(w * 4, 64)
    BY <1>1, AlignBounds
  <2> QED  BY <2>1, <2>2, <2>3 DEF PlanesFit, Packed
<1>4. CASE format = "nv12"
  <2> DEFINE line == Align(w, 64)
  <2>1. ContiguousLayout(format, w, h) = SemiPlanar(line, h)
    BY <1>4 DEF ContiguousLayout, IsRgb, RgbFormats
  <2>2. Lines(format, h) = <<h, Half(h)>> /\ LineBytes(format, w) = <<w, 2 * Half(w)>>
    BY <1>4 DEF Lines, LineBytes, IsRgb, RgbFormats
  <2>3. line \in Nat /\ w <= line /\ 2 * Half(w) <= line  BY AlignBounds, PairsFit
  <2> HIDE DEF line
  <2> QED  BY <1>1, <2>1, <2>2, <2>3 DEF PlanesFit, SemiPlanar
<1>5. CASE format = "i420"
  <2> DEFINE line == Align(w, 128)
             chroma == line \div 2
  <2>1. ContiguousLayout(format, w, h) = Planar(line, h)
    BY <1>5 DEF ContiguousLayout, IsRgb, RgbFormats
  <2>2. Lines(format, h) = <<h, Half(h), Half(h)>> /\ LineBytes(format, w) = <<w, Half(w), Half(w)>>
    BY <1>5 DEF Lines, LineBytes, IsRgb, RgbFormats
  <2>3. line \in Nat /\ w <= line /\ chroma \in Nat /\ Half(w) <= chroma
    BY AlignBounds, PairsFit
  <2>4. Planar(line, h) = [linesize |-> <<line, chroma, chroma>>,
                           offset |-> <<0, line * h, line * h + chroma * Half(h)>>,
                           size |-> line * h + chroma * Half(h) + chroma * Half(h)]
    BY DEF Planar
  <2> HIDE DEF line, chroma
  <2> QED  BY <1>1, <2>1, <2>2, <2>3, <2>4 DEF PlanesFit
<1> QED  BY <1>2, <1>3, <1>4, <1>5 DEF NdiFormats, IsRgb, RgbFormats

\* A repacked picture is where NDI looks for it: HasNdiLayout accepts what
\* AllocateContiguous lays out.
THEOREM RepackedIsAccepted ==
  ASSUME NEW format \in NdiFormats, NEW w \in Nat \ {0}, NEW h \in Nat
  PROVE  HasNdiLayout(format, ContiguousLayout(format, w, h), h)
<1>1. w * 2 \in Nat /\ w * 2 > 0 /\ w * 4 \in Nat /\ w * 4 > 0 /\ Half(h) \in Nat
  BY HalfNat
<1>2. CASE format = "uyvy"
  <2>1. ContiguousLayout(format, w, h) = Packed(Align(w * 2, 64), h)
    BY <1>2 DEF ContiguousLayout, IsRgb, RgbFormats
  <2>2. Align(w * 2, 64) \in Nat /\ Align(w * 2, 64) > 0  BY <1>1, AlignBounds
  <2> QED  BY <1>2, <2>1, <2>2 DEF HasNdiLayout, Packed
<1>3. CASE IsRgb(format)
  <2>1. ContiguousLayout(format, w, h) = Packed(Align(w * 4, 64), h)
    BY <1>3 DEF ContiguousLayout, IsRgb, RgbFormats
  <2>2. Align(w * 4, 64) \in Nat /\ Align(w * 4, 64) > 0  BY <1>1, AlignBounds
  <2> QED  BY <1>3, <2>1, <2>2 DEF HasNdiLayout, Packed, IsRgb, RgbFormats
<1>4. CASE format = "nv12"
  <2> DEFINE line == Align(w, 64)
  <2>1. ContiguousLayout(format, w, h) = SemiPlanar(line, h)
    BY <1>4 DEF ContiguousLayout, IsRgb, RgbFormats
  <2>2. line \in Nat /\ line > 0  BY AlignBounds
  <2> HIDE DEF line
  <2> QED  BY <1>1, <1>4, <2>1, <2>2 DEF HasNdiLayout, SemiPlanar
<1>5. CASE format = "i420"
  <2> DEFINE line == Align(w, 128)
  <2>1. ContiguousLayout(format, w, h) = Planar(line, h)
    BY <1>5 DEF ContiguousLayout, IsRgb, RgbFormats
  <2>2. line \in Nat /\ line > 0 /\ line % 2 = 0 /\ line \div 2 \in Nat
    BY AlignBounds, PairsFit
  <2> HIDE DEF line
  <2> DEFINE l == ContiguousLayout(format, w, h)
             chroma == line \div 2
  <2>3. l = [linesize |-> <<line, chroma, chroma>>,
             offset |-> <<0, line * h, line * h + chroma * Half(h)>>,
             size |-> line * h + chroma * Half(h) + chroma * Half(h)]
    BY <2>1 DEF Planar
  <2>4. line * h \in Int /\ chroma * Half(h) \in Int  BY <1>1, <2>2
  <2>5. /\ l.linesize[1] = line /\ l.linesize[2] = chroma /\ l.linesize[3] = chroma
        /\ l.offset[1] = 0 /\ l.offset[2] = line * h
        /\ l.offset[3] = line * h + chroma * Half(h)
    BY <2>3
  <2> HIDE DEF l, chroma
  <2>6. HasNdiLayout("i420", l, h)  BY <2>2, <2>4, <2>5 DEF HasNdiLayout, chroma
  <2> QED  BY <1>5, <2>6 DEF l
<1> QED  BY <1>2, <1>3, <1>4, <1>5 DEF NdiFormats, IsRgb, RgbFormats

\* Whatever the source and the option, Emit names a format that has a FourCC.
THEOREM TargetHasFourCC ==
  ASSUME NEW output \in OutputPixelFormat, NEW source, NEW full \in BOOLEAN
  PROVE  HasFourCC(TargetFormat(output, source, full))
BY DEF TargetFormat, OutputPixelFormat, HasFourCC, NdiFormats

-----------------------------------------------------------------------------
\* No prover knows that a literal is in STRING: the names the code adds are listed.
Names == STRING \union {"none", "auto", "uyvy", "nv12", "i420", "bgra", "rgba"}

FrameRec == [n : Nat, cell : Cells, w : Nat \ {0}, h : Nat \ {0}, format : Names, pixels : Names,
             full : BOOLEAN, matrix : Names, hw : Names, packed : BOOLEAN]
PictureRec == [n : Nat, cell : Cells, format : Names, w : Nat \ {0}, h : Nat \ {0}]

\* A frame is what was decoded, and lies in memory of its size; a download has left it in
\* the format it is sent in or the one the device chose,
FrameOK(f, played, mem, rm) ==
    /\ f \in FrameRec
    /\ f.n \in DOMAIN played.frames
    /\ LET kind == played.frames[f.n]
       IN  /\ f.w = kind.w /\ f.h = kind.h /\ f.full = kind.full /\ f.matrix = kind.matrix
           /\ f.format \in {kind.format, kind.pixels} /\ f.pixels \in {kind.format, kind.pixels}
           /\ \/ f.pixels = kind.pixels
              \/ f.hw = "none" /\ f.pixels = TargetFormat(played.output, f.format, f.full)
    /\ mem[f.cell] = <<f.n, AsIs>>
    /\ f.hw = "none" => rm[f.cell] = Size(f.pixels, f.w, f.h)

\* and a picture is as its frame was converted.
PictureOK(p, played, mem, rm) ==
    /\ p \in PictureRec
    /\ p.n \in DOMAIN played.frames
    /\ LET kind == played.frames[p.n]
       IN  /\ p.w = kind.w /\ p.h = kind.h
           /\ \/ mem[p.cell] = <<p.n, AsIs>> /\ p.format \in {kind.format, kind.pixels}
              \/ mem[p.cell] = <<p.n, SwsKey(kind, p.format)>> /\ p.format # kind.pixels
    /\ rm[p.cell] = Size(p.format, p.w, p.h)

FramesOK(s, played, mem, rm) ==
    s \in Seq(FrameRec) /\ \A i \in DOMAIN s : FrameOK(s[i], played, mem, rm)
PicturesOK(s, played, mem, rm) ==
    s \in Seq(PictureRec) /\ \A i \in DOMAIN s : PictureOK(s[i], played, mem, rm)

\* All that the program refers to.
AllOK(played, mem, rm) ==
    /\ FramesOK(hand, played, mem, rm) /\ FramesOK(m_graph.held, played, mem, rm)
    /\ FramesOK(fetched, played, mem, rm)
    /\ PicturesOK(out, played, mem, rm) /\ PicturesOK(queue, played, mem, rm)
    /\ PicturesOK(shown, played, mem, rm) /\ PicturesOK(m_in_flight, played, mem, rm)

Types ==
    /\ scenario \in Scenarios
    /\ DOMAIN memory = Cells /\ DOMAIN room = Cells
    /\ next \in Nat
    /\ m_graph = [made |-> m_graph.made, input |-> m_graph.input, held |-> m_graph.held]
    /\ m_sws = NoKey \/ m_sws = m_sws_key
    /\ place = "process" => hand # <<>>
    /\ fetched # <<>> \/ out # <<>> => Draining
    /\ fetched = <<>> \/ out = <<>>
    /\ presenter \in {"hold", "sending"} => shown # <<>>

\* Every cell the pool may hand out has the size the pool was made for.
PoolOK == m_pool \subseteq Cells /\ \A c \in m_pool : room[c] = m_pool_size

Elements(s) == {s[i] : i \in DOMAIN s}

\* NDI reads nothing but what the sender keeps for it, or is just handing over.
ReadingKept ==
    reading \subseteq Elements(m_in_flight) \union (IF presenter = "sending" THEN {shown[1]} ELSE {})

IInv == Types /\ PoolOK /\ AllOK(scenario, memory, room) /\ ReadingKept
-----------------------------------------------------------------------------
LEMMA SizeIsNat ==
  ASSUME NEW format, NEW w \in Nat, NEW h \in Nat
  PROVE  Size(format, w, h) \in Nat
<1>1. CASE ~HasFourCC(format)  BY <1>1 DEF Size
<1>2. CASE HasFourCC(format)
  <2> DEFINE packed == Align(w * 2, 64)
             rgb == Align(w * 4, 64)
             nv == Align(w, 64)
             i4 == Align(w, 128)
             chroma == i4 \div 2
             half == Half(h)
  <2>1. w * 2 \in Nat /\ w * 4 \in Nat  OBVIOUS
  <2>2. /\ packed \in Nat /\ rgb \in Nat /\ nv \in Nat /\ i4 \in Nat /\ half \in Nat
        /\ chroma \in Nat
    BY <2>1, AlignBounds, PairsFit, HalfNat
  <2>3. format \in NdiFormats /\ Size(format, w, h) = ContiguousLayout(format, w, h).size
    BY <1>2 DEF Size, HasFourCC
  <2>4. CASE format = "uyvy"
    <3>1. ContiguousLayout(format, w, h).size = packed * h
      BY <2>4 DEF ContiguousLayout, Packed, IsRgb, RgbFormats
    <3> HIDE DEF packed
    <3> QED  BY <2>2, <2>3, <3>1
  <2>5. CASE IsRgb(format)
    <3>1. ContiguousLayout(format, w, h).size = rgb * h
      BY <2>5 DEF ContiguousLayout, Packed, IsRgb, RgbFormats
    <3> HIDE DEF rgb
    <3> QED  BY <2>2, <2>3, <3>1
  <2>6. CASE format = "nv12"
    <3>1. ContiguousLayout(format, w, h).size = nv * h + nv * half
      BY <2>6 DEF ContiguousLayout, SemiPlanar, IsRgb, RgbFormats
    <3> HIDE DEF nv, half
    <3> QED  BY <2>2, <2>3, <3>1
  <2>7. CASE format = "i420"
    <3>1. ContiguousLayout(format, w, h).size = i4 * h + chroma * half + chroma * half
      BY <2>7 DEF ContiguousLayout, Planar, IsRgb, RgbFormats
    <3> HIDE DEF i4, chroma, half
    <3> QED  BY <2>2, <2>3, <3>1
  <2> QED  BY <2>3, <2>4, <2>5, <2>6, <2>7 DEF NdiFormats, IsRgb, RgbFormats
<1> QED  BY <1>1, <1>2

LEMMA InUseHolds ==
  /\ CellsOf(hand) \subseteq InUse /\ CellsOf(m_graph.held) \subseteq InUse
  /\ CellsOf(fetched) \subseteq InUse /\ CellsOf(out) \subseteq InUse
  /\ CellsOf(queue) \subseteq InUse /\ CellsOf(shown) \subseteq InUse
  /\ CellsOf(m_in_flight) \subseteq InUse
BY DEF InUse

\* Writing to memory nobody refers to disturbs nothing.
LEMMA FramesKept ==
  ASSUME NEW s, NEW played, NEW mem, NEW rm, NEW mem2, NEW rm2, NEW c,
         FramesOK(s, played, mem, rm), c \notin CellsOf(s),
         \A d \in Cells : d # c => mem2[d] = mem[d] /\ rm2[d] = rm[d]
  PROVE  FramesOK(s, played, mem2, rm2)
<1> SUFFICES ASSUME NEW i \in DOMAIN s PROVE FrameOK(s[i], played, mem2, rm2)
  BY DEF FramesOK
<1>1. FrameOK(s[i], played, mem, rm) /\ s[i].cell # c  BY DEF FramesOK, CellsOf
<1>2. s[i].cell \in Cells  BY <1>1 DEF FrameOK, FrameRec
<1> QED  BY <1>1, <1>2 DEF FrameOK

LEMMA PicturesKept ==
  ASSUME NEW s, NEW played, NEW mem, NEW rm, NEW mem2, NEW rm2, NEW c,
         PicturesOK(s, played, mem, rm), c \notin CellsOf(s),
         \A d \in Cells : d # c => mem2[d] = mem[d] /\ rm2[d] = rm[d]
  PROVE  PicturesOK(s, played, mem2, rm2)
<1> SUFFICES ASSUME NEW i \in DOMAIN s PROVE PictureOK(s[i], played, mem2, rm2)
  BY DEF PicturesOK
<1>1. PictureOK(s[i], played, mem, rm) /\ s[i].cell # c  BY DEF PicturesOK, CellsOf
<1>2. s[i].cell \in Cells  BY <1>1 DEF PictureOK, PictureRec
<1> QED  BY <1>1, <1>2 DEF PictureOK

LEMMA WriteKeeps ==
  ASSUME NEW mem, NEW rm, NEW c, NEW played,
         AllOK(played, memory, room), c \notin InUse,
         \A d \in Cells : d # c => mem[d] = memory[d] /\ rm[d] = room[d]
  PROVE  AllOK(played, mem, rm)
<1>1. /\ c \notin CellsOf(hand) /\ c \notin CellsOf(m_graph.held) /\ c \notin CellsOf(fetched)
      /\ c \notin CellsOf(out) /\ c \notin CellsOf(queue) /\ c \notin CellsOf(shown)
      /\ c \notin CellsOf(m_in_flight)
  BY InUseHolds
<1>2. FramesOK(hand, played, mem, rm)  BY <1>1, FramesKept DEF AllOK
<1>3. FramesOK(m_graph.held, played, mem, rm)  BY <1>1, FramesKept DEF AllOK
<1>4. FramesOK(fetched, played, mem, rm)  BY <1>1, FramesKept DEF AllOK
<1>5. PicturesOK(out, played, mem, rm)  BY <1>1, PicturesKept DEF AllOK
<1>6. PicturesOK(queue, played, mem, rm)  BY <1>1, PicturesKept DEF AllOK
<1>7. PicturesOK(shown, played, mem, rm)  BY <1>1, PicturesKept DEF AllOK
<1>8. PicturesOK(m_in_flight, played, mem, rm)  BY <1>1, PicturesKept DEF AllOK
<1> QED  BY <1>2, <1>3, <1>4, <1>5, <1>6, <1>7, <1>8 DEF AllOK
-----------------------------------------------------------------------------
\* What a step that writes to cell c does: c was unused, and is what it should be.
Writes(c, contents, size) ==
    /\ c \in Cells /\ c \notin InUse
    /\ \A d \in Cells : d # c => memory'[d] = memory[d] /\ room'[d] = room[d]
    /\ memory'[c] = contents /\ room'[c] = size
    /\ DOMAIN memory' = Cells /\ DOMAIN room' = Cells
    /\ PoolOK'

LEMMA GetsOwnWrites ==
  ASSUME Types, PoolOK, NEW c, NEW format, NEW w, NEW h, NEW contents,
         GetsOwn(c, format, w, h, contents)
  PROVE  Writes(c, contents, Size(format, w, h))
<1>1. c \in Cells /\ c \notin InUse /\ c \notin m_pool  BY DEF GetsOwn, Any, Unused
<1>2. /\ memory' = [memory EXCEPT ![c] = contents]
      /\ room' = [room EXCEPT ![c] = Size(format, w, h)]
      /\ UNCHANGED <<m_pool, m_pool_size>>
  BY DEF GetsOwn, Holds
<1>3. PoolOK'
  <2>1. \A d \in m_pool : d # c /\ d \in DOMAIN room  BY <1>1 DEF Types, PoolOK
  <2>2. \A d \in m_pool : room'[d] = room[d]  BY <1>2, <2>1
  <2> QED  BY <1>2, <2>2 DEF PoolOK
<1> QED  BY <1>1, <1>2, <1>3 DEF Writes, Types

LEMMA AllocatesWrites ==
  ASSUME Types, PoolOK, NEW c, NEW format, NEW w, NEW h, NEW contents,
         Allocates(c, format, w, h, contents)
  PROVE  Writes(c, contents, Size(format, w, h))
<1> DEFINE size == Size(format, w, h)
           pool == PoolFor(size)
<1>1. pool \subseteq Cells /\ \A d \in pool : room[d] = size  BY DEF PoolFor, PoolOK
<1>2. m_pool' = pool \union {c} /\ m_pool_size' = size /\ memory' = [memory EXCEPT ![c] = contents]
  BY DEF Allocates, Holds
<1>3. \/ c \in pool \ InUse /\ UNCHANGED room
      \/ c \in Cells \ (InUse \union pool) /\ room' = [room EXCEPT ![c] = size]
  BY DEF Allocates, Any
<1> HIDE DEF size, pool
<1>4. c \in Cells /\ c \notin InUse /\ room'[c] = size /\ DOMAIN room' = Cells
      /\ \A d \in Cells : d # c => room'[d] = room[d]
  BY <1>1, <1>3 DEF Types
<1>5. PoolOK'  BY <1>1, <1>2, <1>4 DEF PoolOK
<1>6. DOMAIN memory' = Cells /\ memory'[c] = contents
      /\ \A d \in Cells : d # c => memory'[d] = memory[d]
  BY <1>2, <1>4 DEF Types
<1>7. Writes(c, contents, size)  BY <1>4, <1>5, <1>6 DEF Writes
<1> QED  BY <1>7 DEF size

\* Whatever is referred to is as before after such a step.
LEMMA WritesKeep ==
  ASSUME IInv, NEW c, NEW contents, NEW size, Writes(c, contents, size)
  PROVE  AllOK(scenario, memory', room')
<1>1. AllOK(scenario, memory, room)  BY DEF IInv
<1>2. /\ c \notin InUse
      /\ \A d \in Cells : d # c => memory'[d] = memory[d] /\ room'[d] = room[d]
  BY DEF Writes
<1> QED  BY <1>1, <1>2, WriteKeeps

\* What a download leaves of a frame, and what a filter for system memory gets of it.
LEMMA DownloadedIs ==
  ASSUME NEW f \in FrameRec, NEW c \in Cells, NEW direct \in BOOLEAN
  PROVE  LET g == Downloaded(f, c, direct)
             s == FilterSource(f, c)
         IN  /\ g \in FrameRec /\ g.n = f.n /\ g.w = f.w /\ g.h = f.h /\ g.format = f.format
             /\ g.full = f.full /\ g.matrix = f.matrix /\ g.cell = c /\ g.hw = "none"
             /\ g.pixels = (IF direct THEN f.format ELSE f.pixels)
             /\ s \in FrameRec /\ s.n = f.n /\ s.w = f.w /\ s.h = f.h /\ s.format = f.pixels
             /\ s.full = f.full /\ s.matrix = f.matrix /\ s.cell = c /\ s.hw = "none"
             /\ s.pixels = f.pixels
<1> DEFINE g == Downloaded(f, c, direct)
           d == Downloaded(f, c, FALSE)
           s == FilterSource(f, c)
           p == IF direct THEN f.format ELSE f.pixels
<1>1. DOMAIN f = {"n", "cell", "w", "h", "format", "pixels", "full", "matrix", "hw", "packed"}
  BY DEF FrameRec
<1>2. "none" \in Names /\ f.format \in Names /\ f.pixels \in Names /\ p \in Names
  BY DEF Names, FrameRec
<1> HIDE DEF p
<1>3. [f EXCEPT !.hw = "none"] \in FrameRec  BY <1>2 DEF FrameRec
<1>4. [f EXCEPT !.hw = "none", !.cell = c] \in FrameRec  BY <1>2, <1>3 DEF FrameRec
<1>5. ASSUME NEW b \in BOOLEAN
      PROVE  [f EXCEPT !.hw = "none", !.cell = c, !.packed = b] \in FrameRec
  BY <1>2, <1>4 DEF FrameRec
<1>6. ASSUME NEW b \in BOOLEAN, NEW q \in Names
      PROVE  [f EXCEPT !.hw = "none", !.cell = c, !.packed = b, !.pixels = q] \in FrameRec
  BY <1>5 DEF FrameRec
<1>7. g = [f EXCEPT !.hw = "none", !.cell = c, !.packed = direct, !.pixels = p]
  BY DEF Downloaded, p
<1>8. d = [f EXCEPT !.hw = "none", !.cell = c, !.packed = FALSE, !.pixels = f.pixels]
  BY DEF Downloaded
<1>9. g \in FrameRec /\ d \in FrameRec  BY <1>2, <1>6, <1>7, <1>8
<1>10. /\ g.n = f.n /\ g.w = f.w /\ g.h = f.h /\ g.format = f.format
       /\ g.full = f.full /\ g.matrix = f.matrix /\ g.cell = c /\ g.hw = "none" /\ g.pixels = p
  BY <1>1, <1>7
<1>11. /\ d.n = f.n /\ d.w = f.w /\ d.h = f.h
       /\ d.full = f.full /\ d.matrix = f.matrix /\ d.cell = c /\ d.hw = "none" /\ d.pixels = f.pixels
  BY <1>1, <1>8
<1>12. s = [d EXCEPT !.format = f.pixels]  BY DEF FilterSource
<1> HIDE DEF g, d, s
<1>13. DOMAIN d = {"n", "cell", "w", "h", "format", "pixels", "full", "matrix", "hw", "packed"}
  BY <1>9 DEF FrameRec
<1>14. s \in FrameRec  BY <1>2, <1>9, <1>12 DEF FrameRec
<1>15. /\ s.n = f.n /\ s.w = f.w /\ s.h = f.h /\ s.format = f.pixels
       /\ s.full = f.full /\ s.matrix = f.matrix /\ s.cell = c /\ s.hw = "none" /\ s.pixels = f.pixels
  BY <1>11, <1>12, <1>13
<1> QED  BY <1>9, <1>10, <1>14, <1>15 DEF g, s, p

\* A download leaves the frame what it was but for its format, in memory of its own.
LEMMA DownloadIsOK ==
  ASSUME Types, PoolOK, NEW f, FrameOK(f, scenario, memory, room), f.hw # "none",
         NEW c, NEW direct \in BOOLEAN, DownloadsTo(c, f, direct)
  PROVE  /\ Writes(c, <<f.n, AsIs>>, Size(IF direct THEN f.format ELSE f.pixels, f.w, f.h))
         /\ (direct <=> f.format = Target(f)) =>
              FramesOK(<<Downloaded(f, c, direct)>>, scenario, memory', room')
         /\ ~direct => FramesOK(<<FilterSource(f, c)>>, scenario, memory', room')
<1> DEFINE p == IF direct THEN f.format ELSE f.pixels
           g == Downloaded(f, c, direct)
           s == FilterSource(f, c)
<1>1. Writes(c, <<f.n, AsIs>>, Size(p, f.w, f.h))
  <2>1. CASE direct  BY <2>1, AllocatesWrites DEF DownloadsTo
  <2>2. CASE ~direct  BY <2>2, GetsOwnWrites DEF DownloadsTo
  <2> QED  BY <2>1, <2>2
<1>2. c \in Cells /\ f \in FrameRec  BY <1>1 DEF FrameOK, Writes
<1>3. /\ g \in FrameRec /\ g.n = f.n /\ g.w = f.w /\ g.h = f.h /\ g.format = f.format
      /\ g.full = f.full /\ g.matrix = f.matrix /\ g.cell = c /\ g.hw = "none" /\ g.pixels = p
      /\ s \in FrameRec /\ s.n = f.n /\ s.w = f.w /\ s.h = f.h /\ s.format = f.pixels
      /\ s.full = f.full /\ s.matrix = f.matrix /\ s.cell = c /\ s.hw = "none"
      /\ s.pixels = f.pixels
  BY <1>2, DownloadedIs
<1> HIDE DEF g, s
<1>4. /\ f.pixels = scenario.frames[f.n].pixels /\ f.n \in DOMAIN scenario.frames
      /\ memory'[c] = <<f.n, AsIs>> /\ room'[c] = Size(p, f.w, f.h)
  BY <1>1 DEF FrameOK, Writes
<1>5. ASSUME direct <=> f.format = Target(f)
      PROVE  FramesOK(<<g>>, scenario, memory', room')
  <2>1. FrameOK(g, scenario, memory', room')
    <3>1. CASE direct  BY <1>3, <1>4, <1>5, <3>1 DEF FrameOK, Target
    <3>2. CASE ~direct  BY <1>3, <1>4, <3>2 DEF FrameOK
    <3> QED  BY <3>1, <3>2
  <2> QED  BY <1>3, <2>1 DEF FramesOK
<1>6. ASSUME ~direct PROVE FramesOK(<<s>>, scenario, memory', room')
  <2>1. FrameOK(s, scenario, memory', room')  BY <1>3, <1>4, <1>6 DEF FrameOK
  <2> QED  BY <1>3, <2>1 DEF FramesOK
<1> QED  BY <1>1, <1>5, <1>6 DEF g, s

\* The key of a frame that has to be converted is that of what was decoded.
LEMMA KeyOfFrame ==
  ASSUME NEW f, NEW mem, NEW rm, FrameOK(f, scenario, mem, rm), f.pixels # Target(f)
  PROVE  /\ SwsKey(f, Target(f)) = SwsKey(scenario.frames[f.n], Target(f))
         /\ f.pixels = scenario.frames[f.n].pixels
BY DEF FrameOK, SwsKey, Matrix, IsFullRange, Target

LEMMA PictureIsOK ==
  ASSUME NEW f, FrameOK(f, scenario, memory, room), NEW c \in Cells, NEW mem, NEW rm,
         Target(f) \in Names,
         mem[c] = <<f.n, IF f.pixels = Target(f) THEN AsIs ELSE SwsKey(f, Target(f))>>,
         rm[c] = Size(Target(f), f.w, f.h)
  PROVE  PicturesOK(<<Picture(f, c)>>, scenario, mem, rm)
<1> DEFINE p == Picture(f, c)
<1>1. p \in PictureRec /\ p.n = f.n /\ p.cell = c /\ p.format = Target(f) /\ p.w = f.w /\ p.h = f.h
  BY DEF FrameOK, FrameRec, PictureRec, Picture
<1> HIDE DEF p
<1>2. PictureOK(p, scenario, mem, rm)
  BY <1>1, KeyOfFrame DEF FrameOK, PictureOK
<1>3. PicturesOK(<<p>>, scenario, mem, rm)  BY <1>1, <1>2 DEF PicturesOK
<1> QED  BY <1>3 DEF p

\* Emit, for a frame in system memory: the picture is that frame's.
LEMMA ConvertIsOK ==
  ASSUME IInv, NEW f, FrameOK(f, scenario, memory, room), f.hw = "none",
         PassesOn(f) \/ Repacks(f) \/ Converts(f)
  PROVE  /\ AllOK(scenario, memory', room')
         /\ PicturesOK(out', scenario, memory', room')
         /\ DOMAIN memory' = Cells /\ DOMAIN room' = Cells /\ PoolOK'
         /\ m_sws' = NoKey \/ m_sws' = m_sws_key'
<1>1. Target(f) \in Names
  <2>1. scenario \in Scenario  BY VideoOutAssumption DEF IInv, Types
  <2>2. scenario.output \in OutputPixelFormat  BY <2>1 DEF Scenario
  <2>3. f.format \in Names  BY DEF FrameOK, FrameRec
  <2>4. "uyvy" \in Names /\ scenario.output \in Names  BY <2>2 DEF OutputPixelFormat, Names
  <2>5. Target(f) \in {scenario.output, f.format, "uyvy"}  BY DEF Target, TargetFormat
  <2> QED  BY <2>3, <2>4, <2>5
<1>2. f.cell \in Cells /\ memory[f.cell] = <<f.n, AsIs>> /\ room[f.cell] = Size(f.pixels, f.w, f.h)
  BY DEF FrameOK, FrameRec
<1>3. CASE PassesOn(f)
  <2>1. UNCHANGED making /\ out' = <<Picture(f, f.cell)>> /\ f.pixels = Target(f)
    BY <1>3 DEF PassesOn
  <2>2. PicturesOK(<<Picture(f, f.cell)>>, scenario, memory, room)
    BY <1>1, <1>2, <2>1, PictureIsOK
  <2> QED  BY <2>1, <2>2 DEF IInv, Types, PoolOK, making
<1>4. CASE Repacks(f)
  <2>1. f.pixels = Target(f) /\ UNCHANGED <<m_sws, m_sws_key>>  BY <1>4 DEF Repacks
  <2>2. PICK c \in Cells : /\ Allocates(c, Target(f), f.w, f.h, memory[f.cell])
                           /\ out' = <<Picture(f, c)>>
    BY <1>4 DEF Repacks
  <2>3. Writes(c, memory[f.cell], Size(Target(f), f.w, f.h))  BY <2>2, AllocatesWrites DEF IInv
  <2>4. PicturesOK(<<Picture(f, c)>>, scenario, memory', room')
    BY <1>1, <1>2, <2>1, <2>3, PictureIsOK DEF Writes
  <2>5. AllOK(scenario, memory', room')  BY <2>3, WritesKeep
  <2> QED  BY <2>1, <2>2, <2>3, <2>4, <2>5 DEF IInv, Types, Writes
<1>5. CASE Converts(f)
  <2> DEFINE key == SwsKey(f, Target(f))
  <2>1. f.pixels # Target(f) /\ PreparesContext(key)  BY <1>5 DEF Converts
  <2>2. m_sws' = key /\ m_sws' = m_sws_key'
    BY <2>1 DEF PreparesContext, ContextFits, IInv, Types
  <2>3. PICK c \in Cells : /\ Allocates(c, Target(f), f.w, f.h, <<memory[f.cell][1], m_sws'>>)
                           /\ out' = <<Picture(f, c)>>
    BY <1>5 DEF Converts
  <2> HIDE DEF key
  <2>4. <<memory[f.cell][1], m_sws'>> = <<f.n, key>>  BY <1>2, <2>2
  <2>5. Writes(c, <<f.n, key>>, Size(Target(f), f.w, f.h))
    BY <2>3, <2>4, AllocatesWrites DEF IInv
  <2>6. PicturesOK(<<Picture(f, c)>>, scenario, memory', room')
    BY <1>1, <2>1, <2>5, PictureIsOK DEF Writes, key
  <2>7. AllOK(scenario, memory', room')  BY <2>5, WritesKeep
  <2> QED  BY <2>2, <2>3, <2>5, <2>6, <2>7 DEF Writes
<1> QED  BY <1>3, <1>4, <1>5
-----------------------------------------------------------------------------
\* Sequences of frames and pictures, under one memory.
LEMMA FrameSeqs ==
  ASSUME NEW played, NEW mem, NEW rm, NEW s, FramesOK(s, played, mem, rm)
  PROVE  /\ FramesOK(<<>>, played, mem, rm)
         /\ \A t : FramesOK(t, played, mem, rm) => FramesOK(s \o t, played, mem, rm)
         /\ s # <<>> => /\ FrameOK(s[1], played, mem, rm)
                        /\ FramesOK(Tail(s), played, mem, rm)
                        /\ FramesOK(<<Head(s)>>, played, mem, rm)
<1>1. s \in Seq(FrameRec) /\ \A i \in 1..Len(s) : FrameOK(s[i], played, mem, rm)  BY DEF FramesOK
<1>2. FramesOK(<<>>, played, mem, rm)  BY DEF FramesOK
<1>3. ASSUME NEW t, FramesOK(t, played, mem, rm) PROVE FramesOK(s \o t, played, mem, rm)
  <2>1. t \in Seq(FrameRec) /\ \A i \in 1..Len(t) : FrameOK(t[i], played, mem, rm)
    BY <1>3 DEF FramesOK
  <2>2. s \o t \in Seq(FrameRec)  BY <1>1, <2>1
  <2>3. ASSUME NEW i \in DOMAIN (s \o t) PROVE FrameOK((s \o t)[i], played, mem, rm)
    BY <1>1, <2>1
  <2> QED  BY <2>2, <2>3 DEF FramesOK
<1>4. ASSUME s # <<>>
      PROVE  /\ FrameOK(s[1], played, mem, rm)
             /\ FramesOK(Tail(s), played, mem, rm)
             /\ FramesOK(<<Head(s)>>, played, mem, rm)
  <2>1. FrameOK(s[1], played, mem, rm) /\ Head(s) = s[1] /\ s[1] \in FrameRec  BY <1>1, <1>4
  <2>2. FramesOK(<<s[1]>>, played, mem, rm)  BY <2>1 DEF FramesOK
  <2>3. Tail(s) \in Seq(FrameRec) /\ \A i \in DOMAIN Tail(s) : FrameOK(Tail(s)[i], played, mem, rm)
    BY <1>1, <1>4
  <2> QED  BY <2>1, <2>2, <2>3 DEF FramesOK
<1> QED  BY <1>2, <1>3, <1>4

LEMMA PictureSeqs ==
  ASSUME NEW played, NEW mem, NEW rm, NEW s, PicturesOK(s, played, mem, rm)
  PROVE  /\ PicturesOK(<<>>, played, mem, rm)
         /\ \A t : PicturesOK(t, played, mem, rm) => PicturesOK(s \o t, played, mem, rm)
         /\ s # <<>> => /\ PictureOK(s[1], played, mem, rm)
                        /\ PicturesOK(Tail(s), played, mem, rm)
                        /\ PicturesOK(<<Head(s)>>, played, mem, rm)
<1>1. s \in Seq(PictureRec) /\ \A i \in 1..Len(s) : PictureOK(s[i], played, mem, rm)
  BY DEF PicturesOK
<1>2. PicturesOK(<<>>, played, mem, rm)  BY DEF PicturesOK
<1>3. ASSUME NEW t, PicturesOK(t, played, mem, rm) PROVE PicturesOK(s \o t, played, mem, rm)
  <2>1. t \in Seq(PictureRec) /\ \A i \in 1..Len(t) : PictureOK(t[i], played, mem, rm)
    BY <1>3 DEF PicturesOK
  <2>2. s \o t \in Seq(PictureRec)  BY <1>1, <2>1
  <2>3. ASSUME NEW i \in DOMAIN (s \o t) PROVE PictureOK((s \o t)[i], played, mem, rm)
    BY <1>1, <2>1
  <2> QED  BY <2>2, <2>3 DEF PicturesOK
<1>4. ASSUME s # <<>>
      PROVE  /\ PictureOK(s[1], played, mem, rm)
             /\ PicturesOK(Tail(s), played, mem, rm)
             /\ PicturesOK(<<Head(s)>>, played, mem, rm)
  <2>1. PictureOK(s[1], played, mem, rm) /\ Head(s) = s[1] /\ s[1] \in PictureRec  BY <1>1, <1>4
  <2>2. PicturesOK(<<s[1]>>, played, mem, rm)  BY <2>1 DEF PicturesOK
  <2>3. Tail(s) \in Seq(PictureRec) /\ \A i \in DOMAIN Tail(s) : PictureOK(Tail(s)[i], played, mem, rm)
    BY <1>1, <1>4
  <2> QED  BY <2>1, <2>2, <2>3 DEF PicturesOK
<1> QED  BY <1>2, <1>3, <1>4
-----------------------------------------------------------------------------
\* What a step does to the memory, whatever it moves.
Kept ==
    /\ AllOK(scenario, memory', room')
    /\ DOMAIN memory' = Cells /\ DOMAIN room' = Cells /\ PoolOK'
    /\ m_sws' = NoKey \/ m_sws' = m_sws_key'

LEMMA UnchangedKeeps ==
  ASSUME IInv, UNCHANGED making
  PROVE  Kept
<1>1. memory' = memory /\ room' = room  BY DEF making
<1>2. AllOK(scenario, memory', room')  BY <1>1 DEF IInv
<1> QED  BY <1>1, <1>2 DEF IInv, Types, PoolOK, making, Kept

LEMMA WritingKeeps ==
  ASSUME IInv, NEW c, NEW contents, NEW size, Writes(c, contents, size),
         UNCHANGED <<m_sws, m_sws_key>>
  PROVE  Kept
<1>1. AllOK(scenario, memory', room')  BY WritesKeep
<1> QED  BY <1>1 DEF IInv, Types, Writes, Kept

\* The rest of the invariant, when the memory is kept and the presenter stands still.
LEMMA DecoderRest ==
  ASSUME IInv, Kept, UNCHANGED <<scenario, stop, sending>>,
         FramesOK(hand', scenario, memory', room'),
         FramesOK(m_graph'.held, scenario, memory', room'),
         FramesOK(fetched', scenario, memory', room'),
         PicturesOK(out', scenario, memory', room'),
         PicturesOK(queue', scenario, memory', room'),
         next' \in Nat,
         m_graph' = [made |-> m_graph'.made, input |-> m_graph'.input, held |-> m_graph'.held],
         place' = "process" => hand' # <<>>,
         fetched' # <<>> \/ out' # <<>> => Draining',
         fetched' = <<>> \/ out' = <<>>
  PROVE  IInv'
<1>1. AllOK(scenario, memory, room)'
  <2>1. /\ PicturesOK(shown', scenario, memory', room')
        /\ PicturesOK(m_in_flight', scenario, memory', room')
    BY DEF Kept, AllOK, sending
  <2> QED  BY <2>1 DEF AllOK
<1>2. Types'  BY DEF IInv, Types, Kept, sending
<1>3. ReadingKept'  BY DEF IInv, ReadingKept, Elements, sending
<1> QED  BY <1>1, <1>2, <1>3 DEF IInv, Kept

LEMMA DecodesKeeps ==
  ASSUME IInv, Decodes, UNCHANGED <<scenario, stop, sending>>
  PROVE  IInv'
<1> DEFINE kind == scenario.frames[next + 1]
<1>1. kind \in Kind /\ next + 1 \in DOMAIN scenario.frames /\ next \in Nat
  <2>1. scenario \in Scenario /\ next \in Nat /\ next < Len(scenario.frames)
    BY VideoOutAssumption DEF IInv, Types, Decodes
  <2> QED  BY <2>1 DEF Scenario
<1>2. PICK c \in Cells : /\ hand' = <<Frame(kind, next + 1, c)>>
                         /\ GetsOwn(c, kind.format, kind.w, kind.h, <<next + 1, AsIs>>)
  BY DEF Decodes
<1>3. UNCHANGED <<m_graph, fetched, out, m_sws, m_sws_key, queue>>
      /\ next' = next + 1 /\ place' = "process" /\ place = "decode"
  BY DEF Decodes
<1>4. Writes(c, <<next + 1, AsIs>>, Size(kind.format, kind.w, kind.h))
  BY <1>2, GetsOwnWrites DEF IInv
<1>5. Kept  BY <1>3, <1>4, WritingKeeps
<1> DEFINE f == Frame(kind, next + 1, c)
<1>6. /\ f \in FrameRec /\ f.n = next + 1 /\ f.cell = c /\ f.w = kind.w /\ f.h = kind.h
      /\ f.format = kind.format /\ f.pixels = kind.pixels /\ f.full = kind.full
      /\ f.matrix = kind.matrix /\ f.hw = kind.hw /\ (kind.hw = "none" => kind.pixels = kind.format)
  BY <1>1 DEF Frame, FrameRec, Kind, Names
<1> HIDE DEF f
<1>7. FrameOK(f, scenario, memory', room')  BY <1>1, <1>4, <1>6 DEF FrameOK, Writes
<1>8. FramesOK(<<f>>, scenario, memory', room')  BY <1>6, <1>7 DEF FramesOK
<1>9. fetched = <<>> /\ out = <<>>  BY <1>3 DEF IInv, Types, Draining
<1>10. hand' = <<f>>  BY <1>2 DEF f
<1> HIDE DEF kind
<1> QED  BY <1>1, <1>3, <1>5, <1>8, <1>9, <1>10, DecoderRest DEF Kept, AllOK, IInv, Types

LEMMA DownloadsForFilterKeeps ==
  ASSUME IInv, DownloadsForFilter, UNCHANGED <<scenario, stop, sending>>
  PROVE  IInv'
<1>1. FrameOK(hand[1], scenario, memory, room)
  BY FrameSeqs DEF IInv, AllOK, Types, DownloadsForFilter
<1>2. PICK c \in Cells : DownloadsTo(c, hand[1], FALSE) /\ hand' = <<FilterSource(hand[1], c)>>
  BY DEF DownloadsForFilter
<1>3. UNCHANGED <<next, place, m_graph, fetched, out, m_sws, m_sws_key, queue>>
  BY DEF DownloadsForFilter
<1>4. /\ Writes(c, <<hand[1].n, AsIs>>, Size(hand[1].pixels, hand[1].w, hand[1].h))
      /\ FramesOK(hand', scenario, memory', room')
  <2>1. hand[1].hw # "none"  BY DEF DownloadsForFilter
  <2> QED  BY <1>1, <1>2, <2>1, DownloadIsOK DEF IInv
<1>5. Kept  BY <1>3, <1>4, WritingKeeps
<1>6. hand' # <<>>  BY <1>2
<1> QED  BY <1>3, <1>4, <1>5, <1>6, DecoderRest DEF Kept, AllOK, IInv, Types, Draining

LEMMA EmitDownloadsKeeps ==
  ASSUME IInv, EmitDownloads, UNCHANGED <<scenario, stop, sending>>
  PROVE  IInv'
<1> DEFINE f == fetched[1]
           direct == f.format = Target(f)
<1>1. FrameOK(f, scenario, memory, room) /\ f.hw # "none"
  BY FrameSeqs DEF IInv, AllOK, EmitDownloads
<1>2. PICK c \in Cells : DownloadsTo(c, f, direct) /\ fetched' = <<Downloaded(f, c, direct)>>
  BY DEF EmitDownloads
<1>3. UNCHANGED <<next, place, hand, m_graph, out, m_sws, m_sws_key, queue>> /\ fetched # <<>>
  BY DEF EmitDownloads
<1>4. direct \in BOOLEAN /\ (direct <=> f.format = Target(f))  OBVIOUS
<1> HIDE DEF f, direct
<1>5. /\ Writes(c, <<f.n, AsIs>>, Size(IF direct THEN f.format ELSE f.pixels, f.w, f.h))
      /\ FramesOK(fetched', scenario, memory', room')
  BY <1>1, <1>2, <1>4, DownloadIsOK DEF IInv
<1>6. Kept  BY <1>3, <1>5, WritingKeeps
<1>7. fetched' # <<>>  BY <1>2
<1> QED  BY <1>3, <1>5, <1>6, <1>7, DecoderRest DEF Kept, AllOK, IInv, Types, Draining

LEMMA EmitConvertsKeeps ==
  ASSUME IInv, EmitConverts, UNCHANGED <<scenario, stop, sending>>
  PROVE  IInv'
<1> DEFINE f == fetched[1]
<1>1. FrameOK(f, scenario, memory, room) /\ f.hw = "none" /\ (PassesOn(f) \/ Repacks(f) \/ Converts(f))
  BY FrameSeqs DEF IInv, AllOK, EmitConverts
<1>2. UNCHANGED <<next, place, hand, m_graph, queue>> /\ fetched # <<>> /\ fetched' = <<>>
  BY DEF EmitConverts
<1> HIDE DEF f
<1>3. Kept /\ PicturesOK(out', scenario, memory', room')  BY <1>1, ConvertIsOK DEF Kept
<1>4. FramesOK(<<>>, scenario, memory', room')  BY <1>3, FrameSeqs DEF Kept, AllOK
<1> QED  BY <1>2, <1>3, <1>4, DecoderRest DEF Kept, AllOK, IInv, Types, Draining
-----------------------------------------------------------------------------
\* The steps of the decoder that leave the memory alone.
Moves ==
    \/ ProcessesUnfiltered \/ ProcessesFiltered \/ BuildsFilter \/ FeedsFilter
    \/ Fetches \/ Drained \/ SinkStores \/ SinkRefuses \/ DecodingEnds \/ Closes

LEMMA AfterDrainLeaves ==
  ASSUME Draining
  PROVE  AfterDrain \in {"close", "decode", "build"}
<1>1. CASE place = "drain"  BY <1>1 DEF AfterDrain
<1>2. CASE place = "flushOld"  BY <1>2 DEF AfterDrain
<1>3. CASE place = "flushEnd"  BY <1>3 DEF AfterDrain
<1> QED  BY <1>1, <1>2, <1>3 DEF Draining

LEMMA MovesKeep ==
  ASSUME IInv, Moves, UNCHANGED <<scenario, stop, sending>>
  PROVE  IInv'
<1>1. Kept
  <2>1. UNCHANGED making
    BY DEF Moves, ProcessesUnfiltered, ProcessesFiltered, BuildsFilter, FeedsFilter, Fetches,
           Drained, SinkStores, SinkRefuses, DecodingEnds, Closes
  <2> QED  BY <2>1, UnchangedKeeps
<1> DEFINE FOK(s) == FramesOK(s, scenario, memory', room')
           POK(s) == PicturesOK(s, scenario, memory', room')
<1>2. /\ FOK(hand) /\ FOK(m_graph.held) /\ FOK(fetched) /\ FOK(<<>>)
      /\ POK(out) /\ POK(queue) /\ POK(<<>>)
  BY <1>1, FrameSeqs, PictureSeqs DEF Kept, AllOK
<1>3. FOK(m_graph.held \o hand) /\ POK(queue \o out)
  BY <1>2, FrameSeqs, PictureSeqs
<1>4. m_graph.held # <<>> => FOK(Tail(m_graph.held)) /\ FOK(<<Head(m_graph.held)>>)
  BY <1>2, FrameSeqs
<1> HIDE DEF FOK, POK
<1>5. /\ next \in Nat
      /\ m_graph = [made |-> m_graph.made, input |-> m_graph.input, held |-> m_graph.held]
      /\ place = "process" => hand # <<>>
      /\ fetched # <<>> \/ out # <<>> => Draining
      /\ fetched = <<>> \/ out = <<>>
  BY DEF IInv, Types
<1> DEFINE Rest == /\ FOK(hand') /\ FOK(m_graph'.held) /\ FOK(fetched') /\ POK(out') /\ POK(queue')
                   /\ next' \in Nat
                   /\ m_graph' = [made |-> m_graph'.made, input |-> m_graph'.input,
                                  held |-> m_graph'.held]
                   /\ place' = "process" => hand' # <<>>
                   /\ fetched' # <<>> \/ out' # <<>> => Draining'
                   /\ fetched' = <<>> \/ out' = <<>>
<1> SUFFICES Rest  BY <1>1, DecoderRest DEF FOK, POK
<1>6. CASE ProcessesUnfiltered  BY <1>2, <1>5, <1>6 DEF ProcessesUnfiltered, Draining
<1>7. CASE ProcessesFiltered
  <2>1. place' \in {"feed", "flushOld", "build"}  BY <1>7 DEF ProcessesFiltered, ChoosesGraph
  <2> QED  BY <1>2, <1>5, <1>7, <2>1 DEF ProcessesFiltered, Draining
<1>8. CASE BuildsFilter  BY <1>2, <1>5, <1>8 DEF BuildsFilter, Draining
<1>9. CASE FeedsFilter
  <2>1. /\ m_graph' = [made |-> m_graph.made, input |-> m_graph.input, held |-> m_graph.held \o hand]
        /\ hand' = <<>> /\ place' = "drain" /\ UNCHANGED <<next, fetched, out, queue>>
    BY <1>5, <1>9 DEF FeedsFilter
  <2>2. /\ m_graph'.held = m_graph.held \o hand /\ m_graph'.made = m_graph.made
        /\ m_graph'.input = m_graph.input
    BY <2>1
  <2> QED  BY <1>2, <1>3, <1>5, <2>1, <2>2 DEF Draining
<1>10. CASE Fetches
  <2>1. m_graph.held # <<>>
    <3>1. scenario.delay \in Nat  BY VideoOutAssumption DEF IInv, Types, Scenario
    <3>2. SubSeq(<<>>, 1, 0 - scenario.delay) = <<>>  BY <3>1
    <3>3. m_graph.held = <<>> => Ready = <<>>  BY <3>2 DEF Ready
    <3> QED  BY <1>10, <3>3 DEF Fetches
  <2>2. /\ m_graph' = [made |-> m_graph.made, input |-> m_graph.input, held |-> Tail(m_graph.held)]
        /\ fetched' = <<Head(m_graph.held)>> /\ UNCHANGED <<next, place, hand, out, queue>>
        /\ out = <<>> /\ Draining
    BY <1>5, <1>10 DEF Fetches
  <2>3. /\ m_graph'.held = Tail(m_graph.held) /\ m_graph'.made = m_graph.made
        /\ m_graph'.input = m_graph.input
    BY <2>2
  <2> QED  BY <1>2, <1>4, <1>5, <2>1, <2>2, <2>3 DEF Draining
<1>11. CASE Drained
  <2>1. place' \in {"close", "decode", "build"}  BY <1>11, AfterDrainLeaves DEF Drained
  <2> QED  BY <1>2, <1>5, <1>11, <2>1 DEF Drained
<1>12. CASE SinkStores  BY <1>2, <1>3, <1>5, <1>12 DEF SinkStores
<1>13. CASE SinkRefuses
  <2>1. place' \in {"close", "decode", "build"}
    BY <1>5, <1>13, AfterDrainLeaves DEF SinkRefuses
  <2> QED  BY <1>2, <1>5, <1>13, <2>1 DEF SinkRefuses
<1>14. CASE DecodingEnds  BY <1>2, <1>5, <1>14 DEF DecodingEnds, Draining
<1>15. CASE Closes  BY <1>2, <1>5, <1>15 DEF Closes, Draining
<1> QED  BY <1>6, <1>7, <1>8, <1>9, <1>10, <1>11, <1>12, <1>13, <1>14, <1>15 DEF Moves
-----------------------------------------------------------------------------
LEMMA InitHolds == Init => IInv
<1> SUFFICES ASSUME Init PROVE IInv  OBVIOUS
<1>1. scenario \in Scenarios  BY DEF Init
<1>2. AllOK(scenario, memory, room)
  BY DEF Init, AllOK, FramesOK, PicturesOK, NoGraph
<1>3. m_graph = [made |-> m_graph.made, input |-> m_graph.input, held |-> m_graph.held]
  BY DEF Init, NoGraph
<1>4. Types  BY <1>3 DEF Init, Types
<1>5. PoolOK /\ ReadingKept  BY DEF Init, PoolOK, ReadingKept
<1> QED  BY <1>2, <1>4, <1>5 DEF IInv

LEMMA DecoderKeeps ==
  ASSUME IInv, Decoder
  PROVE  IInv'
<1>1. UNCHANGED <<scenario, stop, sending>>  BY DEF Decoder
<1>2. \/ Decodes \/ DownloadsForFilter \/ EmitDownloads \/ EmitConverts \/ Moves
  BY DEF Decoder, Moves
<1> QED  BY <1>1, <1>2, DecodesKeeps, DownloadsForFilterKeeps, EmitDownloadsKeeps,
            EmitConvertsKeeps, MovesKeep

\* Nobody else writes to memory.
LEMMA OthersRest ==
  ASSUME IInv, UNCHANGED <<scenario, decoding, making>>,
         PicturesOK(queue', scenario, memory, room),
         PicturesOK(shown', scenario, memory, room),
         PicturesOK(m_in_flight', scenario, memory, room),
         presenter' \in {"hold", "sending"} => shown' # <<>>,
         ReadingKept'
  PROVE  IInv'
<1>1. AllOK(scenario, memory, room)'  BY DEF IInv, AllOK, decoding, making
<1>2. Types'  BY DEF IInv, Types, Draining, decoding, making
<1>3. PoolOK'  BY DEF IInv, PoolOK, making
<1> QED  BY <1>1, <1>2, <1>3 DEF IInv

LEMMA FirstIsElement ==
  ASSUME NEW played, NEW s, PicturesOK(s, played, memory, room), s # <<>>
  PROVE  s[1] \in Elements(s)
<1>1. s \in Seq(PictureRec)  BY DEF PicturesOK
<1>2. 1 \in DOMAIN s  BY <1>1
<1> QED  BY <1>2 DEF Elements

LEMMA PresenterKeeps ==
  ASSUME IInv, Presenter
  PROVE  IInv'
<1>1. UNCHANGED <<scenario, decoding, making>>  BY DEF Presenter
<1> DEFINE POK(s) == PicturesOK(s, scenario, memory, room)
<1>2. POK(queue) /\ POK(shown) /\ POK(m_in_flight) /\ POK(<<>>)
  BY PictureSeqs DEF IInv, AllOK
<1>3. queue # <<>> => POK(Tail(queue)) /\ POK(<<Head(queue)>>)  BY <1>2, PictureSeqs
<1>4. shown # <<>> => shown[1] \in Elements(shown)  BY <1>2, FirstIsElement
<1> HIDE DEF POK
<1>5. (presenter \in {"hold", "sending"} => shown # <<>>) /\ ReadingKept  BY DEF IInv, Types
<1> SUFFICES /\ POK(queue') /\ POK(shown') /\ POK(m_in_flight')
             /\ presenter' \in {"hold", "sending"} => shown' # <<>>
             /\ ReadingKept'
  BY <1>1, OthersRest DEF POK
<1>6. CASE PopsPicture  BY <1>2, <1>3, <1>5, <1>6 DEF PopsPicture, ReadingKept, Elements
<1>7. CASE PopsNothing  BY <1>2, <1>5, <1>7 DEF PopsNothing, ReadingKept, Elements
<1>8. CASE DropsPicture  BY <1>2, <1>5, <1>8 DEF DropsPicture, ReadingKept, Elements
<1>9. CASE StopsWaiting  BY <1>2, <1>5, <1>9 DEF StopsWaiting, ReadingKept, Elements
<1>10. CASE SendVideo  BY <1>2, <1>5, <1>10 DEF SendVideo, ReadingKept, Elements
<1>11. CASE SendVideoReturns
  <2>1. reading' = {shown[1]} /\ m_in_flight' = shown /\ shown[1] \in Elements(shown)
    BY <1>4, <1>5, <1>11 DEF SendVideoReturns
  <2>2. ReadingKept'  BY <2>1 DEF ReadingKept, Elements
  <2> QED  BY <1>2, <1>11, <2>2 DEF SendVideoReturns
<1>12. CASE FlushVideo
  <2>1. presenter = "flush" /\ presenter' \in {"gone", "flushing"}  BY <1>12 DEF FlushVideo
  <2> QED  BY <1>2, <1>5, <1>12, <2>1 DEF FlushVideo, ReadingKept, Elements
<1>13. CASE FlushVideoReturns
  BY <1>2, <1>5, <1>13 DEF FlushVideoReturns, ReadingKept, Elements
<1> QED  BY <1>6, <1>7, <1>8, <1>9, <1>10, <1>11, <1>12, <1>13 DEF Presenter

LEMMA NextKeeps == IInv /\ [Next]_vars => IInv'
<1> SUFFICES ASSUME IInv, [Next]_vars PROVE IInv'  OBVIOUS
<1> DEFINE POK(s) == PicturesOK(s, scenario, memory, room)
<1>1. POK(queue) /\ POK(shown) /\ POK(m_in_flight)  BY DEF IInv, AllOK
<1>2. (presenter \in {"hold", "sending"} => shown # <<>>) /\ ReadingKept  BY DEF IInv, Types
<1> HIDE DEF POK
<1>3. ASSUME UNCHANGED <<scenario, decoding, making, queue, presenter, shown, m_in_flight>>,
             reading' \subseteq reading
      PROVE  IInv'
  <2>1. ReadingKept'  BY <1>2, <1>3 DEF ReadingKept, Elements
  <2>2. POK(queue') /\ POK(shown') /\ POK(m_in_flight')  BY <1>1, <1>3
  <2> QED  BY <1>2, <1>3, <2>1, <2>2, OthersRest DEF POK
<1>4. CASE NdiIsDone  BY <1>3, <1>4 DEF NdiIsDone
<1>5. CASE RequestStop  BY <1>3, <1>5 DEF RequestStop, sending
<1>6. CASE UNCHANGED vars  BY <1>3, <1>6 DEF vars, sending
<1>7. CASE Done  BY <1>6, <1>7 DEF Done
<1> QED  BY <1>4, <1>5, <1>6, <1>7, DecoderKeeps, PresenterKeeps DEF Next

\* What the invariant says of everything NDI reads.
LEMMA ReadPictures ==
  ASSUME IInv, NEW p \in reading
  PROVE  PictureOK(p, scenario, memory, room) /\ p.cell \in InUse
<1>1. CASE p \in Elements(m_in_flight)
  <2>1. PictureOK(p, scenario, memory, room)
    BY <1>1 DEF IInv, AllOK, PicturesOK, Elements
  <2>2. p.cell \in CellsOf(m_in_flight)  BY <1>1 DEF Elements, CellsOf
  <2> QED  BY <2>1, <2>2, InUseHolds
<1>2. CASE presenter = "sending" /\ p = shown[1]
  <2>1. shown # <<>> /\ PicturesOK(shown, scenario, memory, room)
    BY <1>2 DEF IInv, Types, AllOK
  <2>2. p \in Elements(shown)  BY <1>2, <2>1, FirstIsElement
  <2>3. PictureOK(p, scenario, memory, room)  BY <2>1, <2>2 DEF PicturesOK, Elements
  <2>4. p.cell \in CellsOf(shown)  BY <2>2 DEF Elements, CellsOf
  <2> QED  BY <2>3, <2>4, InUseHolds
<1> QED  BY <1>1, <1>2 DEF IInv, ReadingKept

LEMMA PicturesFit ==
  ASSUME NEW p, PictureOK(p, scenario, memory, room)
  PROVE  Fits(p) /\ memory[p.cell][1] = p.n
<1>1. p.w \in Nat /\ p.h \in Nat  BY DEF PictureOK, PictureRec
<1>2. Size(p.format, p.w, p.h) \in Nat  BY <1>1, SizeIsNat
<1> QED  BY <1>2 DEF PictureOK, Fits

LEMMA ReadsHold == IInv => NdiReadsItsPicture
BY ReadPictures, PicturesFit DEF NdiReadsItsPicture

LEMMA MadeHolds == IInv => MadeForItsFrame
<1> SUFFICES ASSUME IInv, NEW p \in Pictures
             PROVE  /\ memory[p.cell][1] = p.n /\ Fits(p)
                    /\ LET f == scenario.frames[p.n]
                       IN  \/ memory[p.cell][2] = AsIs /\ p.format \in {f.format, f.pixels}
                           \/ memory[p.cell][2] = SwsKey(f, p.format) /\ p.format # f.pixels
  BY DEF MadeForItsFrame
<1>1. PictureOK(p, scenario, memory, room)
  <2>1. CASE p \in reading  BY <2>1, ReadPictures
  <2>2. CASE p \notin reading  BY <2>2 DEF Pictures, IInv, AllOK, PicturesOK
  <2> QED  BY <2>1, <2>2
<1> QED  BY <1>1, PicturesFit DEF PictureOK

\* As long as NDI may read a picture its memory is kept, big enough and unchanged,
\* whatever the sizes, the filter, the queue and the number of buffers: SendVideo
\* and FlushVideo (src/ndi/sender.cpp) release it only when NDI is done.
THEOREM SentMemoryIsKept == Spec => []NdiReadsItsPicture
<1>1. IInv => NdiReadsItsPicture  BY ReadsHold
<1> QED  BY InitHolds, NextKeeps, <1>1, PTL DEF Spec

\* Every picture was made from its own frame, by a context set up for that frame:
\* the cached conversion context and the pool of video_processor.cpp never serve
\* a frame they do not fit.
THEOREM CachesFit == Spec => []MadeForItsFrame
<1>1. IInv => MadeForItsFrame  BY MadeHolds
<1> QED  BY InitHolds, NextKeeps, <1>1, PTL DEF Spec
-----------------------------------------------------------------------------
\* No place but a filter graph and the queue holds more than one frame.
Single(s) == s = <<>> \/ s = <<s[1]>>

\* Who can hold frames where; a picture is made only while something is drained.
Stages ==
    /\ Single(hand) /\ Single(fetched) /\ Single(out)
    /\ hand # <<>> => place \in {"process", "flushOld", "build", "feed"}
    /\ scenario.filter = "none" => ~m_graph.made /\ place \notin {"flushOld", "build", "feed"}
    /\ place = "feed" => m_graph.made
    /\ ~m_graph.made => m_graph.held = <<>>

\* The numbers of the frames on their way, from the queue back to the decoder.
OnTheWay == pushed \o Numbers(out) \o Numbers(fetched) \o Numbers(m_graph.held) \o Numbers(hand)

\* A graph is replaced, and the end comes, when it is empty.
Line ==
    ~stop =>
        /\ OnTheWay = [i \in 1..next |-> i]
        /\ place \in {"build", "close", "done"} => m_graph.held = <<>>
        /\ place \in {"flushEnd", "close", "done"} => next = Len(scenario.frames)

InLine == pushed \in Seq(Nat) /\ Stages /\ Line

\* Whatever carries a number.
LEMMA NumbersAre ==
  ASSUME NEW S, \A x \in S : x.n \in Nat, NEW s \in Seq(S), NEW t \in Seq(S)
  PROVE  /\ Numbers(s) \in Seq(Nat) /\ Len(Numbers(s)) = Len(s)
         /\ Numbers(s \o t) = Numbers(s) \o Numbers(t)
         /\ s # <<>> => Numbers(s) = <<s[1].n>> \o Numbers(Tail(s)) /\ Tail(s) \in Seq(S)
<1>1. ASSUME NEW u \in Seq(S)
      PROVE  /\ Numbers(u) \in Seq(Nat) /\ Len(Numbers(u)) = Len(u)
             /\ \A i \in 1..Len(u) : Numbers(u)[i] = u[i].n
  <2>1. DOMAIN u = 1..Len(u) /\ Len(u) \in Nat /\ \A i \in 1..Len(u) : u[i].n \in Nat  OBVIOUS
  <2>2. Numbers(u) = [i \in 1..Len(u) |-> u[i].n]  BY <2>1 DEF Numbers
  <2>3. Numbers(u) \in [1..Len(u) -> Nat]  BY <2>1, <2>2
  <2>4. Numbers(u) \in Seq(Nat)  BY <2>1, <2>2
  <2> QED  BY <2>1, <2>2, <2>3, <2>4
<1>2. Numbers(s \o t) = Numbers(s) \o Numbers(t)
  <2>1. s \o t \in Seq(S) /\ Len(s \o t) = Len(s) + Len(t)  OBVIOUS
  <2>2. /\ Numbers(s) \in Seq(Nat) /\ Len(Numbers(s)) = Len(s)
        /\ Numbers(t) \in Seq(Nat) /\ Len(Numbers(t)) = Len(t)
        /\ Numbers(s \o t) \in Seq(Nat) /\ Len(Numbers(s \o t)) = Len(s) + Len(t)
    BY <1>1, <2>1
  <2>3. /\ Numbers(s) \o Numbers(t) \in Seq(Nat)
        /\ Len(Numbers(s) \o Numbers(t)) = Len(Numbers(s \o t))
    BY <2>2, ConcatProperties
  <2>4. ASSUME NEW i \in 1..Len(s) + Len(t)
        PROVE  (Numbers(s) \o Numbers(t))[i] = Numbers(s \o t)[i]
    <3>1. (s \o t)[i] = IF i <= Len(s) THEN s[i] ELSE t[i - Len(s)]  OBVIOUS
    <3>2. (Numbers(s) \o Numbers(t))[i] = IF i <= Len(s) THEN Numbers(s)[i] ELSE Numbers(t)[i - Len(s)]
      <4> DEFINE A == Numbers(s)
                 B == Numbers(t)
      <4>1. A \in Seq(Nat) /\ B \in Seq(Nat) /\ Len(A) = Len(s) /\ Len(B) = Len(t)  BY <2>2
      <4> HIDE DEF A, B
      <4>2. \A j \in 1..Len(A) + Len(B) : (A \o B)[j] = IF j <= Len(A) THEN A[j] ELSE B[j - Len(A)]
        BY <4>1, ConcatProperties
      <4>3. (A \o B)[i] = IF i <= Len(s) THEN A[i] ELSE B[i - Len(s)]  BY <4>1, <4>2
      <4> QED  BY <4>3 DEF A, B
    <3>3. Numbers(s \o t)[i] = (s \o t)[i].n  BY <1>1, <2>1
    <3>4. CASE i <= Len(s)  BY <1>1, <3>1, <3>2, <3>3, <3>4
    <3>5. CASE ~(i <= Len(s))
      <4>1. i - Len(s) \in 1..Len(t)  BY <3>5
      <4> QED  BY <1>1, <3>1, <3>2, <3>3, <3>5, <4>1
    <3> QED  BY <3>4, <3>5
  <2> QED  BY <2>2, <2>3, <2>4, SeqEqual
<1>3. ASSUME s # <<>> PROVE Numbers(s) = <<s[1].n>> \o Numbers(Tail(s)) /\ Tail(s) \in Seq(S)
  <2>1. /\ Tail(s) \in Seq(S) /\ Len(Tail(s)) = Len(s) - 1 /\ Len(s) \in Nat \ {0} /\ s[1] \in S
        /\ \A i \in 1..Len(s) - 1 : Tail(s)[i] = s[i + 1]
    BY <1>3
  <2>2. /\ Numbers(s) \in Seq(Nat) /\ Len(Numbers(s)) = Len(s) /\ \A i \in 1..Len(s) : Numbers(s)[i] = s[i].n
        /\ Numbers(Tail(s)) \in Seq(Nat) /\ Len(Numbers(Tail(s))) = Len(s) - 1
        /\ \A i \in 1..Len(s) - 1 : Numbers(Tail(s))[i] = Tail(s)[i].n
    BY <1>1, <2>1
  <2> DEFINE one == <<s[1].n>>
             N == Numbers(Tail(s))
  <2>3. one \in Seq(Nat) /\ Len(one) = 1 /\ one[1] = s[1].n  BY <2>1
  <2> HIDE DEF one, N
  <2>4. N \in Seq(Nat) /\ Len(N) = Len(s) - 1 /\ \A i \in 1..Len(s) - 1 : N[i] = s[i + 1].n
    BY <2>1, <2>2 DEF N
  <2>5. /\ one \o N \in Seq(Nat) /\ Len(one \o N) = Len(s)
        /\ \A i \in 1..Len(s) : (one \o N)[i] = IF i <= 1 THEN one[i] ELSE N[i - 1]
    <3>1. one \o N \in Seq(Nat) /\ Len(one \o N) = Len(one) + Len(N)
      BY <2>3, <2>4, ConcatProperties
    <3>2. \A i \in 1..Len(one) + Len(N) : (one \o N)[i] = IF i <= Len(one) THEN one[i] ELSE N[i - Len(one)]
      BY <2>3, <2>4, ConcatProperties
    <3>3. Len(one) = 1 /\ Len(one) + Len(N) = Len(s) /\ 1 + Len(N) = Len(s)  BY <2>1, <2>3, <2>4
    <3> QED  BY <3>1, <3>2, <3>3
  <2>6. ASSUME NEW i \in 1..Len(s) PROVE (one \o N)[i] = Numbers(s)[i]
    <3>1. (one \o N)[i] = IF i <= 1 THEN one[i] ELSE N[i - 1]  BY <2>5
    <3>2. CASE i = 1  BY <2>2, <2>3, <3>1, <3>2
    <3>3. CASE i # 1
      <4>1. i - 1 \in 1..Len(s) - 1 /\ (i - 1) + 1 = i /\ ~(i <= 1)  BY <2>1, <3>3
      <4> QED  BY <2>2, <2>4, <3>1, <4>1
    <3> QED  BY <3>2, <3>3
  <2> QED  BY <2>1, <2>2, <2>5, <2>6, SeqEqual DEF one, N
<1> QED  BY <1>1, <1>2, <1>3

\* One frame and none.
LEMMA NumbersOfOne ==
    /\ Numbers(<<>>) = <<>>
    /\ \A x : Numbers(<<x>>) = <<x.n>>
<1>1. Numbers(<<>>) = <<>>  BY DEF Numbers
<1>2. ASSUME NEW x PROVE Numbers(<<x>>) = <<x.n>>
  <2>1. DOMAIN <<x>> = 1..1 /\ <<x>>[1] = x  OBVIOUS
  <2>2. Numbers(<<x>>) = [i \in 1..1 |-> <<x>>[i].n]  BY <2>1 DEF Numbers
  <2>3. <<x.n>> = [i \in 1..1 |-> <<x>>[i].n]  BY <2>1
  <2> QED  BY <2>2, <2>3
<1> QED  BY <1>1, <1>2

\* The rules of concatenation that follow.
LEMMA Joining ==
  \A x, y \in Seq(Nat) : x \o y \in Seq(Nat) /\ x \o <<>> = x /\ <<>> \o x = x
BY ConcatProperties, ConcatEmptySeq

\* The order of concatenations does not matter.
LEMMA JoiningThree == \A x, y, z \in Seq(Nat) : (x \o y) \o z = x \o (y \o z)
BY ConcatAssociative, SMTT(30)

\* The numbers of what is in each place.
LEMMA FrameNumbers ==
  ASSUME IInv
  PROVE  /\ hand \in Seq(FrameRec) /\ fetched \in Seq(FrameRec) /\ m_graph.held \in Seq(FrameRec)
         /\ out \in Seq(PictureRec)
         /\ Numbers(hand) \in Seq(Nat) /\ Numbers(fetched) \in Seq(Nat)
         /\ Numbers(m_graph.held) \in Seq(Nat) /\ Numbers(out) \in Seq(Nat)
         /\ Numbers(<<>>) = <<>> /\ Numbers(m_graph.held \o hand) = Numbers(m_graph.held) \o Numbers(hand)
         /\ m_graph.held # <<>> => /\ Numbers(m_graph.held) = <<Head(m_graph.held).n>> \o Numbers(Tail(m_graph.held))
                                   /\ Numbers(Tail(m_graph.held)) \in Seq(Nat)
                                   /\ <<Head(m_graph.held).n>> \in Seq(Nat)
<1>1. /\ hand \in Seq(FrameRec) /\ fetched \in Seq(FrameRec) /\ m_graph.held \in Seq(FrameRec)
      /\ out \in Seq(PictureRec)
  BY DEF IInv, AllOK, FramesOK, PicturesOK
<1>2. \A x \in FrameRec : x.n \in Nat  BY DEF FrameRec
<1>3. \A x \in PictureRec : x.n \in Nat  BY DEF PictureRec
<1>4. /\ Numbers(hand) \in Seq(Nat) /\ Numbers(fetched) \in Seq(Nat)
      /\ Numbers(m_graph.held) \in Seq(Nat) /\ Numbers(out) \in Seq(Nat)
      /\ Numbers(m_graph.held \o hand) = Numbers(m_graph.held) \o Numbers(hand)
  BY <1>1, <1>2, <1>3, NumbersAre
<1>5. ASSUME m_graph.held # <<>>
      PROVE  /\ Numbers(m_graph.held) = <<Head(m_graph.held).n>> \o Numbers(Tail(m_graph.held))
             /\ Numbers(Tail(m_graph.held)) \in Seq(Nat)
             /\ <<Head(m_graph.held).n>> \in Seq(Nat)
  <2>1. /\ Numbers(m_graph.held) = <<m_graph.held[1].n>> \o Numbers(Tail(m_graph.held))
        /\ Tail(m_graph.held) \in Seq(FrameRec)
    BY <1>1, <1>2, <1>5, NumbersAre
  <2>2. Numbers(Tail(m_graph.held)) \in Seq(Nat)  BY <1>2, <2>1, NumbersAre
  <2>3. Head(m_graph.held) = m_graph.held[1] /\ m_graph.held[1] \in FrameRec  BY <1>1, <1>5
  <2>4. <<Head(m_graph.held).n>> \in Seq(Nat)  BY <1>2, <2>3
  <2> QED  BY <2>1, <2>2, <2>3, <2>4
<1> QED  BY <1>1, <1>4, <1>5, NumbersOfOne

\* A frame goes one place further: into or out of the graph, past it, through the conversion.
LEMMA NoneOvertakes ==
  ASSUME NEW x \in Seq(Nat), NEW y \in Seq(Nat), NEW z \in Seq(Nat)
  PROVE  /\ x \o y \o z = x \o (y \o z) \o <<>>
         /\ x \o <<>> \o (y \o z) = x \o y \o z
         /\ x \o <<>> \o <<>> \o y = x \o y \o <<>> \o <<>>
         /\ x \o <<>> \o y = x \o y \o <<>>
<1>1. x \o y \o z = x \o (y \o z)  BY JoiningThree
<1>2. x \o (y \o z) \in Seq(Nat) /\ x \o y \in Seq(Nat)  BY Joining
<1> QED  BY <1>1, <1>2, Joining

\* The next number goes to the end.
LEMMA NextNumber ==
  ASSUME NEW n \in Nat, NEW s \in Seq(Nat), s = [i \in 1..n |-> i]
  PROVE  s \o <<n + 1>> = [i \in 1..n + 1 |-> i]
<1>1. Len(s) = n /\ \A i \in 1..n : s[i] = i  OBVIOUS
<1>2. Append(s, n + 1) = [i \in 1..n + 1 |-> i]
  <2>1. /\ Append(s, n + 1) \in Seq(Nat) /\ Len(Append(s, n + 1)) = n + 1
        /\ \A i \in 1..n : Append(s, n + 1)[i] = i
        /\ Append(s, n + 1)[n + 1] = n + 1
    BY <1>1, AppendProperties
  <2>2. DOMAIN Append(s, n + 1) = 1..n + 1  BY <2>1
  <2>3. \A i \in 1..n + 1 : Append(s, n + 1)[i] = i  BY <2>1
  <2>4. Append(s, n + 1) = [i \in 1..n + 1 |-> Append(s, n + 1)[i]]  BY <2>1, <2>2
  <2> QED  BY <2>3, <2>4
<1>3. Append(s, n + 1) = s \o <<n + 1>>  BY AppendIsConcat
<1> QED  BY <1>2, <1>3

\* A sequence of one frame.
LEMMA OneIsSingle == \A x : Single(<<x>>) /\ Single(<<>>) /\ <<x>> # <<>>
BY DEF Single

\* A step that leaves the numbers where they are.
LEMMA LineStays ==
  ASSUME InLine, Stages', UNCHANGED <<stop, pushed, next, scenario>>,
         Numbers(out') = Numbers(out), Numbers(fetched') = Numbers(fetched),
         Numbers(m_graph'.held) = Numbers(m_graph.held), Numbers(hand') = Numbers(hand),
         ~stop /\ place' \in {"build", "close", "done"} => m_graph'.held = <<>>,
         ~stop /\ place' \in {"flushEnd", "close", "done"} => next = Len(scenario.frames)
  PROVE  InLine'
<1>1. OnTheWay' = OnTheWay  BY DEF OnTheWay
<1> QED  BY <1>1 DEF InLine, Line

\* The next frame joins the end of the line.
LEMMA DecodesInLine ==
  ASSUME IInv, InLine, Decodes, UNCHANGED <<scenario, stop>>
  PROVE  InLine'
<1> DEFINE kind == scenario.frames[next + 1]
           way == pushed \o Numbers(out) \o Numbers(fetched) \o Numbers(m_graph.held)
<1>1. PICK c : hand' = <<Frame(kind, next + 1, c)>>  BY DEF Decodes
<1>2. place = "decode" /\ place' = "process" /\ next' = next + 1 /\ UNCHANGED <<m_graph, fetched, out, pushed>>
  BY DEF Decodes
<1>3. Stages'  BY <1>1, <1>2, OneIsSingle DEF InLine, Stages
<1>4. Numbers(hand') = <<next + 1>>
  <2>1. Frame(kind, next + 1, c).n = next + 1  BY DEF Frame
  <2> QED  BY <1>1, <2>1, NumbersOfOne
<1>5. ASSUME ~stop PROVE OnTheWay' = [i \in 1..next' |-> i]
  <2>1. way \in Seq(Nat) /\ OnTheWay = way /\ way = [i \in 1..next |-> i] /\ next \in Nat
    <3>1. way \in Seq(Nat)
      <4> DEFINE a == pushed \o Numbers(out)
                 b == a \o Numbers(fetched)
      <4>1. a \in Seq(Nat)  BY FrameNumbers, Joining DEF InLine
      <4> HIDE DEF a
      <4>2. b \in Seq(Nat)  BY <4>1, FrameNumbers, Joining
      <4> HIDE DEF b
      <4>3. b \o Numbers(m_graph.held) \in Seq(Nat)  BY <4>2, FrameNumbers, Joining
      <4> QED  BY <4>3 DEF a, b
    <3>2. hand = <<>>  BY <1>2 DEF InLine, Stages
    <3>3. OnTheWay = way \o <<>>  BY <3>2, NumbersOfOne DEF OnTheWay
    <3> HIDE DEF way
    <3>4. OnTheWay = way  BY <3>1, <3>3, Joining
    <3> QED  BY <1>5, <3>1, <3>4 DEF InLine, Line, IInv, Types
  <2>2. OnTheWay' = way \o <<next + 1>>  BY <1>2, <1>4 DEF OnTheWay
  <2> HIDE DEF way
  <2> QED  BY <1>2, <2>1, <2>2, NextNumber
<1> QED  BY <1>2, <1>3, <1>5 DEF InLine, Line

\* Without a filter a frame goes past an empty graph; a graph is replaced when it is empty.
LEMMA ProcessesInLine ==
  ASSUME IInv, InLine, ProcessesUnfiltered \/ DownloadsForFilter \/ ProcessesFiltered \/ BuildsFilter,
         UNCHANGED <<scenario, stop>>
  PROVE  InLine'
<1>1. CASE ProcessesUnfiltered
  <2> DEFINE q == pushed \o Numbers(out)
             a == Numbers(hand)
  <2>1. /\ place = "process" /\ place' = "drain" /\ scenario.filter = "none"
        /\ fetched' = hand /\ hand' = <<>> /\ UNCHANGED <<next, m_graph, out, pushed>>
    BY <1>1 DEF ProcessesUnfiltered
  <2>2. m_graph.held = <<>> /\ fetched = <<>>  BY <2>1 DEF IInv, Types, Draining, InLine, Stages
  <2>3. Stages'  BY <2>1, OneIsSingle DEF InLine, Stages
  <2>4. OnTheWay = q \o <<>> \o <<>> \o a /\ OnTheWay' = q \o a \o <<>> \o <<>>
    BY <2>1, <2>2, NumbersOfOne DEF OnTheWay
  <2>5. q \in Seq(Nat) /\ a \in Seq(Nat)  BY FrameNumbers, Joining DEF InLine
  <2> HIDE DEF q, a
  <2>6. OnTheWay' = OnTheWay  BY <2>4, <2>5, NoneOvertakes
  <2> QED  BY <2>1, <2>3, <2>6 DEF InLine, Line
<1>2. CASE DownloadsForFilter
  <2>1. PICK c : hand' = <<FilterSource(hand[1], c)>>  BY <1>2 DEF DownloadsForFilter
  <2>2. /\ hand = <<hand[1]>> /\ hand[1] \in FrameRec
    <3>1. hand # <<>> /\ hand \in Seq(FrameRec)  BY <1>2, FrameNumbers DEF DownloadsForFilter, IInv, Types
    <3> QED  BY <3>1 DEF InLine, Stages, Single
  <2>3. FilterSource(hand[1], c).n = hand[1].n  BY <2>2 DEF FilterSource, Downloaded, FrameRec
  <2>4. Numbers(hand') = Numbers(hand)
    <3>1. Numbers(hand') = <<hand[1].n>>  BY <2>1, <2>3, NumbersOfOne
    <3>2. Numbers(hand) = <<hand[1].n>>  BY <2>2, NumbersOfOne
    <3> QED  BY <3>1, <3>2
  <2>5. place = "process" /\ UNCHANGED <<next, place, m_graph, fetched, out, pushed>>
    BY <1>2 DEF DownloadsForFilter
  <2>6. Stages'  BY <2>1, <2>5, OneIsSingle DEF InLine, Stages
  <2> QED  BY <2>4, <2>5, <2>6, LineStays
<1>3. CASE ProcessesFiltered
  <2>1. /\ place = "process" /\ scenario.filter # "none" /\ UNCHANGED <<next, hand, m_graph, fetched, out, pushed>>
        /\ \/ m_graph.made /\ place' \in {"feed", "flushOld"}
           \/ ~m_graph.made /\ place' = "build"
    BY <1>3 DEF ProcessesFiltered, ChoosesGraph
  <2>2. Stages'  BY <2>1 DEF InLine, Stages
  <2>3. place' = "build" => m_graph'.held = <<>>  BY <2>1 DEF InLine, Stages
  <2> QED  BY <2>1, <2>2, <2>3, LineStays
<1>4. CASE BuildsFilter
  <2>1. /\ place = "build" /\ place' = "feed" /\ UNCHANGED <<next, hand, fetched, out, pushed>>
        /\ m_graph'.made = TRUE /\ m_graph'.held = <<>>
    BY <1>4 DEF BuildsFilter
  <2>2. Stages'  BY <2>1 DEF InLine, Stages
  <2>3. CASE stop  BY <2>1, <2>2, <2>3 DEF InLine, Line
  <2>4. CASE ~stop
    <3>1. m_graph.held = <<>>  BY <2>1, <2>4 DEF InLine, Line
    <3> QED  BY <2>1, <2>2, <3>1, LineStays
  <2> QED  BY <2>3, <2>4
<1> QED  BY <1>1, <1>2, <1>3, <1>4

\* A frame goes into the graph at one end and leaves it at the other.
LEMMA FiltersInLine ==
  ASSUME IInv, InLine, FeedsFilter \/ Fetches, UNCHANGED <<scenario, stop>>
  PROVE  InLine'
<1> DEFINE q == pushed \o Numbers(out)
           h == Numbers(m_graph.held)
           a == Numbers(hand)
<1>1. q \in Seq(Nat) /\ h \in Seq(Nat) /\ a \in Seq(Nat) /\ Numbers(fetched) \in Seq(Nat)
  BY FrameNumbers, Joining DEF InLine
<1>2. m_graph = [made |-> m_graph.made, input |-> m_graph.input, held |-> m_graph.held]
  BY DEF IInv, Types
<1>3. CASE FeedsFilter
  <2> DEFINE x == q \o Numbers(fetched)
  <2>1. /\ place = "feed" /\ place' = "drain" /\ hand' = <<>> /\ UNCHANGED <<next, fetched, out, pushed>>
        /\ m_graph'.made = m_graph.made /\ m_graph'.held = m_graph.held \o hand
    BY <1>2, <1>3 DEF FeedsFilter
  <2>2. Stages'  BY <2>1, OneIsSingle DEF InLine, Stages
  <2>3. Numbers(m_graph'.held) = h \o a /\ Numbers(hand') = <<>>  BY <2>1, FrameNumbers
  <2>4. OnTheWay = x \o h \o a /\ OnTheWay' = x \o (h \o a) \o <<>>
    BY <2>1, <2>3 DEF OnTheWay
  <2> HIDE DEF q
  <2>5. x \in Seq(Nat)  BY <1>1, Joining
  <2> HIDE DEF x
  <2>6. h \in Seq(Nat) /\ a \in Seq(Nat) /\ x \in Seq(Nat)  BY <1>1, <2>5
  <2> HIDE DEF h, a
  <2>7. x \o h \o a = x \o (h \o a) \o <<>>  BY <2>6, NoneOvertakes
  <2>8. OnTheWay' = OnTheWay  BY <2>4, <2>7
  <2> QED  BY <2>1, <2>2, <2>8 DEF InLine, Line
<1>4. CASE Fetches
  <2> DEFINE u == <<Head(m_graph.held).n>>
             v == Numbers(Tail(m_graph.held))
  <2>1. /\ Draining /\ fetched = <<>> /\ Ready # <<>> /\ fetched' = <<Head(m_graph.held)>>
        /\ UNCHANGED <<next, place, hand, out, pushed>>
        /\ m_graph'.made = m_graph.made /\ m_graph'.held = Tail(m_graph.held)
    BY <1>2, <1>4 DEF Fetches
  <2>2. m_graph.held # <<>>
    <3>1. scenario.delay \in Nat  BY VideoOutAssumption DEF IInv, Types, Scenario
    <3>2. SubSeq(<<>>, 1, 0 - scenario.delay) = <<>>  BY <3>1
    <3>3. m_graph.held = <<>> => Ready = <<>>  BY <3>2 DEF Ready
    <3> QED  BY <2>1, <3>3
  <2>3. Stages'  BY <2>1, <2>2, OneIsSingle DEF InLine, Stages
  <2>4. h = u \o v /\ u \in Seq(Nat) /\ v \in Seq(Nat) /\ Numbers(fetched) = <<>> /\ Numbers(fetched') = u
    BY <2>1, <2>2, FrameNumbers, NumbersOfOne
  <2>5. OnTheWay = q \o <<>> \o (u \o v) \o a /\ OnTheWay' = q \o u \o v \o a
    BY <2>1, <2>4 DEF OnTheWay
  <2> HIDE DEF q, h, a, u, v
  <2>6. q \in Seq(Nat) /\ u \in Seq(Nat) /\ v \in Seq(Nat)  BY <1>1, <2>4
  <2>7. q \o <<>> \o (u \o v) = q \o u \o v  BY <2>6, NoneOvertakes
  <2>8. OnTheWay' = OnTheWay  BY <2>5, <2>7
  <2>9. place \notin {"build", "close", "done"}  BY <2>1 DEF Draining
  <2> QED  BY <2>1, <2>3, <2>8, <2>9 DEF InLine, Line
<1> QED  BY <1>3, <1>4

\* A download and a conversion keep the number.
LEMMA EmitsInLine ==
  ASSUME IInv, InLine, EmitDownloads \/ EmitConverts, UNCHANGED <<scenario, stop>>
  PROVE  InLine'
<1> DEFINE f == fetched[1]
<1>1. /\ fetched = <<f>> /\ f \in FrameRec /\ out = <<>> /\ Draining
      /\ UNCHANGED <<next, place, hand, m_graph, pushed>>
  <2>1. fetched # <<>> /\ UNCHANGED <<next, place, hand, m_graph, pushed>>
    BY DEF EmitDownloads, EmitConverts
  <2>2. fetched \in Seq(FrameRec)  BY FrameNumbers
  <2>3. fetched = <<f>>  BY <2>1 DEF InLine, Stages, Single
  <2> QED  BY <2>1, <2>2, <2>3 DEF IInv, Types
<1>2. CASE EmitDownloads
  <2>1. PICK c, d : fetched' = <<Downloaded(f, c, d)>> /\ out' = out  BY <1>2 DEF EmitDownloads
  <2>2. Downloaded(f, c, d).n = f.n  BY <1>1 DEF Downloaded, FrameRec
  <2>3. Numbers(fetched') = Numbers(fetched)
    <3>1. Numbers(fetched') = <<f.n>>  BY <2>1, <2>2, NumbersOfOne
    <3>2. Numbers(fetched) = <<f.n>>  BY <1>1, NumbersOfOne
    <3> QED  BY <3>1, <3>2
  <2>4. Stages'  BY <1>1, <2>1, OneIsSingle DEF InLine, Stages
  <2>5. place \notin {"build", "close", "done"}  BY <1>1 DEF Draining
  <2> QED  BY <1>1, <2>1, <2>3, <2>4, <2>5, LineStays DEF InLine, Line
<1>3. CASE EmitConverts
  <2>1. fetched' = <<>> /\ (PassesOn(f) \/ Repacks(f) \/ Converts(f))  BY <1>3 DEF EmitConverts
  <2>2. PICK c : out' = <<Picture(f, c)>>  BY <2>1 DEF PassesOn, Repacks, Converts
  <2>3. Picture(f, c).n = f.n  BY DEF Picture
  <2>4. Numbers(out') = <<f.n>> /\ Numbers(fetched) = <<f.n>> /\ Numbers(fetched') = <<>> /\ Numbers(out) = <<>>
    <3>1. Numbers(out') = <<f.n>>  BY <2>2, <2>3, NumbersOfOne
    <3>2. Numbers(fetched) = <<f.n>>  BY <1>1, NumbersOfOne
    <3> QED  BY <1>1, <2>1, <3>1, <3>2, NumbersOfOne
  <2>5. Stages'  BY <1>1, <2>1, <2>2, OneIsSingle DEF InLine, Stages
  <2> DEFINE b == <<f.n>>
             h == Numbers(m_graph.held)
             a == Numbers(hand)
  <2>6. OnTheWay = pushed \o <<>> \o b \o h \o a /\ OnTheWay' = pushed \o b \o <<>> \o h \o a
    BY <1>1, <2>4 DEF OnTheWay
  <2>7. b \in Seq(Nat) /\ pushed \in Seq(Nat)  BY <2>4, FrameNumbers DEF InLine
  <2> HIDE DEF b, h, a
  <2>8. pushed \o <<>> \o b = pushed \o b \o <<>>  BY <2>7, NoneOvertakes
  <2>9. OnTheWay' = OnTheWay  BY <2>6, <2>8
  <2>10. place \notin {"build", "close", "done"}  BY <1>1 DEF Draining
  <2> QED  BY <1>1, <2>5, <2>9, <2>10 DEF InLine, Line
<1> QED  BY <1>2, <1>3

\* The queue takes a picture, or refuses it after a stop.
LEMMA SinkInLine ==
  ASSUME IInv, InLine, SinkStores \/ SinkRefuses, UNCHANGED <<scenario, stop>>
  PROVE  InLine'
<1>1. out = <<out[1]>> /\ Draining /\ out[1] \in PictureRec /\ UNCHANGED <<next, hand, m_graph, fetched>>
  <2>1. out # <<>> /\ UNCHANGED <<next, hand, m_graph, fetched>>  BY DEF SinkStores, SinkRefuses
  <2>2. out \in Seq(PictureRec)  BY FrameNumbers
  <2> QED  BY <2>1, <2>2 DEF InLine, Stages, Single, IInv, Types
<1>2. CASE SinkStores
  <2> DEFINE o == <<out[1].n>>
             f == Numbers(fetched)
             h == Numbers(m_graph.held)
             a == Numbers(hand)
             q == pushed \o o
  <2>1. place' = place /\ out' = <<>> /\ pushed' = Append(pushed, out[1].n)  BY <1>2 DEF SinkStores
  <2>2. out[1].n \in Nat /\ pushed \in Seq(Nat)  BY <1>1 DEF PictureRec, InLine
  <2>3. pushed' = q /\ q \in Seq(Nat)  BY <2>1, <2>2, AppendIsConcat, AppendProperties
  <2>4. Numbers(out) = o /\ Numbers(out') = <<>>  BY <1>1, <2>1, NumbersOfOne
  <2>5. OnTheWay = q \o f \o h \o a /\ OnTheWay' = q \o <<>> \o f \o h \o a
    BY <1>1, <2>3, <2>4 DEF OnTheWay
  <2> HIDE DEF q, f, h, a
  <2>6. q \o <<>> = q  BY <2>3, Joining
  <2>7. OnTheWay' = OnTheWay  BY <2>5, <2>6
  <2>8. Stages'  BY <1>1, <2>1, OneIsSingle DEF InLine, Stages
  <2>9. place \notin {"build", "close", "done"}  BY <1>1 DEF Draining
  <2> QED  BY <1>1, <2>1, <2>3, <2>7, <2>8, <2>9 DEF InLine, Line
<1>3. CASE SinkRefuses
  <2>1. stop /\ out' = <<>> /\ place' = AfterDrain /\ pushed' = pushed  BY <1>3 DEF SinkRefuses
  <2>2. place' \in {"close", "decode", "build"} /\ (place' = "build" => place = "flushOld")
    BY <1>1, <2>1 DEF AfterDrain, Draining
  <2>3. Stages'
    <3>1. hand' = <<>> \/ place' = "build"
      BY <1>1, <2>1 DEF InLine, Stages, AfterDrain, Draining
    <3> QED  BY <1>1, <2>1, <2>2, <3>1, OneIsSingle DEF InLine, Stages
  <2> QED  BY <2>1, <2>3 DEF InLine, Line
<1> QED  BY <1>2, <1>3

\* A drain is over when nothing is ready, which at the end of a graph is when it is empty.
LEMMA DrainedInLine ==
  ASSUME IInv, InLine, Drained, UNCHANGED <<scenario, stop>>
  PROVE  InLine'
<1>1. /\ Draining /\ Ready = <<>> /\ place' = AfterDrain
      /\ UNCHANGED <<next, hand, m_graph, fetched, out, pushed>>
  BY DEF Drained
<1>2. \/ place = "drain" /\ place' = (IF stop THEN "close" ELSE "decode") /\ hand = <<>>
      \/ place = "flushOld" /\ place' = "build" /\ m_graph.held = <<>>
      \/ place = "flushEnd" /\ place' = "close" /\ m_graph.held = <<>> /\ hand = <<>>
  <2>1. CASE place = "drain"  BY <1>1, <2>1 DEF AfterDrain, InLine, Stages
  <2>2. CASE place = "flushOld"  BY <1>1, <2>2 DEF AfterDrain, Ready
  <2>3. CASE place = "flushEnd"  BY <1>1, <2>3 DEF AfterDrain, Ready, InLine, Stages
  <2> QED  BY <1>1, <2>1, <2>2, <2>3 DEF Draining
<1>3. Stages'  BY <1>1, <1>2 DEF InLine, Stages
<1>4. ~stop /\ place' \in {"build", "close", "done"} => m_graph'.held = <<>>  BY <1>1, <1>2
<1>5. ~stop /\ place' \in {"flushEnd", "close", "done"} => next = Len(scenario.frames)
  BY <1>2 DEF InLine, Line
<1> QED  BY <1>1, <1>3, <1>4, <1>5, LineStays

\* The end comes when all is decoded, and there is a graph to flush or none.
LEMMA EndsInLine ==
  ASSUME IInv, InLine, DecodingEnds \/ Closes, UNCHANGED <<scenario, stop>>
  PROVE  InLine'
<1>1. UNCHANGED <<next, hand, m_graph, fetched, out, pushed>>  BY DEF DecodingEnds, Closes
<1>2. CASE DecodingEnds
  <2>1. /\ place = "decode" /\ (stop \/ next = Len(scenario.frames))
        /\ place' = IF stop \/ ~m_graph.made THEN "close" ELSE "flushEnd"
    BY <1>2 DEF DecodingEnds
  <2>2. Stages'  BY <1>1, <2>1 DEF InLine, Stages
  <2>3. ~stop /\ place' \in {"build", "close", "done"} => m_graph'.held = <<>>
    BY <1>1, <2>1 DEF InLine, Stages
  <2> QED  BY <1>1, <2>1, <2>2, <2>3, LineStays
<1>3. CASE Closes
  <2>1. place = "close" /\ place' = "done"  BY <1>3 DEF Closes
  <2>2. Stages'  BY <1>1, <2>1 DEF InLine, Stages
  <2>3. ~stop => m_graph'.held = <<>> /\ next = Len(scenario.frames)  BY <1>1, <2>1 DEF InLine, Line
  <2> QED  BY <1>1, <2>1, <2>2, <2>3, LineStays
<1> QED  BY <1>2, <1>3

\* No step of any thread loses a frame or lets one overtake another.
LEMMA InLineKept == IInv /\ InLine /\ [Next]_vars => InLine'
<1> SUFFICES ASSUME IInv, InLine, [Next]_vars PROVE InLine'  OBVIOUS
<1>1. CASE Decoder
  <2>1. UNCHANGED <<scenario, stop>>  BY <1>1 DEF Decoder
  <2> QED
    BY <1>1, <2>1, DecodesInLine, ProcessesInLine, FiltersInLine, EmitsInLine, SinkInLine,
       DrainedInLine, EndsInLine
       DEF Decoder
<1>2. ASSUME UNCHANGED <<scenario, decoding>>, stop => stop'  PROVE InLine'
  <2>1. UNCHANGED <<scenario, next, place, hand, m_graph, fetched, out, pushed>>  BY <1>2 DEF decoding
  <2>2. Stages' /\ OnTheWay' = OnTheWay
    <3>1. Single(hand)' <=> Single(hand)  BY <2>1
    <3>2. Single(out)' <=> Single(out)  BY <2>1
    <3>3. Single(fetched)' <=> Single(fetched)  BY <2>1
    <3>4. Stages'  BY <2>1, <3>1, <3>2, <3>3 DEF InLine, Stages
    <3>5. OnTheWay' = OnTheWay  BY <2>1 DEF OnTheWay
    <3> QED  BY <3>4, <3>5
  <2> QED  BY <1>2, <2>1, <2>2 DEF InLine, Line
<1>3. CASE Presenter  BY <1>2, <1>3 DEF Presenter
<1>4. CASE NdiIsDone  BY <1>2, <1>4 DEF NdiIsDone
<1>5. CASE RequestStop  BY <1>2, <1>5 DEF RequestStop
<1>6. CASE UNCHANGED vars  BY <1>2, <1>6 DEF vars
<1>7. CASE Done  BY <1>6, <1>7 DEF Done
<1> QED  BY <1>1, <1>3, <1>4, <1>5, <1>6, <1>7 DEF Next

\* At the start nothing is on the way.
LEMMA InLineInit == Init => InLine
<1> SUFFICES ASSUME Init PROVE InLine  OBVIOUS
<1>1. /\ pushed = <<>> /\ out = <<>> /\ fetched = <<>> /\ hand = <<>> /\ m_graph.held = <<>>
      /\ m_graph.made = FALSE /\ next = 0 /\ place = "decode"
  BY DEF Init, NoGraph
<1>2. Stages  BY <1>1, OneIsSingle DEF Stages
<1>3. OnTheWay = <<>>
  <2>1. OnTheWay = <<>> \o <<>> \o <<>> \o <<>> \o <<>>  BY <1>1, NumbersOfOne DEF OnTheWay
  <2>2. <<>> \o <<>> = <<>>  BY Joining
  <2> QED  BY <2>1, <2>2
<1>4. [i \in 1..0 |-> i] = <<>>  OBVIOUS
<1>5. Line  BY <1>1, <1>3, <1>4 DEF Line
<1> QED  BY <1>1, <1>2, <1>5 DEF InLine

\* At the end nothing is on the way but what was pushed.
LEMMA NothingStaysBehind == IInv /\ InLine => FilterLosesNothing
<1> SUFFICES ASSUME IInv, InLine, ~stop
             PROVE  /\ OnTheWay = [i \in 1..next |-> i]
                    /\ place = "done" => Len(pushed) = Len(scenario.frames)
  BY DEF FilterLosesNothing, OnTheWay
<1>1. OnTheWay = [i \in 1..next |-> i] /\ next \in Nat /\ pushed \in Seq(Nat)
  BY DEF InLine, Line, IInv, Types
<1>2. ASSUME place = "done" PROVE Len(pushed) = Len(scenario.frames)
  <2>1. /\ out = <<>> /\ fetched = <<>> /\ hand = <<>> /\ m_graph.held = <<>>
        /\ next = Len(scenario.frames)
    BY <1>2 DEF InLine, Line, Stages, IInv, Types, Draining
  <2>2. OnTheWay = pushed \o <<>> \o <<>> \o <<>> \o <<>>  BY <2>1, NumbersOfOne DEF OnTheWay
  <2>3. OnTheWay = pushed
    <3>1. pushed \o <<>> = pushed  BY <1>1, Joining
    <3> QED  BY <2>2, <3>1
  <2>4. Len([i \in 1..next |-> i]) = next  BY <1>1
  <2> QED  BY <1>1, <2>1, <2>3, <2>4
<1> QED  BY <1>1, <1>2

\* VideoProcessor hands on every frame of the decoder, in order, and none is left in a filter
\* graph when a change of the input replaces it or the input ends (video_processor.cpp, Flush
\* before the new graph, and VideoDecodeLoop's on_end), whatever the graph holds back.
THEOREM FramesKeepTheirOrder == Spec => []FilterLosesNothing
<1>1. IInv /\ InLine => FilterLosesNothing  BY NothingStaysBehind
<1> QED  BY InitHolds, NextKeeps, InLineInit, InLineKept, <1>1, PTL DEF Spec
=============================================================================
