------------------------------ MODULE PixelLayout ------------------------------
(***************************************************************************)
(* src/av/video_processor.cpp: the pixel formats NDI takes, how the planes  *)
(* of a picture are laid out for it, and which format a picture is sent in. *)
(***************************************************************************)
EXTENDS Integers, Sequences

\* VideoFourCC; every other format (p010, yuvj420p, vaapi...) has none.
NdiFormats == {"uyvy", "nv12", "i420", "bgra", "bgr0", "rgba", "rgb0"}
RgbFormats == {"bgra", "bgr0", "rgba", "rgb0"}
HasFourCC(format) == format \in NdiFormats
IsRgb(format) == format \in RgbFormats

\* The formats that are full range by name, and those marked so.
IsFullRange(frame) ==
    \/ frame.format \in {"yuvj420p", "yuvj422p", "yuvj444p", "yuvj440p", "yuvj411p"}
    \/ frame.full

\* The formats --pixel-format names.
OutputPixelFormat == {"auto", "uyvy", "nv12", "i420", "bgra", "rgba"}

TargetFormat(output, source, full) ==
    IF output # "auto" THEN output
    ELSE IF HasFourCC(source) /\ (IsRgb(source) \/ ~full) THEN source ELSE "uyvy"

\* FFALIGN.
Align(x, a) == ((x + a - 1) \div a) * a
Half(x) == (x + 1) \div 2

Packed(line, h) == [linesize |-> <<line>>, offset |-> <<0>>, size |-> line * h]

SemiPlanar(line, h) ==
    [linesize |-> <<line, line>>,
     offset |-> <<0, line * h>>,
     size |-> line * h + line * Half(h)]

Planar(line, h) ==
    LET chroma == line \div 2 IN
    [linesize |-> <<line, chroma, chroma>>,
     offset |-> <<0, line * h, line * h + chroma * Half(h)>>,
     size |-> line * h + chroma * Half(h) + chroma * Half(h)]

ContiguousLayout(format, w, h) ==
    CASE format = "uyvy" -> Packed(Align(w * 2, 64), h)
      [] IsRgb(format) -> Packed(Align(w * 4, 64), h)
      [] format = "nv12" -> SemiPlanar(Align(w, 64), h)
      [] format = "i420" -> Planar(Align(w, 128), h)

\* Whether planes at these offsets, with these line sizes, are where NDI looks.
HasNdiLayout(format, layout, h) ==
    LET ls == layout.linesize
        data == layout.offset
    IN  /\ ls[1] > 0
        /\ format = "nv12" => ls[2] = ls[1] /\ data[2] = data[1] + ls[1] * h
        /\ format = "i420" =>
             /\ ls[1] % 2 = 0 /\ ls[2] = ls[1] \div 2 /\ ls[3] = ls[2]
             /\ data[2] = data[1] + ls[1] * h
             /\ data[3] = data[2] + ls[2] * Half(h)
-----------------------------------------------------------------------------
\* What one line of each plane holds, and how many lines it has.
LineBytes(format, w) ==
    CASE format = "uyvy" -> <<4 * Half(w)>>
      [] IsRgb(format) -> <<4 * w>>
      [] format = "nv12" -> <<w, 2 * Half(w)>>
      [] format = "i420" -> <<w, Half(w), Half(w)>>

Lines(format, h) ==
    CASE format = "nv12" -> <<h, Half(h)>>
      [] format = "i420" -> <<h, Half(h), Half(h)>>
      [] OTHER -> <<h>>

\* Every line fits its stride, and the planes follow each other to the end of the
\* buffer without overlapping.
PlanesFit(format, w, h) ==
    LET l == ContiguousLayout(format, w, h)
        lines == Lines(format, h)
    IN  /\ \A i \in DOMAIN lines : LineBytes(format, w)[i] <= l.linesize[i]
        /\ \A i \in DOMAIN lines :
             l.offset[i] + l.linesize[i] * lines[i]
                 = (IF i + 1 \in DOMAIN lines THEN l.offset[i + 1] ELSE l.size)
=============================================================================
