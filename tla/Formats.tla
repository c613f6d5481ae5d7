------------------------------- MODULE Formats -------------------------------
(***************************************************************************)
(* The format tables of the elements and of the driver, and what has to be *)
(* true between them.  A mode is a video mode, a bit density and a sector  *)
(* format; every element computes its own numbers from the same mode,      *)
(* which travels in the caps of the buffers (bkr_parse_caps()).            *)
(***************************************************************************)
EXTENDS Integers, Sequences

VideoModes    == {"NTSC", "PAL"}
Densities     == {"LOW", "HIGH"}
SectorFormats == {"SP", "EP"}
Modes == [video : VideoModes, density : Densities, sector : SectorFormats]

(* The row of a two-by-two table: NTSC and PAL at low density, then both   *)
(* at high density.                                                        *)
Row(mode, table) ==
  table[(IF mode.density = "HIGH" THEN 3 ELSE 1)
        + (IF mode.video = "PAL" THEN 1 ELSE 0)]

\* Mutant: the table of the driver in the order of the densities.
SwappedModeToFrameSize(mode) == Row(mode, <<2028, 5070, 2440, 6100>>)

(* bkr_mode_to_frame_size(): bytes in the two fields of a video frame.     *)
ModeToFrameSize(mode) == Row(mode, <<2028, 2440, 5070, 6100>>)

-----------------------------------------------------------------------------
FrameRow(size, interlace, leader, trailer, active, interval, length) ==
  [field_size |-> size, interlace |-> interlace, leader |-> leader,
   trailer |-> trailer, active_size |-> active, key_interval |-> interval,
   key_length |-> length]

FrameRows == [field_size : Nat, interlace : Nat, leader : Nat, trailer : Nat,
              active_size : Nat, key_interval : Nat, key_length : Nat]

(* compute_format() of bkr_frame.c.                                        *)
FrameFormat(mode) ==
  IF mode.sector = "EP"
  THEN Row(mode, << FrameRow(1012, 4, 40, 32, 940, 44, 22),
                    FrameRow(1220, 0, 48, 36, 1136, 40, 29),
                    FrameRow(2530, 10, 100, 70, 2360, 84, 29),
                    FrameRow(3050, 0, 120, 90, 2840, 91, 32) >>)
  ELSE Row(mode, << FrameRow(1012, 4, 32, 28, 952, 45, 22),
                    FrameRow(1220, 0, 40, 36, 1144, 49, 24),
                    FrameRow(2530, 10, 80, 70, 2380, 125, 20),
                    FrameRow(3050, 0, 100, 90, 2860, 136, 22) >>)

SectorKey ==
  << 212, 124, 177, 147, 102, 101, 106, 181,  99, 228,  86,  89, 108, 190, 197,
     202, 244, 156, 163, 172, 109, 179, 210, 126, 116, 166, 225, 169,  92, 154,
      75,  93 >>
Leader  == 226
Trailer ==  51

FieldData(f) == f.active_size - f.key_length
LastChunk(f) == (f.active_size % f.key_interval) - 1

(* compute_format() of bkr_rll.c, for the EP format only, of bkr_splp.c    *)
(* and of bkr_ecc2.c.                                                      *)
RllFormat(mode) ==
  Row(mode, << [capacity |->  816, modulation_pad |-> 102],
               [capacity |->  984, modulation_pad |-> 123],
               [capacity |-> 2072, modulation_pad |-> 259],
               [capacity |-> 2496, modulation_pad |-> 312] >>)

SplpRow(data, parity, capacity, interleave) ==
  [data_size |-> data, parity_size |-> parity, capacity |-> capacity,
   interleave |-> interleave]

SplpFormat(mode) ==
  IF mode.sector = "EP"
  THEN Row(mode, << SplpRow(720, 96, 716, 12), SplpRow(888, 96, 884, 12),
                    SplpRow(1848, 224, 1844, 28), SplpRow(2288, 208, 2284, 26) >>)
  ELSE Row(mode, << SplpRow(830, 100, 826, 10), SplpRow(980, 140, 976, 14),
                    SplpRow(2160, 200, 2156, 20), SplpRow(2618, 220, 2614, 22) >>)

BlockSize == 255
Parity    == 20
Ecc2Capacity(mode)  == Row(mode, <<716, 884, 1844, 2284>>)
Ecc2GroupSize(mode) == BlockSize * Ecc2Capacity(mode)

(* enc_setcaps() of bkr_splp.c and of bkr_ecc2.c: n and k of the code, and *)
(* what reed_solomon_codec_new() accepts of them.                          *)
SplpCode(s)     == <<(s.data_size + s.parity_size) \div s.interleave,
                     s.data_size \div s.interleave>>
Ecc2Code(mode)  == <<Ecc2GroupSize(mode) \div Ecc2Capacity(mode),
                     ((BlockSize - Parity) * Ecc2Capacity(mode)) \div Ecc2Capacity(mode)>>
CodecAccepts(n, k) == n <= 255 /\ k <= n

(* enc_bufferalloc() of bkr_frame.c and of bkr_rll.c: an element in front  *)
(* that asks for a buffer gets one of this size, whatever it asked for.    *)
FrameBuffer(mode) == FieldData(FrameFormat(mode))
RllBuffer(mode)   == RllFormat(mode).capacity

(* compute_format() of bkr_video_out.c: one byte in front of every line is *)
(* the line's sync byte, drawn but not read.                               *)
VideoOutFormat(mode) ==
  LET bytes == IF mode.density = "LOW" THEN 4 ELSE 10
      bit   == IF mode.density = "LOW" THEN 8 ELSE 4
  IN  [bytes_per_line |-> bytes,
       width          |-> bit * 8 * (bytes + 1),
       height         |-> IF mode.video = "NTSC" THEN 253 ELSE 305,
       interlace      |-> IF mode.video = "NTSC" THEN 1 ELSE 0]

BytesInImage(v) == v.width * (v.height + v.interlace)

(* The caps of the template of the source pad, and transform_caps().       *)
TemplateCaps ==
  [width : {320, 352}, height : {254}, framerate : {<<60000, 1001>>}]
    \union [width : {320, 352}, height : {305}, framerate : {<<50, 1>>}]

TransformCaps(mode) ==
  LET v == VideoOutFormat(mode)
  IN  [width |-> v.width, height |-> v.height + v.interlace,
       framerate |-> IF mode.video = "NTSC" THEN <<60000, 1001>> ELSE <<50, 1>>]

(* draw_field(): the bytes it writes, for a number of lines.               *)
DrawnBytes(mode, lines) ==
  LET bit == IF mode.density = "LOW" THEN 8 ELSE 4
  IN  lines * (VideoOutFormat(mode).bytes_per_line + 1) * 8 * bit

(* The mode put into the caps, or none for caps bkr_parse_caps() cannot    *)
(* read or an element does not support: a set of at most one format.       *)
CapsToFormat(table, caps) == IF caps \in DOMAIN table THEN {table[caps]} ELSE {}

-----------------------------------------------------------------------------
(* What the field codec takes for granted of a row of its table: the parts *)
(* fill the field, the key bytes stand every key_interval bytes and the    *)
(* last of them has the rest of the active region behind it.               *)
FrameFormatOK(f) ==
  /\ f.field_size = f.leader + f.active_size + f.trailer
  /\ f.key_interval > 1
  /\ f.active_size \div f.key_interval = f.key_length - 1
  /\ LastChunk(f) >= 0

(* The search has no number to tell a field by.  Leader and trailer can    *)
(* make up for lost bytes only if a shift by all of them leaves the middle *)
(* of the key in its field.                                                *)
GapsAreShort(f) ==
  LET gap    == f.leader + f.trailer
      middle == (f.key_length \div 2) * f.key_interval
  IN  gap <= middle /\ middle + gap < f.active_size

(* What bkr_splp.c takes for granted: the header fits in front of the      *)
(* parity, the blocks are interleaved without a rest and short enough for  *)
(* the field of 256 elements, and the randomiser, which rounds up to four  *)
(* bytes, stays within the data.                                           *)
SplpFormatOK(s) ==
  LET blocks == s.data_size + s.parity_size
  IN  /\ s.capacity + 4 = s.data_size
      /\ blocks % s.interleave = 0
      /\ s.parity_size % s.interleave = 0
      /\ CodecAccepts(SplpCode(s)[1], SplpCode(s)[2])
      /\ ((s.capacity + 3) \div 4) * 4 <= s.data_size

(* A byte of the key is found nowhere else in the key, the leader or the   *)
(* trailer, so only data or noise can imitate a field.                     *)
KeyIsDistinct ==
  /\ \A i, j \in DOMAIN SectorKey : SectorKey[i] = SectorKey[j] => i = j
  /\ \A i \in DOMAIN SectorKey : SectorKey[i] \notin {Leader, Trailer}

(* The stack fits together in a mode.  Every element checks the size of    *)
(* the buffers it is given against a table of its own, gives buffers of    *)
(* that size to the element in front of it, whatever that asked for, and   *)
(* the driver and the video display cut the stream by tables of theirs:    *)
(* one number out of step in six tables and a mode cannot record, or       *)
(* records what no field can be found in.  The display must draw as much   *)
(* as it announces, in the caps of its template.                           *)
FitsIn(mode) ==
  LET frame == FrameFormat(mode)
      splp  == SplpFormat(mode)
      video == VideoOutFormat(mode)
      coded == splp.data_size + splp.parity_size
  IN  /\ FrameFormatOK(frame)
      /\ GapsAreShort(frame)
      /\ SplpFormatOK(splp)
      /\ frame.key_length <= Len(SectorKey)
      /\ ModeToFrameSize(mode) = 2 * frame.field_size + frame.interlace
      /\ video.height * video.bytes_per_line = frame.field_size
      /\ video.interlace * video.bytes_per_line = frame.interlace
      /\ TransformCaps(mode) \in TemplateCaps
      /\ DrawnBytes(mode, video.height + video.interlace) = BytesInImage(video)
      /\ IF mode.sector = "EP"
         THEN /\ RllBuffer(mode) = coded
              /\ 8 * RllFormat(mode).modulation_pad = coded
              /\ coded + RllFormat(mode).modulation_pad = FrameBuffer(mode)
              /\ Ecc2Capacity(mode) = splp.capacity
              /\ CodecAccepts(Ecc2Code(mode)[1], Ecc2Code(mode)[2])
         ELSE coded = FrameBuffer(mode)
=============================================================================
