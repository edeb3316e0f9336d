--------------------------- MODULE SnapshotCodec ---------------------------
(***************************************************************************)
(* How the grids of a world travel: the engine lays them out row by row,    *)
(* packs bits into bytes and writes base64; the browser decodes them and    *)
(* draws cell (x, y) from index y * width + x.  A grid of bits is the set   *)
(* of its cells that are set, a byte a number below 256, a character of     *)
(* base64 its number below 64, or Pad.                                      *)
(***************************************************************************)
EXTENDS Integers, Sequences, FiniteSets

\* capture_snapshot: the bytes of a grid of bits, row by row.
Capture(w, h, cells) ==
  [i \in 1 .. w * h |-> IF <<(i - 1) % w, (i - 1) \div w>> \in cells THEN 1 ELSE 0]

\* Mutant: a last byte that is not full is left out.
FullBytes(n) == n \div 8
NBytes(n) == (n + 7) \div 8

\* Mutant: the first cell is the lowest bit.
LowestFirst(i) == 2 ^ (i % 8)
BitOf(i) == 2 ^ (7 - (i % 8))

\* The bits are distinct powers, so a byte is the sum of those of its cells.
pack_bits(cells) ==
  LET Bit(i) == IF i < Len(cells) /\ cells[i + 1] # 0 THEN BitOf(i) ELSE 0 IN
  [k \in 1 .. NBytes(Len(cells)) |->
     LET i == 8 * (k - 1) IN
     Bit(i) + Bit(i + 1) + Bit(i + 2) + Bit(i + 3)
       + Bit(i + 4) + Bit(i + 5) + Bit(i + 6) + Bit(i + 7)]

unpack_bits(packed, total) ==
  [i \in 1 .. total |->
     IF (i - 1) \div 8 < Len(packed)
       THEN (packed[(i - 1) \div 8 + 1] \div 2 ^ (7 - ((i - 1) % 8))) % 2
       ELSE 0]

Pad == 64

\* Three bytes or four characters as one number, and the number taken apart.
OfBytes(a, b, c) == a * 65536 + b * 256 + c
OfChars(a, b, c, d) == a * 262144 + b * 4096 + c * 64 + d
BytesIn(t) == <<(t \div 65536) % 256, (t \div 256) % 256, t % 256>>
CharsIn(t) == <<(t \div 262144) % 64, (t \div 4096) % 64, (t \div 64) % 64, t % 64>>

\* The g-th group of three bytes, bytes that are missing as 0.
Byte(bytes, i) == IF i \in DOMAIN bytes THEN bytes[i] ELSE 0
Triple(bytes, g) ==
  OfBytes(Byte(bytes, 3 * g + 1), Byte(bytes, 3 * g + 2), Byte(bytes, 3 * g + 3))

\* Mutant: the last character of a group of two bytes is no padding.
PadOne(rest, k) == rest = 1 /\ k >= 2
IsPad(rest, k) == k > rest

\* Four characters for three bytes; a last group of one byte has two of
\* padding, one of two bytes has one.
base64_encode(bytes) ==
  [i \in 1 .. 4 * ((Len(bytes) + 2) \div 3) |->
     LET g == (i - 1) \div 4
         k == (i - 1) % 4 IN
     IF IsPad(Len(bytes) - 3 * g, k) THEN Pad ELSE CharsIn(Triple(bytes, g))[k + 1]]

\* A group gives a byte for each character but its first that is no padding.
base64_decode(chars) ==
  LET Value(i) == IF chars[i] = Pad THEN 0 ELSE chars[i]
      Group(g) == OfChars(Value(4 * g + 1), Value(4 * g + 2), Value(4 * g + 3), Value(4 * g + 4))
      pads == Cardinality({i \in DOMAIN chars : chars[i] = Pad}) IN
  [i \in 1 .. 3 * (Len(chars) \div 4) - pads |->
     BytesIn(Group((i - 1) \div 3))[((i - 1) % 3) + 1]]

genome_to_hex(genome) ==
  [i \in 1 .. 2 * Len(genome) |->
     IF i % 2 = 1 THEN genome[(i + 1) \div 2] \div 16 ELSE genome[i \div 2] % 16]

hex_to_genome(hex) == [i \in 1 .. Len(hex) \div 2 |-> hex[2 * i - 1] * 16 + hex[2 * i]]

\* decodeBitGrid and the renderer's index.
Drawn(w, h, chars) ==
  LET cells == unpack_bits(base64_decode(chars), w * h) IN
  {c \in (0 .. w - 1) \X (0 .. h - 1) : cells[c[2] * w + c[1] + 1] # 0}

(***************************************************************************)
(* Properties.                                                             *)
(***************************************************************************)

\* The browser draws a grid as the engine has it, for every grid of these
\* shapes: also when cells do not fill the last byte, or bytes the last group.
GridsArrive(shapes) ==
  \A s \in shapes : \A cells \in SUBSET ((0 .. s[1] - 1) \X (0 .. s[2] - 1)) :
    Drawn(s[1], s[2], base64_encode(pack_bits(Capture(s[1], s[2], cells)))) = cells

\* Bytes (terrain, a genome) arrive unchanged, whatever their number.
BytesArrive(bytes, longest) ==
  \A n \in 0 .. longest : \A b \in [1 .. n -> bytes] :
    base64_decode(base64_encode(b)) = b /\ hex_to_genome(genome_to_hex(b)) = b
=============================================================================
