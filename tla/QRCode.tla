-------------------------------- MODULE QRCode --------------------------------
(***************************************************************************)
(* The QR code of a connection link (core/qrcode/qrcode.go), and a reader  *)
(* written from the standard's side (ISO/IEC 18004): what it makes of the  *)
(* picture must be the text.  The encoder knows byte mode, error level     *)
(* Medium, versions 1 to 5 and mask 0.                                     *)
(*                                                                         *)
(* A byte, and any other string of bits, is the set of its one-bits, which *)
(* makes exclusive or the symmetric difference.  A matrix is the set of    *)
(* its dark modules <<row, column>>.                                       *)
(***************************************************************************)
EXTENDS Integers, SequencesExt

CONSTANT Text   \* the texts that are encoded, sequences of bytes

Byte == SUBSET (0..7)

ASSUME QRAssumption == \A text \in Text : \A i \in 1..Len(text) : text[i] \in Byte

VARIABLES text, code   \* what is to be encoded, and its matrix: [Size, Modules]

qrVars == <<text, code>>

NotYet == [Size |-> -1, Modules |-> {}]
Error == [Size |-> 0, Modules |-> {}]

-------------------------------------------------------------------------------
(* Arithmetic in GF(256) *)

Xor(a, b) == (a \ b) \union (b \ a)

Bits(n) == {k \in 0..15 : (n \div 2^k) % 2 = 1}

(* a * x modulo x^8 + x^4 + x^3 + x^2 + 1 *)
Doubled(a) ==
  LET s == {k + 1 : k \in a} IN IF 8 \in s THEN Xor(s \ {8}, Bits(29)) ELSE s

(* gfMulRaw: the multiples a * x^k for the bits k of b *)
gfMulRaw(a, b) ==
  LET term[k \in 0..7] == IF k = 0 THEN a ELSE Doubled(term[k - 1])
      sum[k \in 0..8] ==
        IF k = 0 THEN {} ELSE IF k - 1 \in b THEN Xor(sum[k - 1], term[k - 1]) ELSE sum[k - 1]
  IN  sum[8]

(* x^n; the code doubles n times, squares take fewer steps here.           *)
Power[n \in 0..254] ==
  IF n = 0 THEN {0}
  ELSE LET root == Power[n \div 2]
           square == gfMulRaw(root, root)
       IN  IF n % 2 = 0 THEN square ELSE gfMulRaw(square, {1})

(* The 255 powers twice, which saves the modulus *)
gfExp == [i \in 0..508 |-> Power[i % 255]]

gfLog == [a \in Byte \ {{}} |-> CHOOSE i \in 0..254 : gfExp[i] = a]

gfMul(a, b) == IF a = {} \/ b = {} THEN {} ELSE gfExp[gfLog[a] + gfLog[b]]

(* p times x + a *)
MulLinear(p, a) ==
  [i \in 1..Len(p) + 1 |->
     Xor(IF i <= Len(p) THEN p[i] ELSE {}, IF i > 1 THEN gfMul(p[i - 1], a) ELSE {})]

Generator[n \in 0..30] ==
  IF n = 0 THEN << {0} >> ELSE MulLinear(Generator[n - 1], gfExp[n - 1])

(* The long division of calculateReedSolomon.  Each step makes the leading *)
(* coefficient zero, which the code leaves in place and this drops.        *)
calculateReedSolomon(data, eccCount) ==
  LET gen == Generator[eccCount]
      rest[n \in 0..Len(data)] ==
        IF n = 0 THEN data \o [i \in 1..eccCount |-> {}]
        ELSE LET res == rest[n - 1]
             IN  Tail([i \in DOMAIN res |->
                         IF i <= Len(gen) THEN Xor(res[i], gfMul(gen[i], res[1])) ELSE res[i]])
  IN  rest[Len(data)]

-------------------------------------------------------------------------------
(* The codewords *)

mediumByteCapacities == <<14, 26, 42, 62, 84>>

totalDataCodewords == <<16, 28, 44, 64, 86>>

getEccInfo == << [ecc |-> 10, blocks |-> 1], [ecc |-> 16, blocks |-> 1],
                 [ecc |-> 26, blocks |-> 1], [ecc |-> 18, blocks |-> 2],
                 [ecc |-> 24, blocks |-> 2] >>

(* The versions that have room for n bytes; the first is taken. *)
Versions(n) == {v \in 1..5 : n <= mediumByteCapacities[v]}

pickVersion(n) == CHOOSE v \in Versions(n) : \A w \in Versions(n) : v <= w

(* The bits of the bytes, each from the highest to the lowest *)
bytesToBits(bytes) ==
  [n \in 1..8 * Len(bytes) |-> 7 - ((n - 1) % 8) \in bytes[(n - 1) \div 8 + 1]]

bitsToBytes(bits) ==
  [n \in 1..Len(bits) \div 8 |-> {k \in 0..7 : bits[8 * n - k]}]

(* The mode 0100, the length, the data and the terminator: whole bytes *)
buildBitStream(data) ==
  <<FALSE, TRUE, FALSE, FALSE>> \o bytesToBits(<<Bits(Len(data))>> \o data)
    \o <<FALSE, FALSE, FALSE, FALSE>>

(* The pad bytes begin with the second. *)
padDataCodewords(codewords, total) ==
  codewords \o [i \in 1..total - Len(codewords) |-> Bits(IF i % 2 = 1 THEN 236 ELSE 17)]

splitDataBlocks(data, numBlocks) ==
  LET size == Len(data) \div numBlocks
  IN  [b \in 1..numBlocks |-> SubSeq(data, (b - 1) * size + 1, b * size)]

(* The blocks one after the other *)
interleave_Sequential(blocks) == FlattenSeq(blocks)

(* One codeword of each block in turn; all blocks are of one length. *)
interleave(blocks) ==
  LET n == Len(blocks)
  IN  [i \in 1..n * Len(blocks[1]) |-> blocks[((i - 1) % n) + 1][(i - 1) \div n + 1]]

FinalBits(data, ver) ==
  LET info == getEccInfo[ver]
      blocks == splitDataBlocks(
                  padDataCodewords(bitsToBytes(buildBitStream(data)), totalDataCodewords[ver]),
                  info.blocks)
      eccs == [b \in 1..info.blocks |-> calculateReedSolomon(blocks[b], info.ecc)]
  IN  bytesToBits(interleave(blocks) \o interleave(eccs))

-------------------------------------------------------------------------------
(* The matrix *)

Square(size) == (0..size - 1) \X (0..size - 1)

Shifted(S, r, c) == {<<m[1] + r, m[2] + c>> : m \in S}

FinderPattern ==
  {m \in Square(7) : m[1] \in {0, 6} \/ m[2] \in {0, 6} \/ (m[1] \in 2..4 /\ m[2] \in 2..4)}

AlignmentPattern ==
  {m \in Square(5) : m[1] \in {0, 4} \/ m[2] \in {0, 4} \/ m = <<2, 2>>}

Corners(size) == {<<0, 0>>, <<size - 7, 0>>, <<0, size - 7>>}

(* The centres isFinderOverlap leaves of alignmentPatternPositions *)
Alignments(size) == IF size = 21 THEN {} ELSE {<<size - 7, size - 7>>}

Timing(size) == {6} \X (8..size - 9) \union (8..size - 9) \X {6}

(* The modules of the finders with their separators, the timing, the       *)
(* alignment and the two copies of the format information                  *)
reserved(size) ==
  Timing(size)
    \union (Square(size) \intersect
             UNION {Shifted(Square(9), m[1] - 1, m[2] - 1) : m \in Corners(size)})
    \union UNION {Shifted(Square(5), m[1] - 2, m[2] - 2) : m \in Alignments(size)}
    \union ({8} \X (0..8 \union size - 8..size - 1))
    \union ((0..8 \union size - 8..size - 1) \X {8})

FunctionPatterns(size) ==
  {m \in Timing(size) : (m[1] + m[2]) % 2 = 0}
    \union UNION {Shifted(FinderPattern, m[1], m[2]) : m \in Corners(size)}
    \union UNION {Shifted(AlignmentPattern, m[1] - 2, m[2] - 2) : m \in Alignments(size)}

(* The loops of placeDataBits as one: the n-th module they look at, in     *)
(* column pairs from the right, upwards and downwards, the timing column   *)
(* left out                                                                *)
Visited(size, n) ==
  LET pair == n \div (2 * size)
      down == (n % (2 * size)) \div 2
      col == size - 1 - 2 * pair
  IN  <<IF pair % 2 = 0 THEN size - 1 - down ELSE down,
        (IF col <= 6 THEN col - 1 ELSE col) - (n % 2)>>

DataModules(size) ==
  SelectSeq([n \in 1..size * (size - 1) |-> Visited(size, n - 1)],
            LAMBDA m : m \notin reserved(size))

placeDataBits(size, bits) ==
  LET order == DataModules(size)
  IN  {order[i] : i \in {j \in 1..Len(order) : j <= Len(bits) /\ bits[j]}}

(* Mask 0 *)
applyMask(size, dark) ==
  Xor(dark, {m \in Square(size) \ reserved(size) : (m[1] + m[2]) % 2 = 0})

(* The remainder of the format's ten-bit code *)
Remainder[n \in 0..10, data \in SUBSET (0..4)] ==
  IF n = 0 THEN data
  ELSE LET r == Remainder[n - 1, data]
           s == {k + 1 : k \in r}
       IN  IF 9 \in r THEN Xor(s, Bits(1335)) ELSE s

(* The format's 15 bits for a level and a mask, given as its five *)
FormatBits(data) ==
  Xor({k + 10 : k \in data} \union Remainder[10, data], Bits(21522))

(* The dark modules of both copies, and the module that is always dark *)
writeFormatInfo(size, data) ==
  LET Place(i) ==
        {IF i <= 5 THEN <<i, 8>> ELSE IF i = 6 THEN <<7, 8>> ELSE IF i = 7 THEN <<8, 8>>
           ELSE IF i = 8 THEN <<8, 7>> ELSE <<8, 14 - i>>,
         IF i < 8 THEN <<8, size - 1 - i>> ELSE <<size - 15 + i, 8>>}
  IN  UNION {Place(i) : i \in FormatBits(data)} \union {<<size - 8, 8>>}

(* Level Medium is 00, and the mask 000. *)
Encode(t) ==
  IF Versions(Len(t)) = {} THEN Error
  ELSE LET ver == pickVersion(Len(t))
           size == 17 + 4 * ver
       IN  [Size |-> size,
            Modules |-> FunctionPatterns(size) \union writeFormatInfo(size, {})
                          \union applyMask(size, placeDataBits(size, FinalBits(t, ver)))]

(* Two rows of modules in a line of half blocks, with a border of two; the *)
(* number of rows is odd, and the last line has only an upper half.        *)
ToSmallTerminalString(qr) ==
  LET totalSize == qr.Size + 4
      IsDark(x, y) == <<y - 2, x - 2>> \in qr.Modules
      Glyph(x, y) ==
        LET top == IsDark(x, y)
            bottom == y + 1 < totalSize /\ IsDark(x, y + 1)
        IN  IF top THEN (IF bottom THEN "full" ELSE "upper")
                   ELSE (IF bottom THEN "lower" ELSE "blank")
  IN  [line \in 1..(totalSize + 1) \div 2 |->
         [x \in 1..totalSize |-> Glyph(x - 1, 2 * (line - 1))]]

(* The dark squares of the image, whose quiet zone is four modules wide *)
ToSVG(qr) == [side |-> qr.Size + 8, dark |-> Shifted(qr.Modules, 4, 4)]

QRInit == text \in Text /\ code = NotYet

EncodeText == code = NotYet /\ code' = Encode(text) /\ UNCHANGED text

QRSpec == QRInit /\ [][EncodeText]_qrVars

-------------------------------------------------------------------------------
(* A reader of QR codes, written from the standard *)

(* The polynomial p, its highest coefficient first, at the power j of x:   *)
(* a bit of the sum is the parity of the terms that have it.               *)
Value(p, j) ==
  LET term == [i \in DOMAIN p |-> gfMulRaw(p[i], Power[(j * (Len(p) - i)) % 255])]
  IN  {k \in 0..7 : Cardinality({i \in DOMAIN p : k \in term[i]}) % 2 = 1}

Distance(m, r, c) ==
  LET Abs(d) == IF d < 0 THEN -d ELSE d
      dr == Abs(m[1] - r)  dc == Abs(m[2] - c)
  IN  IF dr > dc THEN dr ELSE dc

FinderCentres(size) == {<<3, 3>>, <<3, size - 4>>, <<size - 4, 3>>}

(* A finder is rings around its centre, an alignment pattern smaller ones. *)
LocatedIn(qr) ==
  /\ \A f \in FinderCentres(qr.Size) : \A m \in Square(qr.Size) :
       LET d == Distance(m, f[1], f[2])
       IN  d <= 4 => (m \in qr.Modules <=> d \notin {2, 4})
  /\ \A i \in 8..qr.Size - 9 : <<6, i>> \in qr.Modules <=> i % 2 = 0
  /\ \A i \in 8..qr.Size - 9 : <<i, 6>> \in qr.Modules <=> i % 2 = 0
  /\ qr.Size > 21 => \A m \in Square(qr.Size) :
       LET d == Distance(m, qr.Size - 7, qr.Size - 7)
       IN  d <= 2 => (m \in qr.Modules <=> d # 1)

(* Both copies of the format say level M and mask 0, whose code is 0.      *)
FormatIn(qr) ==
  LET first == <<0, 1, 2, 3, 4, 5, 7, 8>>
      pattern == <<FALSE, TRUE, FALSE, FALSE, TRUE, FALSE, FALSE, FALSE,
                   FALSE, FALSE, TRUE, FALSE, TRUE, FALSE, TRUE>>
  IN  \A i \in 1..15 :
        /\ (IF i <= 8 THEN <<first[i], 8>> ELSE <<8, first[16 - i]>>) \in qr.Modules <=> pattern[i]
        /\ (IF i <= 8 THEN <<8, qr.Size - i>> ELSE <<qr.Size - 16 + i, 8>>) \in qr.Modules
             <=> pattern[i]

IsFunctionModule(size, m) ==
  \/ m[1] = 6 \/ m[2] = 6
  \/ m[1] <= 8 /\ (m[2] <= 8 \/ m[2] >= size - 8)
  \/ m[1] >= size - 8 /\ m[2] <= 8
  \/ size > 21 /\ Distance(m, size - 7, size - 7) <= 2

(* One pair of columns with right column c, read up or down *)
ColumnPair(size, c, up) ==
  FlattenSeq([i \in 1..size |->
                LET r == IF up THEN size - i ELSE i - 1 IN <<<<r, c>>, <<r, c - 1>>>>])

Read(qr) ==
  LET right == [k \in 1..(qr.Size - 1) \div 2 |->
                  IF qr.Size + 1 - 2 * k > 6 THEN qr.Size + 1 - 2 * k ELSE qr.Size - 2 * k]
      path == SelectSeq(FlattenSeq([k \in DOMAIN right |->
                                      ColumnPair(qr.Size, right[k], k % 2 = 1)]),
                        LAMBDA m : ~IsFunctionModule(qr.Size, m))
  IN  [i \in DOMAIN path |-> (path[i] \in qr.Modules) # ((path[i][1] + path[i][2]) % 2 = 0)]

(* Level M of versions 1 to 5: data and error correction of each block *)
BlockSizes == << <<1, 16, 10>>, <<1, 28, 16>>, <<1, 44, 26>>, <<2, 32, 18>>, <<2, 43, 24>> >>

(* Every block is a codeword, and the bytes of byte mode are the text.     *)
Reads(qr, t) ==
  LET sizes == BlockSizes[(qr.Size - 17) \div 4]
      n == sizes[1]
      words == bitsToBytes(Read(qr))
      Block(b) == [i \in 1..sizes[2] + sizes[3] |-> words[(i - 1) * n + b]]
      data == FlattenSeq([b \in 1..n |-> SubSeq(Block(b), 1, sizes[2])])
      bits == bytesToBits(data)
  IN  /\ \A b \in 1..n, j \in 0..sizes[3] - 1 : Value(Block(b), j) = {}
      /\ SubSeq(bits, 1, 4) = <<FALSE, TRUE, FALSE, FALSE>>
      /\ bitsToBytes(SubSeq(bits, 5, 12)) = <<Bits(Len(t))>>
      /\ bitsToBytes(SubSeq(bits, 13, 12 + 8 * Len(t))) = t

(* What the eye sees in the terminal: the dark squares, and how far light  *)
(* reaches around them                                                     *)
Seen(lines) ==
  {<<y, x>> \in (0..2 * Len(lines) - 1) \X (0..Len(lines[1]) - 1) :
     lines[y \div 2 + 1][x + 1] \in {"full", IF y % 2 = 0 THEN "upper" ELSE "lower"}}

Shown(qr) ==
  /\ Seen(ToSmallTerminalString(qr)) = Shifted(qr.Modules, 2, 2)
  /\ ToSVG(qr).dark \subseteq (4..ToSVG(qr).side - 5) \X (4..ToSVG(qr).side - 5)

(* A reader that knows the standard and not this encoder finds the code,   *)
(* its format and the text, with error correction that has nothing to      *)
(* correct, and what is shown is the code; only a text of more than 84     *)
(* bytes has none (qrcode.go 55-184).                                      *)
Readable ==
  /\ code = Error => Len(text) > 84
  /\ code \notin {NotYet, Error} =>
       LocatedIn(code) /\ FormatIn(code) /\ Reads(code, text) /\ Shown(code)

===============================================================================
