---------------------------- MODULE BufferStrings ---------------------------
(***************************************************************************)
(* Strings and bytes in node:buffer: the encodings (utf8ToBytes,           *)
(* utf8Slice, utf16le, latin1, ascii, hex, base64) and the operations that *)
(* use them: byteLength, write, fromString and toString                    *)
(* (node/buffer.js, __winterjs_internal/base64-js.js).                     *)
(*                                                                         *)
(* A string is the sequence of its UTF-16 code units, bytes are a          *)
(* sequence; indices passed in count from 0, as in the code.  An encoding  *)
(* stands for all its spellings; unknown ones, which throw, are left out.  *)
(***************************************************************************)
EXTENDS Integers, Filtering

CONSTANTS
    Units,      \* code units that strings are made of
    Octets,     \* bytes that arrays are made of
    Texts,      \* strings that are written into Buffers
    MaxUnits,   \* bound: code units of a string
    MaxOctets,  \* bound: bytes of a Buffer
    MaxConversions  \* bound: calls of Buffer

CodeUnit == {c \in Nat : c < 65536}
Octet == {o \in Nat : o < 256}

ASSUME StringsAssumption ==
    /\ Units \subseteq CodeUnit /\ Octets \subseteq Octet
    /\ Texts \subseteq Seq(Units)
    /\ MaxUnits \in Nat /\ MaxOctets \in Nat /\ MaxConversions \in Nat

VARIABLES
    str,        \* a string the program has built
    buf,        \* the bytes of a Buffer
    conversions \* calls of Buffer made

stringVars == <<str, buf, conversions>>

StringTypeOK ==
    str \in Seq(CodeUnit) /\ buf \in Seq(Octet) /\ conversions \in 0..MaxConversions

StringInit == str = <<>> /\ buf = <<>> /\ conversions = 0

Least(a, b) == IF a < b THEN a ELSE b
Encodings == {"utf8", "ucs2", "latin1", "ascii", "base64", "hex"}

-----------------------------------------------------------------------------
(* UTF-8.                                                                   *)

Lead(c) == c > 55295 /\ c < 56320
Trail(c) == c > 56319 /\ c < 57344
Replacement == <<239, 191, 189>>

(* The bytes of one code point.                                             *)
EncodeUtf8(cp) ==
    IF cp < 128 THEN <<cp>>
    ELSE IF cp < 2048 THEN <<cp \div 64 + 192, (cp % 64) + 128>>
    ELSE IF cp < 65536 THEN <<cp \div 4096 + 224, ((cp \div 64) % 64) + 128, (cp % 64) + 128>>
    ELSE <<cp \div 262144 + 240, ((cp \div 4096) % 64) + 128, ((cp \div 64) % 64) + 128,
           (cp % 64) + 128>>

(* The state of utf8ToBytes's loop: lead is leadSurrogate, 0 for null.      *)
Replace(st) ==
    [st EXCEPT !.units = @ - 3,
               !.bytes = IF st.units - 3 > -1 THEN @ \o Replacement ELSE @]
Emit(st, cp) ==
    LET b == EncodeUtf8(cp)
    IN  IF st.units - Len(b) < 0 THEN [st EXCEPT !.lead = 0, !.stop = TRUE]
        ELSE [st EXCEPT !.lead = 0, !.units = @ - Len(b), !.bytes = @ \o b]

(* Mutant of Utf8Unit: a lead before another character is forgotten.        *)
Utf8UnitForgets(st, c, final) ==
    IF st.stop THEN st
    ELSE CASE Lead(c) /\ st.lead = 0 -> IF final THEN Replace(st) ELSE [st EXCEPT !.lead = c]
           [] Trail(c) /\ st.lead = 0 -> Replace(st)
           [] Lead(c) /\ st.lead # 0 -> [Replace(st) EXCEPT !.lead = c]
           [] Trail(c) /\ st.lead # 0 ->
                 Emit(st, (st.lead - 55296) * 1024 + (c - 56320) + 65536)
           [] OTHER -> Emit(st, c)

(* One turn of the loop on the code unit c.                                 *)
Utf8Unit(st, c, final) ==
    IF st.stop THEN st
    ELSE CASE Lead(c) /\ st.lead = 0 -> IF final THEN Replace(st) ELSE [st EXCEPT !.lead = c]
           [] Trail(c) /\ st.lead = 0 -> Replace(st)
           [] Lead(c) /\ st.lead # 0 -> [Replace(st) EXCEPT !.lead = c]
           [] Trail(c) /\ st.lead # 0 ->
                 Emit(st, (st.lead - 55296) * 1024 + (c - 56320) + 65536)
           [] OTHER -> Emit(IF st.lead # 0 THEN Replace(st) ELSE st, c)

(* units is what there is room for; 0 means no limit: no code unit takes    *)
(* more than three bytes.                                                   *)
Utf8ToBytes(s, units) ==
    LET first == [bytes |-> <<>>, lead |-> 0, stop |-> FALSE,
                  units |-> IF units = 0 THEN 3 * Len(s) ELSE units]
        after[i \in 0..Len(s)] ==
            IF i = 0 THEN first ELSE Utf8Unit(after[i - 1], s[i], i = Len(s))
    IN  after[Len(s)].bytes

(* The code point of the sequence of n bytes at i, or -1.                   *)
CodePoint(b, i, n) ==
    LET Cont(j) == b[i + j] \div 64 = 2
        Low(j) == b[i + j] % 64
        cp == CASE n = 1 -> b[i]
                [] n = 2 -> (b[i] % 32) * 64 + Low(1)
                [] n = 3 -> (b[i] % 16) * 4096 + Low(1) * 64 + Low(2)
                [] n = 4 -> (b[i] % 16) * 262144 + Low(1) * 4096 + Low(2) * 64 + Low(3)
        valid == CASE n = 1 -> cp < 128
                   [] n = 2 -> cp > 127
                   [] n = 3 -> cp > 2047 /\ ~Lead(cp) /\ ~Trail(cp)
                   [] n = 4 -> cp > 65535 /\ cp < 1114112
    IN  IF (\A j \in 1..(n - 1) : Cont(j)) /\ valid THEN cp ELSE -1

BytesPerSequence(first) ==
    IF first > 239 THEN 4 ELSE IF first > 223 THEN 3 ELSE IF first > 191 THEN 2 ELSE 1

(* fromCharCode of a code point: above U+FFFF it takes two code units.      *)
CharCodes(cp) ==
    IF cp > 65535 THEN <<(cp - 65536) \div 1024 + 55296, ((cp - 65536) % 1024) + 56320>>
    ELSE <<cp>>

(* utf8Slice of all of b: what is not a character becomes U+FFFD, one byte  *)
(* at a time.                                                               *)
Utf8Slice(b) ==
    LET rest[i \in 1..(Len(b) + 1)] ==
          IF i > Len(b) THEN <<>>
          ELSE LET n == BytesPerSequence(b[i])
                   cp == IF i + n - 1 <= Len(b) THEN CodePoint(b, i, n) ELSE -1
               IN  IF cp = -1 THEN <<65533>> \o rest[i + 1] ELSE CharCodes(cp) \o rest[i + n]
    IN  rest[1]

-----------------------------------------------------------------------------
(* UTF-16, latin1, ascii and hex.                                           *)

Utf16leToBytes(s, units) ==
    LET n == Least(Len(s), units \div 2)
    IN  [i \in 1..(2 * n) |->
            IF i % 2 = 1 THEN s[(i + 1) \div 2] % 256 ELSE s[i \div 2] \div 256]
Utf16leSlice(b) == [i \in 1..(Len(b) \div 2) |-> b[2 * i - 1] + b[2 * i] * 256]

AsciiToBytes(s) == [i \in 1..Len(s) |-> s[i] % 256]
AsciiSlice(b) == [i \in 1..Len(b) |-> b[i] % 128]
Latin1Slice(b) == b

(* hexCharValueTable and hexSliceLookupTable.                               *)
HexDigit(c) ==
    CASE c \in 48..57  -> c - 48
      [] c \in 97..102 -> c - 87
      [] c \in 65..70  -> c - 55
      [] OTHER         -> -1
HexChar(d) == IF d < 10 THEN d + 48 ELSE d + 87
HexSlice(b) ==
    [i \in 1..(2 * Len(b)) |-> IF i % 2 = 1 THEN HexChar(b[(i + 1) \div 2] \div 16)
                                           ELSE HexChar(b[i \div 2] % 16)]

(* The bytes that hexWrite writes: up to the first pair that is not hex.    *)
HexToBytes(s) ==
    LET bad == {i \in 1..(Len(s) \div 2) : HexDigit(s[2 * i - 1]) < 0 \/ HexDigit(s[2 * i]) < 0}
        n == IF bad = {} THEN Len(s) \div 2
             ELSE (CHOOSE i \in bad : \A j \in bad : i <= j) - 1
    IN  [i \in 1..n |-> HexDigit(s[2 * i - 1]) * 16 + HexDigit(s[2 * i])]

-----------------------------------------------------------------------------
(* Base64.                                                                  *)

Pad == 61        \* `='

(* lookup and revLookup; -1 for what is in neither.                         *)
Lookup(d) ==
    CASE d \in 0..25  -> d + 65
      [] d \in 26..51 -> d + 71
      [] d \in 52..61 -> d - 4
      [] d = 62 -> 43
      [] d = 63 -> 47
RevLookup(c) ==
    CASE c \in 65..90    -> c - 65
      [] c \in 97..122   -> c - 71
      [] c \in 48..57    -> c + 4
      [] c \in {43, 45}  -> 62
      [] c \in {47, 95}  -> 63
      [] OTHER           -> -1

Before(s, c) ==
    LET here == {i \in 1..Len(s) : s[i] = c}
    IN  IF here = {} THEN s
        ELSE SubSeq(s, 1, (CHOOSE i \in here : \A j \in here : i <= j) - 1)

(* What INVALID_BASE64_RE lets through: the characters of both alphabets.   *)
Alphabet == 65..90 \cup 97..122 \cup 48..57 \cup {43, 45, 47, 95}
Base64Digits(s) == Filter(Before(s, Pad), Alphabet)

(* Mutant of Base64clean: an incomplete last group is cut off.              *)
Base64cleanCuts(s) ==
    LET kept == Base64Digits(s)
    IN  SubSeq(kept, 1, Len(kept) - (Len(kept) % 4))

(* Everything from the first `=' on and all invalid characters are dropped, *)
(* and the padding is put back.                                             *)
Base64clean(s) ==
    LET kept == Base64Digits(s)
    IN  IF Len(kept) < 2 THEN <<>>
        ELSE kept \o [i \in 1..((4 - (Len(kept) % 4)) % 4) |-> Pad]

(* Groups of k elements each, one behind the other.                         *)
Joined(groups, k) ==
    [i \in 1..(k * Len(groups)) |-> groups[(i - 1) \div k + 1][((i - 1) % k) + 1]]

(* toByteArray, of a string whose length is a multiple of 4: its loop makes *)
(* three bytes of four characters, and what follows it the last bytes.      *)
GroupBytes(s, g) ==
    LET R(j) == RevLookup(s[4 * (g - 1) + j])
        tmp == R(1) * 262144 + R(2) * 4096 + R(3) * 64 + R(4)
    IN  <<(tmp \div 65536) % 256, (tmp \div 256) % 256, tmp % 256>>

LastBytes(s, groups, placeHolders) ==
    LET R(j) == RevLookup(s[4 * groups + j])
        tmp == R(1) * 1024 + R(2) * 16 + R(3) \div 4
    IN  CASE placeHolders = 2 -> <<(R(1) * 4 + R(2) \div 16) % 256>>
          [] placeHolders = 1 -> <<(tmp \div 256) % 256, tmp % 256>>
          [] OTHER -> <<>>

ToByteArray(s) ==
    LET validLen == Len(Before(s, Pad))
        placeHolders == IF validLen = Len(s) THEN 0 ELSE 4 - (validLen % 4)
        len == IF placeHolders > 0 THEN validLen - 4 ELSE validLen
        groups == IF len <= 0 THEN 0 ELSE (len + 3) \div 4
    IN  Joined([g \in 1..groups |-> GroupBytes(s, g)], 3) \o LastBytes(s, groups, placeHolders)

TripletToBase64(num) ==
    <<Lookup(num \div 262144), Lookup((num \div 4096) % 64), Lookup((num \div 64) % 64),
      Lookup(num % 64)>>

(* encodeChunk, on the g-th three bytes.                                    *)
EncodeGroup(b, g) == TripletToBase64(b[3 * g - 2] * 65536 + b[3 * g - 1] * 256 + b[3 * g])

(* Mutant of EncodeLast: the byte left over is shifted the wrong way.       *)
EncodeLastShifted(b) ==
    LET len == Len(b)
        tmp == b[len - 1] * 256 + b[len]
    IN  CASE len % 3 = 1 -> <<Lookup(b[len] \div 4), Lookup(b[len] % 64), Pad, Pad>>
          [] len % 3 = 2 -> <<Lookup(tmp \div 1024), Lookup((tmp \div 16) % 64),
                              Lookup(tmp % 64), Pad>>
          [] OTHER -> <<>>

(* What fromByteArray makes of the bytes left over.                         *)
EncodeLast(b) ==
    LET len == Len(b)
        tmp == b[len - 1] * 256 + b[len]
    IN  CASE len % 3 = 1 -> <<Lookup(b[len] \div 4), Lookup((b[len] * 16) % 64), Pad, Pad>>
          [] len % 3 = 2 -> <<Lookup(tmp \div 1024), Lookup((tmp \div 16) % 64),
                              Lookup((tmp * 4) % 64), Pad>>
          [] OTHER -> <<>>

(* fromByteArray: its chunks of 16383 bytes are joined without a seam.      *)
FromByteArray(b) == Joined([g \in 1..(Len(b) \div 3) |-> EncodeGroup(b, g)], 4) \o EncodeLast(b)

Base64ToBytes(s) == ToByteArray(Base64clean(s))

-----------------------------------------------------------------------------
(* The operations of Buffer.                                                *)

ByteLength(s, encoding) ==
    IF s = <<>> THEN 0
    ELSE CASE encoding \in {"ascii", "latin1"} -> Len(s)
           [] encoding = "utf8"   -> Len(Utf8ToBytes(s, 0))
           [] encoding = "ucs2"   -> 2 * Len(s)
           [] encoding = "hex"    -> Len(s) \div 2
           [] encoding = "base64" -> Len(Base64ToBytes(s))

(* The bytes utf8Write and its like make for a Buffer with that much room.  *)
Encode(s, encoding, room) ==
    CASE encoding \in {"ascii", "latin1"} -> AsciiToBytes(s)
      [] encoding = "utf8"   -> Utf8ToBytes(s, room)
      [] encoding = "ucs2"   -> Utf16leToBytes(s, room)
      [] encoding = "hex"    -> HexToBytes(s)
      [] encoding = "base64" -> Base64ToBytes(s)

(* write's check of the bounds; length was clamped to what remains.         *)
CanWrite(b, s, offset, length) ==
    /\ offset <= Len(b)
    /\ s = <<>> \/ length >= 0

(* How many bytes write writes, its result: blitBuffer stops at the end of  *)
(* source, target or length; hexWrite takes a length of 0 for none.         *)
WrittenCount(b, s, offset, length, encoding) ==
    LET remaining == Len(b) - offset
        src == Encode(s, encoding, remaining)
        limit == IF encoding = "hex" /\ length = 0 THEN remaining ELSE Least(length, remaining)
    IN  Least(limit, Len(src))

(* Mutant of WriteString: utf8ToBytes is not told how much room there is.   *)
WriteCut(b, s, offset, length, encoding) ==
    LET src == Encode(s, encoding, IF encoding = "utf8" THEN 0 ELSE Len(b) - offset)
        n == Least(Least(length, Len(b) - offset), Len(src))
    IN  [i \in 1..Len(b) |-> IF i - offset \in 1..n THEN src[i - offset] ELSE b[i]]

WriteString(b, s, offset, length, encoding) ==
    LET src == Encode(s, encoding, Len(b) - offset)
        n == WrittenCount(b, s, offset, length, encoding)
    IN  [i \in 1..Len(b) |-> IF i - offset \in 1..n THEN src[i - offset] ELSE b[i]]

(* fromString: a Buffer of byteLength bytes, cut to what write filled.      *)
FromString(s, encoding) ==
    LET length == ByteLength(s, encoding)
        fresh == [i \in 1..length |-> 0]
    IN  SubSeq(WriteString(fresh, s, 0, length, encoding), 1,
               WrittenCount(fresh, s, 0, length, encoding))

Decode(b, encoding) ==
    CASE encoding = "utf8"   -> Utf8Slice(b)
      [] encoding = "ucs2"   -> Utf16leSlice(b)
      [] encoding = "ascii"  -> AsciiSlice(b)
      [] encoding = "latin1" -> Latin1Slice(b)
      [] encoding = "hex"    -> HexSlice(b)
      [] encoding = "base64" -> FromByteArray(b)

(* toString and slowToString: the range is clamped.                         *)
ToStringOf(b, encoding, start, end) ==
    LET s == IF start < 0 THEN 0 ELSE start
        e == Least(end, Len(b))
    IN  IF s > Len(b) \/ e <= s THEN <<>> ELSE Decode(SubSeq(b, s + 1, e), encoding)

-----------------------------------------------------------------------------
(* A program that builds a string or bytes, converts them and writes.       *)

Convert == conversions < MaxConversions /\ conversions' = conversions + 1

AppendUnit(c) ==
    /\ buf = <<>> /\ Len(str) < MaxUnits
    /\ conversions = 0 /\ str' = Append(str, c) /\ UNCHANGED <<buf, conversions>>

AppendOctet(o) ==
    /\ str = <<>> /\ Len(buf) < MaxOctets
    /\ conversions = 0 /\ buf' = Append(buf, o) /\ UNCHANGED <<str, conversions>>

FromText(encoding) ==
    /\ Convert /\ str # <<>>
    /\ Len(FromString(str, encoding)) <= MaxOctets
    /\ buf' = FromString(str, encoding)
    /\ str' = <<>>

WriteText(s, offset, length, encoding) ==
    /\ Convert /\ str = <<>> /\ CanWrite(buf, s, offset, length)
    /\ buf' = WriteString(buf, s, offset, length, encoding)
    /\ UNCHANGED str

DecodeToString(encoding, start, end) ==
    /\ Convert /\ buf # <<>>
    /\ Len(ToStringOf(buf, encoding, start, end)) <= MaxUnits
    /\ str' = ToStringOf(buf, encoding, start, end)
    /\ buf' = <<>>

StringNext ==
    \/ \E c \in Units : AppendUnit(c)
    \/ \E o \in Octets : AppendOctet(o)
    \/ \E encoding \in Encodings :
          \/ FromText(encoding)
          \/ \E s \in Texts, o \in 0..MaxOctets : WriteText(s, o, MaxOctets - o, encoding)
          \/ \E s, e \in (-1)..MaxOctets : DecodeToString(encoding, s, e)

StringSpec == StringInit /\ [][StringNext]_stringVars

-----------------------------------------------------------------------------
(* Properties.                                                              *)

(* hex, base64, latin1 and ucs2 keep every byte: what toString makes of a   *)
(* Buffer, Buffer.from turns into the same bytes (ucs2 drops an odd one).   *)
BytesSurviveText ==
    \A encoding \in {"hex", "base64", "latin1", "ucs2"} :
        LET s == ToStringOf(buf, encoding, 0, Len(buf))
        IN  FromString(s, encoding) =
              IF encoding = "ucs2" THEN SubSeq(buf, 1, 2 * (Len(buf) \div 2)) ELSE buf

(* A surrogate without its partner.                                         *)
Lone(s, i) ==
    \/ Lead(s[i]) /\ (i = Len(s) \/ ~Trail(s[i + 1]))
    \/ Trail(s[i]) /\ (i = 1 \/ ~Lead(s[i - 1]))
WellFormed(s) == [i \in 1..Len(s) |-> IF Lone(s, i) THEN 65533 ELSE s[i]]

(* utf8 keeps every character, and surrogates without a partner become      *)
(* U+FFFD wherever they are, except that of two leads at the end of a       *)
(* string the second one is lost.                                           *)
Utf8RoundTrip ==
    LET n == Len(str)
        lost == n > 1 /\ Lead(str[n]) /\ Lead(str[n - 1])
    IN  ToStringOf(FromString(str, "utf8"), "utf8", 0, 4 * n) =
            WellFormed(IF lost THEN SubSeq(str, 1, n - 1) ELSE str)

(* write without a length never leaves part of a character at the end of    *)
(* the Buffer: what it writes are the bytes of the first characters, a      *)
(* surrogate without its partner counting as U+FFFD, and what it did not    *)
(* write stays.                                                             *)
WritesWholeCharacters ==
    \A s \in Texts, o \in 0..Len(buf) :
        LET room == Len(buf) - o
            n == WrittenCount(buf, s, o, room, "utf8")
            b == WriteString(buf, s, o, room, "utf8")
            chars == WellFormed(s)
            ends == {k \in 0..Len(s) : k = 0 \/ ~Lead(chars[k])}
            Wholes == {Utf8ToBytes(SubSeq(chars, 1, k), 0) : k \in ends}
        IN  /\ SubSeq(b, o + 1, o + n) \in Wholes
            /\ n <= room
            /\ \A i \in 1..Len(b) : i <= o \/ i > o + n => b[i] = buf[i]

(* The bits of base64 text: the characters before `=' that are in either    *)
(* alphabet, six bits each, cut into bytes; a single one is nothing.        *)
Base64Bit(kept, j) ==
    (RevLookup(kept[j \div 6 + 1]) \div <<32, 16, 8, 4, 2, 1>>[(j % 6) + 1]) % 2
Base64Bits(s) ==
    LET kept == Base64Digits(s)
        Bit(k, m) == Base64Bit(kept, 8 * (k - 1) + m)
    IN  [k \in 1..((6 * Len(kept)) \div 8) |->
            128 * Bit(k, 0) + 64 * Bit(k, 1) + 32 * Bit(k, 2) + 16 * Bit(k, 3)
            + 8 * Bit(k, 4) + 4 * Bit(k, 5) + 2 * Bit(k, 6) + Bit(k, 7)]

(* Decoding base64 is exact for padded, unpadded, URL-safe and dirty text.  *)
Base64IsBits == FromString(str, "base64") = Base64Bits(str)

=============================================================================
