------------------------------- MODULE Buffer -------------------------------
(***************************************************************************)
(* Buffer of node:buffer as memory: ArrayBuffers, the Buffer objects that  *)
(* are windows on them, and every operation that reads or writes bytes     *)
(* through a window (src/builtins/internal_js_modules/node/buffer.js).     *)
(* What the operations do with strings is in BufferStrings.                *)
(*                                                                         *)
(* A byte has Base values (256 in the code; an instance takes less, so     *)
(* that eight bytes can be gone through), byte arrays are functions from   *)
(* 0, and a width is a number of bytes.  Offsets and values are integers:  *)
(* what NaN, fractions and other types are coerced to is left out.         *)
(***************************************************************************)
EXTENDS Integers, FiniteSets, SequencesExt

CONSTANTS
    Base,       \* number of values of a byte
    Sizes,      \* sizes passed to alloc
    Items,      \* elements of the arrays passed to Buffer.from
    Offsets,    \* offsets, starts and ends, some of them out of range
    MaxBufs,    \* bound: Buffer objects
    MaxCalls    \* bound: calls

(* The last conjunct is arithmetic, stated because the provers do not know  *)
(* exponentiation.                                                          *)
ASSUME BufferAssumption ==
    /\ Base \in Nat \ {0} /\ Base % 2 = 0
    /\ Sizes \subseteq Nat /\ Items \subseteq Int /\ Offsets \subseteq Int
    /\ MaxBufs \in Nat /\ MaxCalls \in Nat
    /\ Base^0 = 1 /\ \A n \in 0..7 : Base^(n + 1) = Base * Base^n

VARIABLES
    store,      \* the ArrayBuffers
    bufs,       \* the Buffer objects: windows on them
    calls       \* calls made

vars == <<store, bufs, calls>>

Byte == 0..(Base - 1)
KMaxLength == Base^4 \div 2 - 1
Length(a) == Cardinality(DOMAIN a)
Min2(a, b) == IF a < b THEN a ELSE b

(* A Buffer: this.buffer, this.byteOffset and this.length.                  *)
Window(mem, offset, length) == [mem |-> mem, offset |-> offset, length |-> length]

TypeOK ==
    /\ \A m \in DOMAIN store : store[m] \in [0..(Length(store[m]) - 1) -> Byte]
    /\ \A b \in Range(bufs) :
          b.offset >= 0 /\ b.length >= 0 /\ b.offset + b.length <= Length(store[b.mem])
    /\ calls \in 0..MaxCalls

Init == store = <<>> /\ bufs = <<>> /\ calls = 0

(* The bytes seen through b, and memory after writes through b: f maps      *)
(* indices of b to numbers; a typed array keeps them modulo Base and        *)
(* ignores indices that it does not have.                                   *)
View(st, b) == [i \in 0..(b.length - 1) |-> st[b.mem][b.offset + i]]
Bytes(b) == View(store, b)
Poke(st, b, f) ==
    [st EXCEPT ![b.mem] = [i \in DOMAIN @ |->
        IF i - b.offset \in DOMAIN f \cap 0..(b.length - 1)
        THEN f[i - b.offset] % Base ELSE @[i]]]

At(o, bytes) == [i \in o..(o + Len(bytes) - 1) |-> bytes[i - o + 1]]

-----------------------------------------------------------------------------
(* Reading integers from a byte array a.                                    *)

(* `>>> 0' of an offset, and `| 0' of what is put together from 4 bytes.    *)
Uint32(v) == v % Base^4
Int32(v) == IF Uint32(v) >= Base^4 \div 2 THEN Uint32(v) - Base^4 ELSE Uint32(v)

CheckOffset(offset, ext, length) == Uint32(offset) + ext <= length

ReadUIntLE(a, o, n) ==
    LET val[i \in 0..(n - 1)] == IF i = 0 THEN a[o] ELSE val[i - 1] + a[o + i] * Base^i
    IN  val[n - 1]
ReadUIntBE(a, o, n) ==
    LET val[i \in 0..(n - 1)] ==
            IF i = 0 THEN a[o + n - 1] ELSE val[i - 1] + a[o + n - 1 - i] * Base^i
    IN  val[n - 1]

(* The end of readIntLE and readIntBE.                                      *)
Negate(val, n) ==
    IF val >= Base^(n - 1) * (Base \div 2) THEN val - Base^n ELSE val
ReadIntLE(a, o, n) == Negate(ReadUIntLE(a, o, n), n)
ReadIntBE(a, o, n) == Negate(ReadUIntBE(a, o, n), n)

ReadUInt16LE(a, o) == a[o] + a[o + 1] * Base
ReadUInt16BE(a, o) == a[o] * Base + a[o + 1]
ReadUInt32LE(a, o) == a[o] + a[o + 1] * Base + a[o + 2] * Base^2 + a[o + 3] * Base^3
ReadUInt32BE(a, o) == a[o] * Base^3 + a[o + 1] * Base^2 + a[o + 2] * Base + a[o + 3]

ReadInt8(a, o) ==
    IF a[o] < Base \div 2 THEN a[o] ELSE (Base - 1 - a[o] + 1) * (-1)
Signed16(val) == IF val >= Base^2 \div 2 THEN val - Base^2 ELSE val
ReadInt16LE(a, o) == Signed16(a[o] + a[o + 1] * Base)
ReadInt16BE(a, o) == Signed16(a[o + 1] + a[o] * Base)
ReadInt32LE(a, o) == Int32(a[o] + a[o + 1] * Base + a[o + 2] * Base^2 + a[o + 3] * Base^3)
ReadInt32BE(a, o) == Int32(a[o] * Base^3 + a[o + 1] * Base^2 + a[o + 2] * Base + a[o + 3])

ReadBigUInt64LE(a, o) ==
    LET lo == a[o] + a[o + 1] * Base + a[o + 2] * Base^2 + a[o + 3] * Base^3
        hi == a[o + 4] + a[o + 5] * Base + a[o + 6] * Base^2 + a[o + 7] * Base^3
    IN  lo + hi * Base^4
ReadBigUInt64BE(a, o) ==
    LET hi == a[o] * Base^3 + a[o + 1] * Base^2 + a[o + 2] * Base + a[o + 3]
        lo == a[o + 4] * Base^3 + a[o + 5] * Base^2 + a[o + 6] * Base + a[o + 7]
    IN  hi * Base^4 + lo
ReadBigInt64LE(a, o) ==
    LET val == a[o + 4] + a[o + 5] * Base + a[o + 6] * Base^2 + Int32(a[o + 7] * Base^3)
    IN  val * Base^4 + (a[o] + a[o + 1] * Base + a[o + 2] * Base^2 + a[o + 3] * Base^3)
ReadBigInt64BE(a, o) ==
    LET val == Int32(a[o] * Base^3) + a[o + 1] * Base^2 + a[o + 2] * Base + a[o + 3]
    IN  val * Base^4 + (a[o + 4] * Base^3 + a[o + 5] * Base^2 + a[o + 6] * Base + a[o + 7])

-----------------------------------------------------------------------------
(* Writing integers: the assignments each method makes.                     *)

Shift(v, n) == v \div Base^n
Trunc(v, m) == IF v >= 0 THEN v \div m ELSE -((-v) \div m)

WriteUIntLE(v, o, n) == [i \in o..(o + n - 1) |-> Trunc(v, Base^(i - o))]
WriteUIntBE(v, o, n) == [i \in o..(o + n - 1) |-> Trunc(v, Base^(o + n - 1 - i))]

(* Mutant of IntBytes: the borrow of truncated division is always taken.    *)
IntBytesBorrow(v, n) ==
    [i \in 0..(n - 1) |-> IF i > 0 /\ v < 0 THEN (Trunc(v, Base^i) - 1) % Base
                                            ELSE Trunc(v, Base^i) % Base]

(* The loops of writeIntLE and writeIntBE: value / mul is truncated towards *)
(* zero, and `sub' makes up for it once a byte that is not 0 was written.   *)
IntBytes(v, n) ==
    LET byte[i \in 0..(n - 1)] ==
            LET sub == IF v < 0 /\ \E j \in 0..(i - 1) : byte[j] # 0 THEN 1 ELSE 0
            IN  (Trunc(v, Base^i) - sub) % Base
    IN  byte
WriteIntLE(v, o, n) == [i \in o..(o + n - 1) |-> IntBytes(v, n)[i - o]]
WriteIntBE(v, o, n) == [i \in o..(o + n - 1) |-> IntBytes(v, n)[o + n - 1 - i]]

WriteUInt8(v, o) == At(o, <<v>>)
WriteInt8(v, o) == At(o, <<IF v < 0 THEN Base - 1 + v + 1 ELSE v>>)
Write16LE(v, o) == At(o, <<v, Shift(v, 1)>>)
Write16BE(v, o) == At(o, <<Shift(v, 1), v>>)
Write32LE(v, o) == At(o, <<v, Shift(v, 1), Shift(v, 2), Shift(v, 3)>>)
WriteUInt32BE(v, o) == At(o, <<Shift(v, 3), Shift(v, 2), Shift(v, 1), v>>)
WriteInt32BE(v, o) ==
    WriteUInt32BE(IF v < 0 THEN (Base^4 - 1) + v + 1 ELSE v, o)

(* `lo >> 8' and `hi >> 8' take the half as a signed number.                *)
SignedShift(v, n) == Shift(Int32(v), n)

WrtBigUInt64LE(v, o) ==
    LET lo == v % Base^4
        hi == Shift(v, 4) % Base^4
    IN  At(o, <<lo, SignedShift(lo, 1), SignedShift(lo, 2), SignedShift(lo, 3),
                hi, SignedShift(hi, 1), SignedShift(hi, 2), SignedShift(hi, 3)>>)
WrtBigUInt64BE(v, o) ==
    LET lo == v % Base^4
        hi == Shift(v, 4) % Base^4
    IN  At(o, <<SignedShift(hi, 3), SignedShift(hi, 2), SignedShift(hi, 1), hi,
                SignedShift(lo, 3), SignedShift(lo, 2), SignedShift(lo, 1), lo>>)

(* An accessor pair readX/writeX: name, bytes and whether X is signed.      *)
(* LE and BE take a byteLength, 1 to 6 by their documentation; the code     *)
(* does not check it, and what it does with others is left out.             *)
Accessor(name, width, signed) == [name |-> name, width |-> width, signed |-> signed]
Accessors ==
    {Accessor("8", 1, s) : s \in BOOLEAN}
    \cup {Accessor(n, 2, s) : n \in {"16LE", "16BE"}, s \in BOOLEAN}
    \cup {Accessor(n, 4, s) : n \in {"32LE", "32BE"}, s \in BOOLEAN}
    \cup {Accessor(n, 8, s) : n \in {"64LE", "64BE"}, s \in BOOLEAN}
    \cup {Accessor(n, w, s) : n \in {"LE", "BE"}, w \in 1..6, s \in BOOLEAN}
BigEndian(k) == k.name \in {"16BE", "32BE", "64BE", "BE"}

Read(k, a, o) ==
    IF k.signed
    THEN CASE k.name = "8"    -> ReadInt8(a, o)
           [] k.name = "16LE" -> ReadInt16LE(a, o)
           [] k.name = "16BE" -> ReadInt16BE(a, o)
           [] k.name = "32LE" -> ReadInt32LE(a, o)
           [] k.name = "32BE" -> ReadInt32BE(a, o)
           [] k.name = "64LE" -> ReadBigInt64LE(a, o)
           [] k.name = "64BE" -> ReadBigInt64BE(a, o)
           [] k.name = "LE"   -> ReadIntLE(a, o, k.width)
           [] k.name = "BE"   -> ReadIntBE(a, o, k.width)
    ELSE CASE k.name = "8"    -> a[o]
           [] k.name = "16LE" -> ReadUInt16LE(a, o)
           [] k.name = "16BE" -> ReadUInt16BE(a, o)
           [] k.name = "32LE" -> ReadUInt32LE(a, o)
           [] k.name = "32BE" -> ReadUInt32BE(a, o)
           [] k.name = "64LE" -> ReadBigUInt64LE(a, o)
           [] k.name = "64BE" -> ReadBigUInt64BE(a, o)
           [] k.name = "LE"   -> ReadUIntLE(a, o, k.width)
           [] k.name = "BE"   -> ReadUIntBE(a, o, k.width)

Write(k, v, o) ==
    CASE k.name = "8"    -> IF k.signed THEN WriteInt8(v, o) ELSE WriteUInt8(v, o)
      [] k.name = "16LE" -> Write16LE(v, o)
      [] k.name = "16BE" -> Write16BE(v, o)
      [] k.name = "32LE" -> Write32LE(v, o)
      [] k.name = "32BE" -> IF k.signed THEN WriteInt32BE(v, o) ELSE WriteUInt32BE(v, o)
      [] k.name = "64LE" -> WrtBigUInt64LE(v, o)
      [] k.name = "64BE" -> WrtBigUInt64BE(v, o)
      [] k.name = "LE"   -> IF k.signed THEN WriteIntLE(v, o, k.width)
                                        ELSE WriteUIntLE(v, o, k.width)
      [] k.name = "BE"   -> IF k.signed THEN WriteIntBE(v, o, k.width)
                                        ELSE WriteUIntBE(v, o, k.width)

Lowest(k) == IF k.signed THEN -(Base^k.width \div 2) ELSE 0
Highest(k) == IF k.signed THEN Base^k.width \div 2 - 1 ELSE Base^k.width - 1

(* Where a method writes: `offset >>> 0', but the BigInt ones take offset   *)
(* as it is.                                                                *)
Position(k, offset) == IF k.width = 8 THEN offset ELSE Uint32(offset)

(* The value fits and so do the bytes; checkIntBI asks that buf[offset] and *)
(* buf[offset + 7] are there.                                               *)
CheckIntBI(b, k, v, offset) ==
    /\ v <= Highest(k) /\ v >= Lowest(k)
    /\ {offset, offset + 7} \subseteq 0..(b.length - 1)
CheckInt(b, k, v, offset) ==
    IF k.width = 8 THEN CheckIntBI(b, k, v, offset)
    ELSE /\ v <= Highest(k) /\ v >= Lowest(k)
         /\ Position(k, offset) + k.width <= b.length

-----------------------------------------------------------------------------
(* Searching byte arrays.                                                   *)

Throws == -2     \* the search ended in a RangeError

(* bidirectionalIndexOf's byteOffset: counted from the end when negative,   *)
(* then clamped on the side the search comes from; -1 is "not found".       *)
StartOf(a, offset, dir) ==
    LET o == IF offset < 0 THEN Length(a) + offset ELSE offset
    IN  CASE o >= Length(a) -> IF dir THEN -1 ELSE Length(a) - 1
          [] o < 0          -> IF dir THEN 0 ELSE -1
          [] OTHER          -> o

(* read of arrayIndexOf; w is 2 for ucs2.                                   *)
Unit(a, p, w) == IF w = 1 THEN a[p] ELSE ReadUInt16BE(a, p)

(* Mutant of ArrayIndexOf: after a partial match the scan goes on behind    *)
(* it, not behind its first unit.                                           *)
ArrayIndexOfSkips(a, val, start, w) ==
    LET scan[s \in (0..(Length(a) + 1)) \X ((-1)..(Length(a) - 1))] ==
        LET p == s[1]
            first == IF s[2] = -1 THEN p ELSE s[2]
        IN  CASE p >= Length(a) -> -1
              [] p < Length(a) /\ p + w > Length(a) -> Throws
              [] OTHER ->
                 IF Unit(a, p, w) = Unit(val, p - first, w)
                 THEN IF p - first + w = Length(val) THEN first ELSE scan[<<p + w, first>>]
                 ELSE scan[<<p + w, -1>>]
    IN  scan[<<start, -1>>]

(* arrayIndexOf, dir true, positions in bytes: the loop's i and foundIndex. *)
(* The match begins at foundIndex or, when that is -1, at i.                *)
ArrayIndexOf(a, val, start, w) ==
    LET scan[s \in (0..(Length(a) + 1)) \X ((-1)..(Length(a) - 1))] ==
        LET p == s[1]
            first == IF s[2] = -1 THEN p ELSE s[2]
        IN  CASE p >= Length(a) -> -1
              [] p < Length(a) /\ p + w > Length(a) -> Throws
              [] OTHER ->
                 IF Unit(a, p, w) = Unit(val, p - first, w)
                 THEN IF p - first + w = Length(val) THEN first ELSE scan[<<p + w, first>>]
                 ELSE scan[<<first + w, -1>>]
    IN  scan[<<start, -1>>]

(* dir false: the loop counts units, and returns units.  (From an odd place *)
(* in ucs2 the code's units are halves; they are rounded down here.)        *)
ArrayLastIndexOf(a, val, start, w) ==
    LET from == IF start + Length(val) > Length(a) THEN Length(a) - Length(val) ELSE start
        Found(p) == \A j \in 0..(Length(val) \div w - 1) :
                        Unit(a, p + j * w, w) = Unit(val, j * w, w)
        scan[p \in (-2)..Length(a)] ==
            IF p < 0 THEN -1 ELSE IF Found(p) THEN p \div w ELSE scan[p - w]
    IN  IF from < 0 THEN -1 ELSE scan[from]

BidirectionalIndexOf(a, val, offset, w, dir) ==
    LET start == StartOf(a, offset, dir)
    IN  CASE Length(a) = 0 \/ start = -1 \/ Length(val) = 0 -> -1
          [] w = 2 /\ (Length(a) < 2 \/ Length(val) < 2) -> -1
          [] OTHER -> IF dir THEN ArrayIndexOf(a, val, start, w)
                             ELSE ArrayLastIndexOf(a, val, start, w)

(* compare of a range of a with a range of t (which is copied first): the   *)
(* first byte that differs decides, then the lengths.  Buffer.compare and   *)
(* equals are the same over whole arrays.                                   *)
Sign(x, y) == CASE x < y -> -1 [] y < x -> 1 [] OTHER -> 0
Compare(a, t, start, end, thisStart, thisEnd) ==
    LET x == thisEnd - thisStart
        y == end - start
        differ == {i \in 0..(Min2(x, y) - 1) : a[thisStart + i] # t[start + i]}
        i == CHOOSE j \in differ : \A k \in differ : j <= k
    IN  IF start < 0 \/ end > Length(t) \/ thisStart < 0 \/ thisEnd > Length(a) THEN Throws
        ELSE CASE x <= 0 \/ y <= 0 -> Sign(IF x > 0 THEN 1 ELSE 0, IF y > 0 THEN 1 ELSE 0)
               [] x > 0 /\ y > 0 /\ differ = {} -> Sign(x, y)
               [] OTHER -> Sign(a[thisStart + i], t[start + i])
CompareWhole(a, b) == Compare(a, b, 0, Length(b), 0, Length(a))

-----------------------------------------------------------------------------
(* Windows: slice, fill, copy, swap, concat.                                *)

(* slice: negative ends count from the end, both are clamped, and the new   *)
(* Buffer shares the memory.                                                *)
Clamp(x, len) ==
    CASE x + len < 0 -> 0
      [] x < 0 /\ x + len >= 0 -> x + len
      [] x > len -> len
      [] OTHER   -> x
Slice(b, start, end) ==
    LET s == Clamp(start, b.length)
        e == Clamp(end, b.length)
    IN  Window(b.mem, b.offset + s, IF e < s THEN 0 ELSE e - s)

(* fill's range check; the loops run when end > start.                      *)
FillRange(b, start, end) == ~(start < 0 \/ b.length < start \/ b.length < end)

(* Mutant of FillBuffer: the pattern is aligned to the Buffer, not to start. *)
FillBufferAligned(st, b, v, start, end) ==
    LET after[i \in 0..(end - start)] ==
            IF i = 0 THEN st
            ELSE Poke(after[i - 1], b,
                      At(start + i - 1,
                         <<View(after[i - 1], v)[(start + i - 1) % v.length]>>))
    IN  IF end <= start THEN st ELSE after[end - start]

(* fill with a number, and with the bytes of another Buffer, one after the  *)
(* other: v may share memory with b.                                        *)
FillNumber(st, b, n, start, end) ==
    Poke(st, b, [i \in start..(end - 1) |-> n])

FillBuffer(st, b, v, start, end) ==
    LET after[i \in 0..(end - start)] ==
            IF i = 0 THEN st
            ELSE Poke(after[i - 1], b,
                      At(start + i - 1, <<View(after[i - 1], v)[(i - 1) % v.length]>>))
    IN  IF end <= start THEN st ELSE after[end - start]

(* copy: the source's range, clamped to both windows; fails on bad indices. *)
(* An end of 0 is not raised to start: the count is then -start.            *)
CopyRange(b, target, targetStart, start, end) ==
    LET ts == IF targetStart >= target.length THEN target.length ELSE targetStart
        e1 == IF end > 0 /\ end < start THEN start ELSE end
        e2 == IF e1 > b.length THEN b.length ELSE e1
        e3 == IF target.length - ts < e2 - start THEN target.length - ts + start ELSE e2
        nothing == e1 = start \/ target.length = 0 \/ b.length = 0
        bad == ts < 0 \/ start < 0 \/ start >= b.length \/ e1 < 0
    IN  CASE nothing -> [ok |-> TRUE, count |-> 0, from |-> 0, to |-> 0]
          [] ~nothing /\ bad -> [ok |-> FALSE, count |-> 0, from |-> 0, to |-> 0]
          [] OTHER -> [ok |-> TRUE, count |-> e3 - start, from |-> start, to |-> ts]

(* Mutant of CopyBytes: a loop forwards.                                    *)
CopyForwards(st, b, target, r) ==
    LET after[i \in 0..r.count] ==
            IF i = 0 THEN st
            ELSE Poke(after[i - 1], target,
                      At(r.to + i - 1, <<View(after[i - 1], b)[r.from + i - 1]>>))
    IN  IF r.count <= 0 THEN st ELSE after[r.count]

(* copyWithin and Uint8Array.set copy as if through a temporary.            *)
CopyBytes(st, b, target, r) ==
    Poke(st, target, [i \in r.to..(r.to + r.count - 1) |-> View(st, b)[r.from + i - r.to]])

(* swap16, swap32 and swap64: every group of n bytes is reversed.           *)
Swapped(a, n) == [i \in DOMAIN a |-> a[(i \div n) * n + (n - 1 - (i % n))]]

(* Buffer.concat into a new Buffer of the given length: pieces go one       *)
(* behind the other, copy cuts the one that does not fit, the rest is 0.    *)
Concat(list, length) ==
    LET pos[i \in 1..(Len(list) + 1)] ==
            IF i = 1 THEN 0 ELSE pos[i - 1] + Length(list[i - 1])
        From(j) == {i \in 1..Len(list) : j \in pos[i]..(pos[i + 1] - 1)}
    IN  [j \in 0..(length - 1) |->
            IF From(j) = {} THEN 0
            ELSE LET i == CHOOSE i \in From(j) : TRUE IN list[i][j - pos[i]]]

-----------------------------------------------------------------------------
(* Calls.  One that throws has changed nothing, and is not a step.          *)

Call == calls < MaxCalls /\ calls' = calls + 1

(* A Buffer on memory of its own, with the given bytes (createBuffer).      *)
Create(bytes) ==
    /\ Call /\ Len(bufs) < MaxBufs /\ Length(bytes) <= KMaxLength
    /\ store' = Append(store, bytes)
    /\ bufs' = Append(bufs, Window(Len(store) + 1, 0, Length(bytes)))

(* A Buffer on memory that exists.                                          *)
Share(b) ==
    /\ Call /\ Len(bufs) < MaxBufs
    /\ bufs' = Append(bufs, b) /\ UNCHANGED store

Assign(st) == Call /\ store' = st /\ UNCHANGED bufs

Alloc(size, fill) == Create([i \in 0..(size - 1) |-> fill % Base])
(* checked stops what goes through fromArrayLike and allocUnsafe one size   *)
(* before createBuffer does.                                                *)
Checked(length) == length < KMaxLength

FromArrayLike(array) ==
    Checked(Len(array)) /\ Create([i \in 0..(Len(array) - 1) |-> array[i + 1] % Base])
FromArrayView(b) == Create(Bytes(b))
FromArrayBuffer(m, byteOffset, length) ==
    /\ byteOffset >= 0 /\ byteOffset + length <= Length(store[m])
    /\ Share(Window(m, byteOffset, length))
SliceBuffer(b, start, end) == Share(Slice(b, start, end))
ConcatBuffers(b, c, length) ==
    Checked(length) /\ Create(Concat(<<Bytes(b), Bytes(c)>>, length))
WriteInt(b, k, v, offset) ==
    CheckInt(b, k, v, offset) /\ Assign(Poke(store, b, Write(k, v, Position(k, offset))))
FillWithNumber(b, n, start, end) ==
    FillRange(b, start, end) /\ Assign(FillNumber(store, b, n, start, end))
FillWithBuffer(b, v, start, end) ==
    FillRange(b, start, end) /\ v.length > 0 /\ Assign(FillBuffer(store, b, v, start, end))
Copy(b, target, targetStart, start, end) ==
    LET r == CopyRange(b, target, targetStart, start, end)
    IN  r.ok /\ Assign(CopyBytes(store, b, target, r))
Swap(b, n) == b.length % n = 0 /\ Assign(Poke(store, b, Swapped(Bytes(b), n)))

(* The values a program passes: the ends of the range, and past them.       *)
Values(k) == {v \in {Lowest(k), Lowest(k) + 1, -Base, -1, 0, 1, Base - 1, Base,
                     Base^2 \div 2, Highest(k) - 1, Highest(k)} :
                v >= Lowest(k) - 1 /\ v <= Highest(k) + 1}
Pairs == {<<x, y>> : x, y \in Items}

Next ==
    \/ \E n \in Sizes, v \in Items : Alloc(n, v)
    \/ \E s \in Pairs : FromArrayLike(<<s[1], s[2], 1, s[1]>>)
    \/ \E b \in Range(bufs) :
          \/ FromArrayView(b)
          \/ \E s, e \in Offsets : SliceBuffer(b, s, e)
          \/ \E n \in {2, 4, 8} : Swap(b, n)
          \/ \E v \in Items, s, e \in Offsets : FillWithNumber(b, v, s, e)
          \/ \E k \in Accessors, o \in Offsets : \E v \in Values(k) : WriteInt(b, k, v, o)
    \/ \E m \in DOMAIN store, o, l \in Offsets : l >= 0 /\ FromArrayBuffer(m, o, l)
    \/ \E b, c \in Range(bufs) :
          \/ \E l \in Sizes : ConcatBuffers(b, c, l)
          \/ \E s, e \in Offsets : FillWithBuffer(b, c, s, e)
          \/ \E t, s, e \in Offsets : Copy(b, c, t, s, e)

Spec == Init /\ [][Next]_vars

-----------------------------------------------------------------------------
(* Properties: they hold of every call that is possible in a state.         *)

(* What a write accessor stores, the read accessor of the same name returns *)
(* through every Buffer that shares the bytes, and so do those of the same  *)
(* bytes under another name (of variable width, of the other sign up to a   *)
(* multiple of the range); the other bytes keep their values.  The borrow   *)
(* of writeIntLE, the wrap-around of `<<' and the two 32-bit halves of a    *)
(* BigInt are all in here.                                                  *)
ReadsWhatWasWritten ==
    \A b, c \in Range(bufs), k \in Accessors, o \in Offsets : \A v \in Values(k) :
        CheckInt(b, k, v, o) =>
            LET at == Position(k, o)
                st == Poke(store, b, Write(k, v, at))
                p == b.offset + at - c.offset
                Same(l) == l.width = k.width /\ (k.width = 1 \/ BigEndian(l) = BigEndian(k))
            IN  /\ c.mem = b.mem /\ p >= 0 /\ CheckOffset(p, k.width, c.length) =>
                      /\ Read(k, View(st, c), p) = v
                      /\ \A l \in Accessors :
                            Same(l) => (Read(l, View(st, c), p) - v) % Base^k.width = 0
                /\ \A i \in DOMAIN store[b.mem] \ (b.offset + at)..(b.offset + at + k.width - 1) :
                      st[b.mem][i] = store[b.mem][i]

(* copy moves as many bytes as were asked for and there are and have room,  *)
(* as they were before the call even when the windows overlap, and touches  *)
(* nothing else.                                                            *)
CopyAsIfDetached ==
    \A b, c \in Range(bufs), t, s, e \in Offsets :
        LET r == CopyRange(b, c, t, s, e)
            st == CopyBytes(store, b, c, r)
            n == Min2(Min2(e, b.length) - s, c.length - t)
        IN  r.ok =>
              /\ IF s >= 0 /\ t >= 0 /\ n > 0 THEN r.count = n ELSE r.count <= 0
              /\ \A i \in 0..(r.count - 1) : View(st, c)[t + i] = Bytes(b)[s + i]
              /\ \A i \in DOMAIN store[c.mem] \ (c.offset + t)..(c.offset + t + r.count - 1) :
                    st[c.mem][i] = store[c.mem][i]

(* fill repeats the pattern it was given when the pattern is not in its     *)
(* way, and stays in its range.                                             *)
FillRepeats ==
    \A b, v \in Range(bufs), s, e \in Offsets :
        FillRange(b, s, e) /\ v.length > 0 =>
            LET st == FillBuffer(store, b, v, s, e)
                range == (b.offset + s)..(b.offset + e - 1)
                apart == b.mem # v.mem \/ range \cap v.offset..(v.offset + v.length - 1) = {}
            IN  /\ \A i \in DOMAIN store[b.mem] \ range : st[b.mem][i] = store[b.mem][i]
                /\ apart => \A i \in s..(e - 1) : View(st, b)[i] = Bytes(v)[(i - s) % v.length]

(* indexOf returns the first and, byte by byte, lastIndexOf the last place, *)
(* from the offset on, where the value is: the restart after a partial      *)
(* match loses none.  In ucs2 indexOf goes in steps of two bytes from the   *)
(* offset, odd or even, and throws only when the value is not ahead.        *)
(* lastIndexOf in ucs2 is left out: it returns the number of the unit.      *)
(* compare calls the range at each place equal exactly when the value is    *)
(* there, and is the opposite of itself with the Buffers exchanged.         *)
IndexOfIsExact ==
    \A b, c \in Range(bufs), w \in {1, 2} : \A o \in Offsets \cup {-b.length - 1, -2} :
        LET a == Bytes(b)
            val == Bytes(c)
            start == StartOf(a, o, TRUE)
            last == StartOf(a, o, FALSE)
            matches == {p \in 0..(b.length - c.length) :
                           \A j \in DOMAIN val : a[p + j] = val[j]}
            ahead == {p \in matches : start >= 0 /\ p >= start /\ (p - start) % w = 0}
            behind == {p \in matches : p <= last}
        IN  /\ w = 1 => /\ CompareWhole(a, val) = -CompareWhole(val, a)
                        /\ \A p \in 0..(b.length - c.length) :
                              Compare(a, val, 0, c.length, p, p + c.length) = 0 <=> p \in matches
            /\ c.length > 0 /\ (w = 2 => c.length % 2 = 0) =>
                 LET r == BidirectionalIndexOf(a, val, o, w, TRUE)
                 IN  IF ahead = {} THEN r \in {-1, Throws} /\ (r = Throws => w = 2)
                     ELSE r \in ahead /\ \A p \in ahead : r <= p
            /\ c.length > 0 /\ w = 1 =>
                 LET r == BidirectionalIndexOf(a, val, o, w, FALSE)
                 IN  IF behind = {} THEN r = -1
                     ELSE r \in behind /\ \A p \in behind : p <= r

=============================================================================
